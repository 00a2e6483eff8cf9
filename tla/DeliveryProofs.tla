--------------------------- MODULE DeliveryProofs ---------------------------
(***************************************************************************)
(* Theorems about messages, for any number of messages, users, streams and *)
(* servers, with and without authentication.                               *)
(***************************************************************************)
EXTENDS Delivery, EventServerProofs

\* A request changes nothing of the event servers' state: what is proved of
\* them holds with requests running.
LEMMA RequestsOnlyLook ==
  ASSUME NEW m \in Message, SendMessage(m) \/ Relay(m) PROVE UNCHANGED esVars
<1>1. CASE SendMessage(m)
  BY <1>1 DEF SendMessage, Post, PostRefused, GatewayPost, Find, NotFound, Send, SendFails,
              Respond, DiesWithServer, Fails
<1>2. CASE Relay(m)
  BY <1>2 DEF Relay, Forward, Resolve, ClientForServer, ForwardFails, PostEvent, Fails
<1> QED
  BY <1>1, <1>2

\* The streams and hearts of the event servers, of which module
\* EventServerProofs speaks, are those next to which messages are sent.
THEOREM DeliveryRunsEventServers == DeliverySafety => ESSafety
<1>1. DeliveryInit => ESInit
  BY DEF DeliveryInit
<1>2. [DeliveryNext]_deliveryVars => [ESNext]_esVars
  BY RequestsOnlyLook DEF DeliveryNext, RequestStep, deliveryVars
<1> QED
  BY <1>1, <1>2, PTL DEF DeliverySafety, ESSafety
-----------------------------------------------------------------------------
(* The invariant *)

\* A connection is stored for its user, by its server.
ConnsPlaced ==
  \A s \in Server, u \in User : conns[s][u] # NoStream =>
    UserOf[conns[s][u]] = u /\ ServerOf[conns[s][u]] = s

\* A record was written by a heart, which has been launched since.
RecordWritten ==
  \A u \in User : record[u] # NoServer =>
    \E c \in Stream : UserOf[c] = u /\ ServerOf[c] = record[u] /\ beat[c] # "none"

\* A connection that was overwritten is not stored again: its handler has
\* registered it and does so once.
Past(c) == handler[c] \in {"launch", "wait", "ok", "error"} /\ ~InMap(c)

\* What is known of a request from where it is.
MessageInv(m) ==
  /\ step[m] = "none" => to[m] = NoUser
  /\ step[m] \notin {"none", "done"} => to[m] \in User
  /\ step[m] # "done" => answer[m] = 0
  /\ step[m] \in {"find", "send", "respond", "client", "post"} => server[m] \in Server
  /\ step[m] \in {"find", "send", "respond"} => AuthType = "noop" \/ cred[m] = "valid"
  /\ step[m] = "send" => /\ target[m] \in Stream
                         /\ UserOf[target[m]] = to[m]
                         /\ ServerOf[target[m]] = server[m]
                         /\ target[m] \notin replaced[m]
  /\ step[m] = "respond" => handed[m] # NoStream
  /\ handed[m] # NoStream => /\ step[m] \in {"respond", "done"}
                             /\ to[m] \in User
  /\ \A c \in replaced[m] : Past(c)

DeliveryInv == /\ DeliveryTypeOK
               /\ ConnsPlaced
               /\ RecordWritten
               /\ \A m \in Message : MessageInv(m)
               /\ HandedWasCurrent
               /\ HandedIsAudited
               /\ AskedServedRecipient
-----------------------------------------------------------------------------
(* The chain of the event server's /send-message *)

Middleware == {"metrics", "logger", "auth"}
RouterBuilder == [middlewares : Seq(Middleware), handlersAdded : BOOLEAN]

LEMMA SubGroupIsOpen ==
  ASSUME NEW b \in RouterBuilder
  PROVE  /\ SubGroup(b) \in RouterBuilder
         /\ SubGroup(b).middlewares = b.middlewares
         /\ ~SubGroup(b).handlersAdded
  BY DEF SubGroup, RouterBuilder

LEMMA HandlerKeepsMiddlewares ==
  ASSUME NEW b \in RouterBuilder
  PROVE  /\ HandleJSONFunc(b) \in RouterBuilder
         /\ HandleJSONFunc(b).middlewares = b.middlewares
  BY DEF HandleJSONFunc, RouterBuilder

LEMMA WithAppends ==
  ASSUME NEW b \in RouterBuilder, ~b.handlersAdded, NEW ms \in Seq(Middleware)
  PROVE  /\ With(b, ms) \in RouterBuilder
         /\ With(b, ms).middlewares = b.middlewares \o ms
<1>1. With(b, ms) = [b EXCEPT !.middlewares = @ \o ms]
  BY DEF With
<1>2. b.middlewares \o ms \in Seq(Middleware)
  BY DEF RouterBuilder
<1> QED
  BY <1>1, <1>2 DEF RouterBuilder

LEMMA EventServerChain ==
  LET chain == Wrap(AuthenticatedRouter)
  IN  DOMAIN chain = 1 .. 3 /\ chain[1] = "auth" /\ chain[2] = "logger"
<1> DEFINE instrumented == <<>> \o <<"metrics", "logger">>
           all == instrumented \o <<"auth">>
<1>1. <<"metrics", "logger">> \in Seq(Middleware) /\ <<"auth">> \in Seq(Middleware)
  BY DEF Middleware
<1>2. InstrumentedRouter \in RouterBuilder /\ InstrumentedRouter.middlewares = instrumented
  <2>1. RawRouter \in RouterBuilder /\ RawRouter.middlewares = <<>>
    BY DEF RawRouter, NewRouterBuilder, RouterBuilder
  <2>2. PICK b \in RouterBuilder :
          b = SubGroup(RawRouter) /\ ~b.handlersAdded /\ b.middlewares = <<>>
    BY <2>1, SubGroupIsOpen
  <2>3. With(b, <<"metrics", "logger">>) = InstrumentedRouter
    BY <2>2 DEF InstrumentedRouter
  <2> QED
    BY <1>1, <2>2, <2>3, WithAppends
<1>3. AuthenticatedRouter.middlewares = all
  <2>1. HandleJSONFunc(InstrumentedRouter) \in RouterBuilder
        /\ HandleJSONFunc(InstrumentedRouter).middlewares = instrumented
    BY <1>2, HandlerKeepsMiddlewares
  <2>2. PICK b \in RouterBuilder : /\ b = SubGroup(HandleJSONFunc(InstrumentedRouter))
                                   /\ ~b.handlersAdded
                                   /\ b.middlewares = instrumented
    BY <2>1, SubGroupIsOpen
  <2>3. With(b, <<"auth">>) = AuthenticatedRouter
    BY <2>2 DEF AuthenticatedRouter
  <2> QED
    BY <1>1, <2>2, <2>3, WithAppends
<1>4. /\ instrumented \in Seq(Middleware)
      /\ Len(instrumented) = 2
      /\ instrumented[1] = "metrics"
      /\ instrumented[2] = "logger"
  BY <1>1
<1>5. Len(all) = 3 /\ all[1] = "metrics" /\ all[2] = "logger" /\ all[3] = "auth"
  BY <1>1, <1>4
<1> HIDE DEF all
<1> QED
  BY <1>3, <1>5 DEF Wrap

\* Whom the middlewares let pass has a token, and is logged.
LEMMA PassedIsChecked ==
  ASSUME NEW cr \in Credential,
         AnswerBefore(EventServerRoutes, "/send-message", "POST", cr) = 0
  PROVE  AuthType = "noop" \/ cr = "valid"
<1> DEFINE route == EventServerRoutes["/send-message"]
<1>1. DetermineHTTPError["unauthorized"] = 401
  BY DEF DetermineHTTPError, ErrorType
<1>2. Admitted(route, cr)
  BY <1>1 DEF AnswerBefore
<1>3. route.chain = Wrap(AuthenticatedRouter)
  BY DEF EventServerRoutes, Route
<1> HIDE DEF route
<1> QED
  BY <1>2, <1>3, EventServerChain DEF Admitted, Admits

LEMMA CheckedIsLogged ==
  ASSUME NEW cr \in Credential, NEW code, AuthType = "noop" \/ cr = "valid"
  PROVE  Line(EventServerRoutes, cr, code) = code
<1> DEFINE route == EventServerRoutes["/send-message"]
<1>1. route.chain = Wrap(AuthenticatedRouter)
  BY DEF EventServerRoutes, Route
<1> HIDE DEF route
<1>2. 2 \in DOMAIN route.chain /\ route.chain[2] = "logger"
  BY <1>1, EventServerChain
<1>3. \A j \in 1 .. 1 : Admits(route.chain[j], cr)
  BY DEF Admits
<1>4. Logs(route, cr)
  BY <1>2, <1>3 DEF Logs
<1> QED
  BY <1>4 DEF Line, route

-----------------------------------------------------------------------------
(* Types *)

LEMMA AnswerType ==
  ASSUME NEW routes, NEW path, NEW method, NEW cr
  PROVE  AnswerBefore(routes, path, method, cr) \in {0, 401, 404, 405}
<1>1. DetermineHTTPError["unauthorized"] = 401
  BY DEF DetermineHTTPError, ErrorType
<1> QED
  BY <1>1 DEF AnswerBefore

LEMMA FailureIs500 == Failure = 500 /\ DetermineHTTPError["none"] = 500
  BY DEF Failure, DetermineHTTPError, ErrorType

LEMMA LineType ==
  ASSUME NEW routes, NEW cr, NEW code \in Code PROVE Line(routes, cr, code) \in Code
  BY DEF Line, Code

LEMMA EndsType ==
  ASSUME DeliveryTypeOK, NEW m \in Message, NEW code \in Code, NEW line \in Code,
         Ends(m, code, line)
  PROVE  /\ step' \in [Message -> Step]
         /\ answer' \in [Message -> Code]
         /\ logged' \in [Message -> Code]
  BY DEF DeliveryTypeOK, Ends, Received, Step, Code

LEMMA GoesToType ==
  ASSUME DeliveryTypeOK, NEW m \in Message, NEW next \in Step, GoesTo(m, next)
  PROVE  /\ step' \in [Message -> Step]
         /\ answer' \in [Message -> Code]
         /\ logged' \in [Message -> Code]
  BY DEF DeliveryTypeOK, GoesTo

\* The types of what RequestStep changes.
RequestTypeOK ==
  /\ step \in [Message -> Step]
  /\ to \in [Message -> User \cup {NoUser}]
  /\ server \in [Message -> Server \cup {NoServer}]
  /\ cred \in [Message -> Credential]
  /\ target \in [Message -> Stream \cup {NoStream}]
  /\ handed \in [Message -> Stream \cup {NoStream}]
  /\ answer \in [Message -> Code]
  /\ logged \in [Message -> Code]
  /\ replaced \in [Message -> SUBSET Stream]

LEMMA FailsType ==
  ASSUME DeliveryTypeOK, NEW m \in Message, NEW line \in Code, Fails(m, line)
  PROVE  RequestTypeOK'
<1>1. Ends(m, Failure, line) /\ Failure \in Code
  BY FailureIs500 DEF Fails, Code
<1> QED
  BY <1>1, EndsType DEF Fails, RequestTypeOK, DeliveryTypeOK

LEMMA RequestStepType ==
  ASSUME DeliveryTypeOK, NEW m \in Message, MessageInv(m), SendMessage(m) \/ Relay(m)
  PROVE  RequestTypeOK'
<1>1. ASSUME NEW s \in Server, NEW u \in User, NEW cr \in Credential, Post(m, s, u, cr)
      PROVE  RequestTypeOK'
  <2>1. Replaced(u) \in SUBSET Stream
    BY DEF Replaced
  <2>2. GoesTo(m, "find") /\ "find" \in Step
    BY <1>1 DEF Post, Step
  <2> QED
    BY <1>1, <2>1, <2>2, GoesToType DEF Post, RequestTypeOK, DeliveryTypeOK
<1>2. ASSUME NEW routes, NEW cr, PostRefused(m, routes, cr) PROVE RequestTypeOK'
  <2> DEFINE code == AnswerBefore(routes, "/send-message", "POST", cr)
             refusal == IF code = 0 THEN DetermineHTTPError["none"] ELSE code
  <2>1. refusal \in Code
    BY AnswerType, FailureIs500 DEF Code
  <2>2. Ends(m, refusal, Line(routes, cr, refusal))
    BY <1>2 DEF PostRefused
  <2> HIDE DEF refusal
  <2> QED
    BY <1>2, <2>1, <2>2, EndsType, LineType DEF PostRefused, RequestTypeOK, DeliveryTypeOK
<1>3. ASSUME NEW cr, GatewayPost(m, cr) PROVE RequestTypeOK'
  <2>1. Ends(m, 0, 0) /\ 0 \in Code
    BY <1>3 DEF GatewayPost, Code
  <2> QED
    BY <1>3, <2>1, EndsType DEF GatewayPost, RequestTypeOK, DeliveryTypeOK
<1>4. CASE Find(m)
  <2>1. GoesTo(m, "send") /\ "send" \in Step
    BY <1>4 DEF Find, Step
  <2>2. conns[server[m]][to[m]] \in Stream \cup {NoStream}
    BY <1>4 DEF Find, MessageInv, DeliveryTypeOK, ESTypeOK
  <2> QED
    BY <1>4, <2>1, <2>2, GoesToType DEF Find, RequestTypeOK, DeliveryTypeOK
<1>5. CASE NotFound(m) \/ SendFails(m) \/ ForwardFails(m) \/ PostEvent(m)
  <2>1. 0 \in Code /\ Failure \in Code
    BY FailureIs500 DEF Code
  <2>2. PICK line \in Code : Fails(m, line)
    BY <1>5, <2>1, LineType DEF NotFound, SendFails, ForwardFails, PostEvent
  <2> QED
    BY <2>2, FailsType
<1>6. CASE Send(m)
  <2>1. GoesTo(m, "respond") /\ "respond" \in Step
    BY <1>6 DEF Send, Step
  <2> QED
    BY <1>6, <2>1, GoesToType DEF Send, RequestTypeOK, DeliveryTypeOK
<1>7. CASE Respond(m)
  <2>1. Ends(m, 200, Line(EventServerRoutes, cred[m], 200)) /\ 200 \in Code
    BY <1>7 DEF Respond, Code
  <2> QED
    BY <1>7, <2>1, EndsType, LineType DEF Respond, RequestTypeOK, DeliveryTypeOK
<1>8. CASE DiesWithServer(m)
  <2>1. Ends(m, 0, 0) /\ 0 \in Code
    BY <1>8 DEF DiesWithServer, Code
  <2> QED
    BY <1>8, <2>1, EndsType DEF DiesWithServer, RequestTypeOK, DeliveryTypeOK
<1>9. ASSUME NEW u \in User, Forward(m, u) PROVE RequestTypeOK'
  <2>1. GoesTo(m, "resolve") /\ "resolve" \in Step
    BY <1>9 DEF Forward, Step
  <2> QED
    BY <1>9, <2>1, GoesToType DEF Forward, RequestTypeOK, DeliveryTypeOK
<1>10. CASE Resolve(m)
  <2>1. GoesTo(m, "client") /\ "client" \in Step
    BY <1>10 DEF Resolve, Step
  <2>2. record[to[m]] \in Server \cup {NoServer}
    BY <1>10 DEF Resolve, MessageInv, DeliveryTypeOK, ESTypeOK
  <2> QED
    BY <1>10, <2>1, <2>2, GoesToType DEF Resolve, RequestTypeOK, DeliveryTypeOK
<1>11. CASE ClientForServer(m)
  <2>1. GoesTo(m, "post") /\ "post" \in Step
    BY <1>11 DEF ClientForServer, Step
  <2> QED
    BY <1>11, <2>1, GoesToType DEF ClientForServer, RequestTypeOK, DeliveryTypeOK
<1> QED
  BY <1>1, <1>2, <1>3, <1>4, <1>5, <1>6, <1>7, <1>8, <1>9, <1>10, <1>11 DEF SendMessage, Relay
-----------------------------------------------------------------------------
(* What the event servers' steps keep *)

LEMMA StreamStepKeeps ==
  ASSUME ESTypeOK, ConnsPlaced, NEW c \in Stream, StreamStep(c)
  PROVE  /\ ConnsPlaced'
         /\ \A d \in Stream : Past(d) => Past(d)'
         /\ \A d \in Stream : beat[d] # "none" => beat'[d] # "none"
         /\ UNCHANGED record
<1> USE DEF ESTypeOK, connVars, heartVars
<1>1. CASE Register(c)
  <2>1. /\ conns' = [conns EXCEPT ![ServerOf[c]][UserOf[c]] = c]
        /\ handler' = [handler EXCEPT ![c] = "launch"]
        /\ handler[c] = "accepted"
    BY <1>1 DEF Register
  <2>2. ConnsPlaced'
    BY <2>1, StreamHasPlace DEF ConnsPlaced
  <2>3. \A d \in Stream : Past(d) => Past(d)'
    BY <2>1, StreamHasPlace DEF Past, InMap
  <2> QED
    BY <1>1, <2>2, <2>3 DEF Register
<1>2. CASE LaunchForUser(c)
  BY <1>2 DEF LaunchForUser, ConnsPlaced, Past, InMap
<1>3. CASE Accept(c) \/ RefuseStream(c) \/ LaunchRefused(c) \/ HandlerReturns(c)
  BY <1>3 DEF Accept, RefuseStream, LaunchRefused, HandlerReturns, ConnsPlaced, Past, InMap
<1>4. CASE ClientGone(c) \/ ReleaseSend(c) \/ ReleaseClose(c)
  BY <1>4 DEF ClientGone, ReleaseSend, ReleaseClose, ConnsPlaced, Past, InMap
<1> QED
  BY <1>1, <1>2, <1>3, <1>4 DEF StreamStep

LEMMA HeartStepKeeps ==
  ASSUME ESTypeOK, RecordWritten, NEW c \in Stream, HeartStep(c)
  PROVE  /\ UNCHANGED <<handler, conns>>
         /\ RecordWritten'
         /\ \A d \in Stream : beat[d] # "none" => beat'[d] # "none"
<1>1. /\ UNCHANGED <<handler, conns>>
      /\ \A d \in Stream : beat[d] # "none" => beat'[d] # "none"
      /\ beat[c] # "none"
      /\ record' = record \/ record' = [record EXCEPT ![UserOf[c]] = ServerOf[c]]
  BY DEF HeartStep, HeartSet, HeartSetFails, LateSetLands, HeartTick, HeartStops, connVars,
         ESTypeOK
<1> QED
  BY <1>1, StreamHasPlace DEF RecordWritten, ESTypeOK

LEMMA ServerStepKeeps ==
  ASSUME ESTypeOK, RecordWritten, NEW s \in Server, ServerStep(s)
  PROVE  /\ UNCHANGED <<handler, conns>>
         /\ RecordWritten'
         /\ \A d \in Stream : beat[d] # "none" => beat'[d] # "none"
<1>1. UNCHANGED <<handler, conns, record>>
  BY DEF ServerStep, InitiateShutdown, ShutdownInitiated, ShutdownTimesOut, GracefulStop,
         CloseServices, ServerDies, connVars, heartVars
<1>2. \A d \in Stream : beat[d] # "none" => beat'[d] # "none"
  BY DEF ServerStep, InitiateShutdown, ShutdownInitiated, ShutdownTimesOut, GracefulStop,
         CloseServices, ServerDies, heartVars
<1> QED
  BY <1>1, <1>2 DEF RecordWritten

LEMMA ESStepKeeps ==
  ASSUME ESTypeOK, ConnsPlaced, RecordWritten, [ESNext]_esVars
  PROVE  /\ ESTypeOK'
         /\ ConnsPlaced'
         /\ RecordWritten'
         /\ \A d \in Stream : Past(d) => Past(d)'
         /\ \A d \in Stream : beat[d] # "none" => beat'[d] # "none"
<1>1. ASSUME NEW c \in Stream, StreamStep(c)
      PROVE  /\ ESTypeOK' /\ ConnsPlaced' /\ RecordWritten'
             /\ \A d \in Stream : Past(d) => Past(d)'
             /\ \A d \in Stream : beat[d] # "none" => beat'[d] # "none"
  BY <1>1, StreamStepType, StreamStepKeeps DEF RecordWritten
<1>2. ASSUME NEW c \in Stream, HeartStep(c)
      PROVE  /\ ESTypeOK' /\ ConnsPlaced' /\ RecordWritten'
             /\ \A d \in Stream : Past(d) => Past(d)'
             /\ \A d \in Stream : beat[d] # "none" => beat'[d] # "none"
  BY <1>2, HeartStepType, HeartStepKeeps DEF ConnsPlaced, Past, InMap
<1>3. ASSUME NEW s \in Server, ServerStep(s)
      PROVE  /\ ESTypeOK' /\ ConnsPlaced' /\ RecordWritten'
             /\ \A d \in Stream : Past(d) => Past(d)'
             /\ \A d \in Stream : beat[d] # "none" => beat'[d] # "none"
  BY <1>3, ServerStepType, ServerStepKeeps DEF ConnsPlaced, Past, InMap
<1>4. ASSUME NEW u \in User, RecordExpires(u)
      PROVE  /\ ESTypeOK' /\ ConnsPlaced' /\ RecordWritten'
             /\ \A d \in Stream : Past(d) => Past(d)'
             /\ \A d \in Stream : beat[d] # "none" => beat'[d] # "none"
  <2>1. /\ UNCHANGED <<srv, connVars, hearts, beat, stopCh>>
        /\ record' = [record EXCEPT ![u] = NoServer]
    BY <1>4 DEF RecordExpires
  <2> QED
    BY <2>1 DEF connVars, ESTypeOK, ConnsPlaced, RecordWritten, Past, InMap
<1>5. CASE UNCHANGED esVars
  BY <1>5 DEF esVars, connVars, heartVars, ESTypeOK, ConnsPlaced, RecordWritten, Past, InMap
<1> QED
  BY <1>1, <1>2, <1>3, <1>4, <1>5 DEF ESNext
-----------------------------------------------------------------------------
(* What the requests' steps keep *)

\* The three properties, of one message.
Delivered(m) ==
  /\ handed[m] # NoStream => /\ UserOf[handed[m]] = to[m]
                             /\ ServerOf[handed[m]] = server[m]
                             /\ handed[m] \notin replaced[m]
                             /\ AuthType = "noop" \/ cred[m] = "valid"
                             /\ answer[m] # 0 => logged[m] = answer[m]
  /\ step[m] \in {"client", "post"} =>
       \E c \in Stream : /\ UserOf[c] = to[m]
                         /\ ServerOf[c] = server[m]
                         /\ beat[c] # "none"

LEMMA DeliveredIsThat ==
  (\A m \in Message : Delivered(m)) <=>
    HandedWasCurrent /\ HandedIsAudited /\ AskedServedRecipient
  BY DEF Delivered, HandedWasCurrent, HandedIsAudited, AskedServedRecipient

\* The variables of one message.
SameMessage(m) ==
  /\ step'[m] = step[m]
  /\ to'[m] = to[m]
  /\ server'[m] = server[m]
  /\ cred'[m] = cred[m]
  /\ target'[m] = target[m]
  /\ handed'[m] = handed[m]
  /\ answer'[m] = answer[m]
  /\ logged'[m] = logged[m]
  /\ replaced'[m] = replaced[m]

LEMMA OthersStay ==
  ASSUME DeliveryTypeOK, NEW m \in Message, SendMessage(m) \/ Relay(m),
         NEW n \in Message, n # m
  PROVE  SameMessage(n)
<1> USE DEF DeliveryTypeOK, SameMessage, Ends, GoesTo, Fails
<1>1. CASE Relay(m)
  BY <1>1 DEF Relay, Forward, Resolve, ClientForServer, ForwardFails, PostEvent
<1>2. CASE \E s \in Server, u \in User, cr \in Credential : Post(m, s, u, cr)
  BY <1>2 DEF Post
<1>3. CASE \E cr \in Credential : \/ PostRefused(m, EventServerRoutes, cr)
                                  \/ PostRefused(m, GatewayRoutes, cr)
                                  \/ GatewayPost(m, cr)
  BY <1>3 DEF PostRefused, GatewayPost
<1>4. CASE Find(m) \/ NotFound(m) \/ Send(m) \/ SendFails(m)
  BY <1>4 DEF Find, NotFound, Send, SendFails
<1>5. CASE Respond(m) \/ DiesWithServer(m)
  BY <1>5 DEF Respond, DiesWithServer
<1> QED
  BY <1>1, <1>2, <1>3, <1>4, <1>5 DEF SendMessage

LEMMA StayKeeps ==
  ASSUME NEW m \in Message, MessageInv(m), Delivered(m), SameMessage(m), DeliveryTypeOK,
         \A d \in Stream : Past(d) => Past(d)',
         \A d \in Stream : beat[d] # "none" => beat'[d] # "none"
  PROVE  MessageInv(m)' /\ Delivered(m)'
<1>1. MessageInv(m)'
  BY DEF MessageInv, SameMessage, DeliveryTypeOK
<1>2. Delivered(m)'
  BY DEF Delivered, SameMessage
<1> QED
  BY <1>1, <1>2

LEMMA RequestStepKeeps ==
  ASSUME DeliveryInv, NEW m \in Message, MessageInv(m), Delivered(m),
         SendMessage(m) \/ Relay(m)
  PROVE  MessageInv(m)' /\ Delivered(m)'
<1> USE DEF DeliveryInv, DeliveryTypeOK, MessageInv, Delivered
<1>0. /\ \A c \in Stream : Past(c)' <=> Past(c)
      /\ beat' = beat
  BY RequestsOnlyLook DEF esVars, connVars, heartVars, Past, InMap
<1>1. ASSUME NEW s \in Server, NEW u \in User, NEW cr \in Credential, Post(m, s, u, cr)
      PROVE  MessageInv(m)' /\ Delivered(m)'
  <2>1. AuthType = "noop" \/ cr = "valid"
    BY <1>1, PassedIsChecked DEF Post
  <2>2. \A c \in Replaced(u) : c \in Stream /\ Past(c)
    BY DEF Replaced, Past
  <2> QED
    BY <1>0, <1>1, <2>1, <2>2, DeliveryAssumption DEF Post, GoesTo
<1>2. ASSUME NEW routes, NEW cr, PostRefused(m, routes, cr)
      PROVE  MessageInv(m)' /\ Delivered(m)'
  BY <1>0, <1>2 DEF PostRefused, Ends
<1>3. ASSUME NEW cr, GatewayPost(m, cr) PROVE MessageInv(m)' /\ Delivered(m)'
  BY <1>0, <1>3 DEF GatewayPost, Ends
<1>4. CASE Find(m)
  <2>1. PICK c : c = conns[server[m]][to[m]]
    OBVIOUS
  <2>2. c \in Stream /\ UserOf[c] = to[m] /\ ServerOf[c] = server[m] /\ InMap(c)
    BY <1>4, <2>1 DEF Find, ConnsPlaced, ESTypeOK, InMap
  <2>3. c \notin replaced[m]
    BY <2>2 DEF Past
  <2>4. target'[m] = c
    BY <1>4, <2>1 DEF Find
  <2> QED
    BY <1>0, <1>4, <2>2, <2>3, <2>4 DEF Find, GoesTo
<1>5. ASSUME NEW line, Fails(m, line), step[m] \notin {"none", "respond", "done"}
      PROVE  MessageInv(m)' /\ Delivered(m)'
  BY <1>0, <1>5 DEF Fails, Ends
<1>6. CASE Send(m)
  BY <1>0, <1>6, EventServerAssumption DEF Send, GoesTo
<1>7. CASE Respond(m)
  <2>1. Line(EventServerRoutes, cred[m], 200) = 200
    BY <1>7, CheckedIsLogged DEF Respond
  <2> QED
    BY <1>0, <1>7, <2>1 DEF Respond, Ends, Received
<1>8. CASE DiesWithServer(m)
  BY <1>0, <1>8 DEF DiesWithServer, Ends, Received
<1>9. ASSUME NEW u \in User, Forward(m, u) PROVE MessageInv(m)' /\ Delivered(m)'
  BY <1>0, <1>9 DEF Forward, GoesTo
<1>10. CASE Resolve(m)
  <2>1. /\ record[to[m]] \in Server
        /\ \E c \in Stream : UserOf[c] = to[m] /\ ServerOf[c] = record[to[m]] /\ beat[c] # "none"
    BY <1>10 DEF Resolve, RecordWritten, ESTypeOK
  <2> QED
    BY <1>0, <1>10, <2>1 DEF Resolve, GoesTo
<1>11. CASE ClientForServer(m)
  BY <1>0, <1>11 DEF ClientForServer, GoesTo
<1>12. CASE NotFound(m) \/ SendFails(m) \/ ForwardFails(m) \/ PostEvent(m)
  BY <1>5, <1>12 DEF NotFound, SendFails, ForwardFails, PostEvent
<1> QED
  BY <1>1, <1>2, <1>3, <1>4, <1>6, <1>7, <1>8, <1>9, <1>10, <1>11, <1>12 DEF SendMessage, Relay

LEMMA DeliveryInvHolds == DeliverySafety => []DeliveryInv
<1>1. DeliveryInit => DeliveryInv
  <2> SUFFICES ASSUME DeliveryInit PROVE DeliveryInv
    OBVIOUS
  <2>1. ESTypeOK
    BY DEF DeliveryInit, ESInit, ESTypeOK, Phase
  <2>2. DeliveryTypeOK
    BY <2>1 DEF DeliveryInit, DeliveryTypeOK, Step, Code, Credential
  <2>3. ConnsPlaced /\ RecordWritten
    BY DEF DeliveryInit, ESInit, ConnsPlaced, RecordWritten
  <2>4. \A m \in Message : MessageInv(m) /\ Delivered(m)
    BY DEF DeliveryInit, MessageInv, Delivered
  <2> QED
    BY <2>2, <2>3, <2>4, DeliveredIsThat DEF DeliveryInv
<1>2. DeliveryInv /\ [DeliveryNext]_deliveryVars => DeliveryInv'
  <2> SUFFICES ASSUME DeliveryInv, [DeliveryNext]_deliveryVars PROVE DeliveryInv'
    OBVIOUS
  <2>1. [ESNext]_esVars
    BY RequestsOnlyLook DEF DeliveryNext, RequestStep, deliveryVars
  <2>2. /\ ESTypeOK' /\ ConnsPlaced' /\ RecordWritten'
        /\ \A d \in Stream : Past(d) => Past(d)'
        /\ \A d \in Stream : beat[d] # "none" => beat'[d] # "none"
    BY <2>1, ESStepKeeps DEF DeliveryInv, DeliveryTypeOK
  <2>3. \A m \in Message : MessageInv(m) /\ Delivered(m)
    BY DeliveredIsThat DEF DeliveryInv
  <2>4. DeliveryTypeOK' /\ \A m \in Message : MessageInv(m)' /\ Delivered(m)'
    <3>1. ASSUME NEW m \in Message, SendMessage(m) \/ Relay(m)
          PROVE  DeliveryTypeOK' /\ \A n \in Message : MessageInv(n)' /\ Delivered(n)'
      <4>1. DeliveryTypeOK'
        BY <2>2, <2>3, <3>1, RequestStepType DEF DeliveryInv, DeliveryTypeOK, RequestTypeOK
      <4>2. MessageInv(m)' /\ Delivered(m)'
        BY <2>3, <3>1, RequestStepKeeps
      <4>3. ASSUME NEW n \in Message, n # m PROVE MessageInv(n)' /\ Delivered(n)'
        BY <2>2, <2>3, <3>1, <4>3, OthersStay, StayKeeps DEF DeliveryInv
      <4> QED
        BY <4>1, <4>2, <4>3
    <3>2. CASE UNCHANGED requestVars
      <4>1. DeliveryTypeOK'
        BY <2>2, <3>2 DEF DeliveryInv, DeliveryTypeOK, requestVars
      <4>2. \A m \in Message : SameMessage(m)
        BY <3>2 DEF requestVars, SameMessage
      <4> QED
        BY <2>2, <2>3, <4>1, <4>2, StayKeeps DEF DeliveryInv
    <3> QED
      BY <3>1, <3>2 DEF DeliveryNext, RequestStep, deliveryVars
  <2>5. (HandedWasCurrent /\ HandedIsAudited /\ AskedServedRecipient)'
    BY <2>4 DEF Delivered, HandedWasCurrent, HandedIsAudited, AskedServedRecipient
  <2> QED
    BY <2>2, <2>4, <2>5 DEF DeliveryInv
<1> QED
  BY <1>1, <1>2, PTL DEF DeliverySafety

\* Type correctness of the event servers and the requests together.
THEOREM DeliveryTypes == DeliverySafety => []DeliveryTypeOK
  BY DeliveryInvHolds, PTL DEF DeliveryInv

\* Whatever happens to the connection between its lookup and its use, the event
\* is given to a stream of the recipient that was not replaced before.
THEOREM EventsReachTheirRecipient == DeliverySafety => []HandedWasCurrent
  BY DeliveryInvHolds, PTL DEF DeliveryInv

\* The order of the middlewares: what is handed over was checked and is logged.
THEOREM EventsAreAudited == DeliverySafety => []HandedIsAudited
  BY DeliveryInvHolds, PTL DEF DeliveryInv

\* The relay asks no server that has not run a heart of the recipient.
THEOREM RelayAsksServersOfRecipient == DeliverySafety => []AskedServedRecipient
  BY DeliveryInvHolds, PTL DEF DeliveryInv
-----------------------------------------------------------------------------
(* The sender's view *)

Given == [m \in Message |-> IF handed[m] = NoStream THEN NoUser ELSE UserOf[handed[m]]]
Told == [m \in Message |-> Code2Told(answer[m])]

MessengerStep(m) == \/ \E u \in User : M!SendTo(m, u)
                    \/ M!Give(m)
                    \/ M!Tell(m)
                    \/ M!TurnDown(m)

LEMMA ToldIs ==
  /\ Code2Told(0) = "nothing"
  /\ Code2Told(200) = "accepted"
  /\ \A code \in Code \ {0, 200} : Code2Told(code) = "refused"
  BY DEF Code2Told, Code

\* What the end of a request tells its sender.
LEMMA EndsTells ==
  ASSUME DeliveryTypeOK, NEW m \in Message, NEW code, NEW line, Ends(m, code, line)
  PROVE  \/ Told' = [Told EXCEPT ![m] = Code2Told(code)]
         \/ Told' = [Told EXCEPT ![m] = "nothing"]
<1>1. ASSUME NEW received, answer' = [answer EXCEPT ![m] = received]
      PROVE  Told' = [Told EXCEPT ![m] = Code2Told(received)]
  <2> DEFINE T == [Told EXCEPT ![m] = Code2Told(received)]
  <2>1. DOMAIN Told' = Message /\ DOMAIN T = Message
    BY DEF Told
  <2>2. ASSUME NEW n \in Message PROVE Told'[n] = T[n]
    BY <1>1 DEF Told, DeliveryTypeOK
  <2> QED
    BY <2>1, <2>2 DEF Told
<1>2. PICK received \in {code, 0} : answer' = [answer EXCEPT ![m] = received]
  BY DEF Ends, Received
<1>3. Told' = [Told EXCEPT ![m] = Code2Told(received)]
  BY <1>1, <1>2
<1>4. CASE received = code
  BY <1>3, <1>4
<1>5. CASE received = 0
  BY <1>3, <1>5, ToldIs
<1> QED
  BY <1>2, <1>4, <1>5

LEMMA RefusalTells ==
  ASSUME DeliveryTypeOK, NEW m \in Message, MessageInv(m), step[m] # "done",
         NEW code \in Code \ {0, 200}, NEW line, Ends(m, code, line),
         UNCHANGED <<to, handed>>, handed[m] = NoStream
  PROVE  MessengerStep(m) \/ UNCHANGED <<to, Given, Told>>
<1>1. Told[m] = "nothing" /\ Given[m] = NoUser
  BY ToldIs DEF Told, Given, MessageInv
<1>2. Given' = Given
  BY DEF Given
<1>3. CASE Told' = [Told EXCEPT ![m] = "nothing"]
  BY <1>1, <1>2, <1>3 DEF Told
<1>4. CASE Told' = [Told EXCEPT ![m] = "refused"]
  <2>1. CASE to[m] = NoUser
    BY <1>1, <1>2, <1>4, <2>1 DEF MessengerStep, M!TurnDown, Told, Given
  <2>2. CASE to[m] # NoUser
    BY <1>1, <1>2, <1>4, <2>2 DEF MessengerStep, M!Tell, Told, Given
  <2> QED
    BY <2>1, <2>2
<1> QED
  BY <1>3, <1>4, EndsTells, ToldIs

LEMMA RequestStepIsMessengers ==
  ASSUME DeliveryInv, NEW m \in Message, MessageInv(m), Delivered(m),
         SendMessage(m) \/ Relay(m)
  PROVE  MessengerStep(m) \/ UNCHANGED <<to, Given, Told>>
<1> USE DEF DeliveryInv
<1>1. ASSUME NEW u \in User, to[m] = NoUser, answer[m] = 0,
             to' = [to EXCEPT ![m] = u], UNCHANGED <<handed, answer>>
      PROVE  MessengerStep(m)
  <2>1. Told' = Told /\ Given' = Given /\ Told[m] = "nothing"
    BY <1>1, ToldIs DEF Told, Given
  <2> QED
    BY <1>1, <2>1 DEF MessengerStep, M!SendTo, Told, Given
<1>2. ASSUME UNCHANGED <<to, handed, answer>> PROVE UNCHANGED <<to, Given, Told>>
  BY <1>2 DEF Told, Given
<1>3. ASSUME NEW line, Ends(m, 0, line), UNCHANGED <<to, handed>>, step[m] # "done"
      PROVE  UNCHANGED <<to, Given, Told>>
  <2>1. answer' = answer
    BY <1>3 DEF Ends, Received, MessageInv, DeliveryTypeOK
  <2> QED
    BY <1>2, <1>3, <2>1
<1>4. ASSUME NEW line, Fails(m, line), step[m] \notin {"none", "respond", "done"}
      PROVE  MessengerStep(m) \/ UNCHANGED <<to, Given, Told>>
  <2>1. Failure \in Code \ {0, 200}
    BY FailureIs500 DEF Code
  <2> QED
    BY <1>4, <2>1, RefusalTells DEF Fails, MessageInv
<1>5. CASE \E s \in Server, u \in User, cr \in Credential : Post(m, s, u, cr)
  BY <1>1, <1>5 DEF Post, GoesTo, MessageInv
<1>6. ASSUME NEW routes, NEW cr, PostRefused(m, routes, cr)
      PROVE  MessengerStep(m) \/ UNCHANGED <<to, Given, Told>>
  <2> DEFINE code == AnswerBefore(routes, "/send-message", "POST", cr)
             refusal == IF code = 0 THEN DetermineHTTPError["none"] ELSE code
  <2>1. refusal \in Code \ {0, 200}
    BY AnswerType, FailureIs500 DEF Code
  <2>2. /\ Ends(m, refusal, Line(routes, cr, refusal))
        /\ step[m] = "none"
        /\ UNCHANGED <<to, handed>>
    BY <1>6 DEF PostRefused
  <2> HIDE DEF refusal
  <2> QED
    BY <2>1, <2>2, RefusalTells DEF MessageInv
<1>7. CASE \E cr \in Credential : GatewayPost(m, cr)
  BY <1>3, <1>7 DEF GatewayPost
<1>8. CASE Find(m) \/ Resolve(m) \/ ClientForServer(m)
  BY <1>2, <1>8 DEF Find, Resolve, ClientForServer, GoesTo
<1>9. CASE NotFound(m) \/ SendFails(m) \/ ForwardFails(m) \/ PostEvent(m)
  BY <1>4, <1>9 DEF NotFound, SendFails, ForwardFails, PostEvent
<1>10. CASE Send(m)
  <2>1. /\ target[m] \in Stream /\ UserOf[target[m]] = to[m]
        /\ handed' = [handed EXCEPT ![m] = target[m]]
        /\ handed[m] = NoStream /\ to[m] \in User /\ answer[m] = 0
        /\ UNCHANGED <<to, answer>>
    BY <1>10 DEF Send, GoesTo, MessageInv
  <2>2. Given' = [Given EXCEPT ![m] = to[m]] /\ Given[m] = NoUser
    BY <2>1, EventServerAssumption DEF Given, DeliveryTypeOK
  <2>3. Told' = Told /\ Told[m] = "nothing"
    BY <2>1, ToldIs DEF Told
  <2>4. M!Give(m)
    BY <2>1, <2>2, <2>3, DeliveryAssumption DEF M!Give, Given, Told
  <2> QED
    BY <2>4 DEF MessengerStep
<1>11. CASE Respond(m)
  <2>1. /\ Ends(m, 200, Line(EventServerRoutes, cred[m], 200))
        /\ handed[m] # NoStream /\ UserOf[handed[m]] = to[m] /\ to[m] \in User
        /\ answer[m] = 0 /\ UNCHANGED <<to, handed>>
    BY <1>11 DEF Respond, MessageInv, Delivered
  <2>2. Given' = Given /\ Given[m] = to[m] /\ Told[m] = "nothing"
    BY <2>1, ToldIs DEF Given, Told
  <2>3. CASE Told' = [Told EXCEPT ![m] = "nothing"]
    BY <2>1, <2>2, <2>3 DEF Told
  <2>4. CASE Told' = [Told EXCEPT ![m] = "accepted"]
    BY <2>1, <2>2, <2>4, DeliveryAssumption DEF MessengerStep, M!Tell, Told, Given
  <2> QED
    BY <2>1, <2>3, <2>4, EndsTells, ToldIs
<1>12. CASE DiesWithServer(m)
  BY <1>3, <1>12 DEF DiesWithServer
<1>13. CASE \E u \in User : Forward(m, u)
  BY <1>1, <1>13 DEF Forward, GoesTo, MessageInv
<1> QED
  BY <1>5, <1>6, <1>7, <1>8, <1>9, <1>10, <1>11, <1>12, <1>13 DEF SendMessage, Relay

\* The sender can rely on the answer: each step of a request is one of module
\* Messenger or changes nothing there.
THEOREM DeliveryImplementsMessenger == DeliverySafety => ImplementsMessenger
<1>1. DeliveryInit => M!MessengerInit
  BY ToldIs DEF DeliveryInit, M!MessengerInit
<1>2. DeliveryInv /\ [DeliveryNext]_deliveryVars => [M!MessengerNext]_(M!messengerVars)
  <2> SUFFICES ASSUME DeliveryInv, [DeliveryNext]_deliveryVars
               PROVE  [M!MessengerNext]_(M!messengerVars)
    OBVIOUS
  <2>1. ASSUME NEW m \in Message, SendMessage(m) \/ Relay(m)
        PROVE  MessengerStep(m) \/ UNCHANGED <<to, Given, Told>>
    BY <2>1, DeliveredIsThat, RequestStepIsMessengers DEF DeliveryInv
  <2>2. CASE UNCHANGED requestVars
    BY <2>2 DEF requestVars, M!messengerVars
  <2> QED
    BY <2>1, <2>2 DEF DeliveryNext, RequestStep, deliveryVars, MessengerStep, M!MessengerNext,
                     M!messengerVars, Given, Told
<1> QED
  BY <1>1, <1>2, DeliveryInvHolds, PTL DEF DeliverySafety, ImplementsMessenger, M!MessengerSpec
=============================================================================
