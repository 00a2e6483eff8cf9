------------------------------ MODULE Delivery ------------------------------
(***************************************************************************)
(* The way of a message to its recipient, next to all that happens to the  *)
(* connections of the event servers:                                       *)
(*   eventserver/http/routes.go           POST /send-message               *)
(*   eventserver/services/event_server.go SendEvent                        *)
(*   eventserver/grpc/grpc_server.go      the connection's Send            *)
(*   gateway/http/routes.go               the gateway's /send-message      *)
(*   gateway/services/event_relay.go      Forward, with the resolver, the  *)
(*   pkg/eventserver/client/client.go     registry and the server's client *)
(*                                                                         *)
(* A message has one sender, who makes one request.                      *)
(***************************************************************************)
EXTENDS EventServer, HTTPLayer

CONSTANTS Message, NoUser

ASSUME DeliveryAssumption == NoUser \notin User

VARIABLES
  step,     \* where the request is: see Step
  to,       \* the recipient
  server,   \* the event server that is asked
  cred,     \* the Authorization header
  target,   \* the stream whose connection SendEvent found
  handed,   \* the stream that has taken the event
  answer,   \* the status code the sender received
  logged,   \* the status code in the line of the request logger
  replaced  \* streams whose connection was overwritten before the request

requestVars == <<step, to, server, cred, target, handed, answer, logged, replaced>>
deliveryVars == <<esVars, requestVars>>

\* "find", "send", "respond": the handler of an event server; "resolve",
\* "client", "post": Forward.
Step == {"none", "find", "send", "respond", "resolve", "client", "post", "done"}
Code == {0, 200, 400, 401, 404, 405, 500}

DeliveryTypeOK ==
  /\ ESTypeOK
  /\ step \in [Message -> Step]
  /\ to \in [Message -> User \cup {NoUser}]
  /\ server \in [Message -> Server \cup {NoServer}]
  /\ cred \in [Message -> Credential]
  /\ target \in [Message -> Stream \cup {NoStream}]
  /\ handed \in [Message -> Stream \cup {NoStream}]
  /\ answer \in [Message -> Code]
  /\ logged \in [Message -> Code]
  /\ replaced \in [Message -> SUBSET Stream]

DeliveryInit ==
  /\ ESInit
  /\ step = [m \in Message |-> "none"]
  /\ to = [m \in Message |-> NoUser]
  /\ server = [m \in Message |-> NoServer]
  /\ cred = [m \in Message |-> "invalid"]
  /\ target = [m \in Message |-> NoStream]
  /\ handed = [m \in Message |-> NoStream]
  /\ answer = [m \in Message |-> 0]
  /\ logged = [m \in Message |-> 0]
  /\ replaced = [m \in Message |-> {}]

Active(m) == step[m] \notin {"none", "done"}

\* The sender has the code, unless it has given up by then, or WriteTimeout,
\* 15 seconds, is over.
Received(code) == {code, 0}

\* The request has its end.  No handler looks at the request's context.
Ends(m, code, line) ==
  /\ step' = [step EXCEPT ![m] = "done"]
  /\ \E received \in Received(code) : answer' = [answer EXCEPT ![m] = received]
  /\ logged' = [logged EXCEPT ![m] = line]

GoesTo(m, next) == step' = [step EXCEPT ![m] = next] /\ UNCHANGED <<answer, logged>>
-----------------------------------------------------------------------------
(* The event server's /send-message *)

HTTPOpen(s) == srv[s] \in {"serving", "initiating", "initiated"}

Replaced(u) == {c \in Stream : /\ UserOf[c] = u
                               /\ handler[c] \in {"launch", "wait", "ok", "error"}
                               /\ ~InMap(c)}

\* The line of the request logger for a response with this code.
Line(routes, cr, code) == IF Logs(routes["/send-message"], cr) THEN code ELSE 0

\* Mux and middlewares let the request pass.
Post(m, s, u, cr) ==
  /\ step[m] = "none"
  /\ HTTPOpen(s)
  /\ AnswerBefore(EventServerRoutes, "/send-message", "POST", cr) = 0
  /\ to' = [to EXCEPT ![m] = u]
  /\ server' = [server EXCEPT ![m] = s]
  /\ cred' = [cred EXCEPT ![m] = cr]
  /\ replaced' = [replaced EXCEPT ![m] = Replaced(u)]
  /\ GoesTo(m, "find")
  /\ UNCHANGED <<esVars, target, handed>>

\* They answer it themselves, or its body is not JSON: an error of no type.
PostRefused(m, routes, cr) ==
  LET code == AnswerBefore(routes, "/send-message", "POST", cr)
      refusal == IF code = 0 THEN DetermineHTTPError["none"] ELSE code
  IN  /\ step[m] = "none"
      /\ Ends(m, refusal, Line(routes, cr, refusal))
      /\ UNCHANGED <<esVars, to, server, cred, target, handed, replaced>>

\* Seeded fault: the map keeps the first connection of a user.
FaultFindsFirst(m) ==
  /\ step[m] = "find"
  /\ srv[server[m]] \notin {"initiating", "dead"}
  /\ \E c \in StreamsOf(server[m]) :
       /\ UserOf[c] = to[m]
       /\ handler[c] \in {"launch", "wait", "ok", "error"}
       /\ target' = [target EXCEPT ![m] = c]
  /\ GoesTo(m, "send")
  /\ UNCHANGED <<esVars, to, server, cred, handed, replaced>>

\* Seeded fault: InitiateShutdown returns at closeCtx with mu locked.
FaultMuKept(m) ==
  /\ step[m] = "find"
  /\ srv[server[m]] = "serving"
  /\ conns[server[m]][to[m]] # NoStream
  /\ target' = [target EXCEPT ![m] = conns[server[m]][to[m]]]
  /\ GoesTo(m, "send")
  /\ UNCHANGED <<esVars, to, server, cred, handed, replaced>>

\* SendEvent reads connections under RLock, which InitiateShutdown keeps out.
Find(m) ==
  /\ step[m] = "find"
  /\ srv[server[m]] \notin {"initiating", "dead"}
  /\ conns[server[m]][to[m]] # NoStream
  /\ target' = [target EXCEPT ![m] = conns[server[m]][to[m]]]
  /\ GoesTo(m, "send")
  /\ UNCHANGED <<esVars, to, server, cred, handed, replaced>>

Failure == DetermineHTTPError["none"]

\* An error without a type ends the request; what it knew is gone with it.
Fails(m, line) ==
  /\ Ends(m, Failure, line)
  /\ server' = [server EXCEPT ![m] = NoServer]
  /\ target' = [target EXCEPT ![m] = NoStream]
  /\ replaced' = [replaced EXCEPT ![m] = {}]
  /\ UNCHANGED <<esVars, to, cred, handed>>

\* "user is not connected"
NotFound(m) ==
  /\ step[m] = "find"
  /\ srv[server[m]] \notin {"initiating", "dead"}
  /\ conns[server[m]][to[m]] = NoStream
  /\ Fails(m, Line(EventServerRoutes, cred[m], Failure))

\* The stream takes the event.  What has become of the connection since it was
\* found does not matter, nor that the client has gone if nothing noticed it.
Send(m) ==
  /\ step[m] = "send"
  /\ srv[server[m]] # "dead"
  /\ handler[target[m]] \in {"launch", "wait"}
  /\ handed' = [handed EXCEPT ![m] = target[m]]
  /\ target' = [target EXCEPT ![m] = NoStream]
  /\ GoesTo(m, "respond")
  /\ UNCHANGED <<esVars, to, server, cred, replaced>>

\* Seeded fault: the error of Send is dropped.
FaultSendFails(m) ==
  /\ step[m] = "send"
  /\ srv[server[m]] # "dead"
  /\ handler[target[m]] \in {"ok", "error"} \/ target[m] \notin open
  /\ GoesTo(m, "respond")
  /\ UNCHANGED <<esVars, to, server, cred, target, handed, replaced>>

\* The stream is over: its handler has returned, or its client has gone.
SendFails(m) ==
  /\ step[m] = "send"
  /\ srv[server[m]] # "dead"
  /\ handler[target[m]] \in {"ok", "error"} \/ target[m] \notin open
  /\ Fails(m, Line(EventServerRoutes, cred[m], Failure))

Respond(m) ==
  /\ step[m] = "respond"
  /\ srv[server[m]] # "dead"
  /\ Ends(m, 200, Line(EventServerRoutes, cred[m], 200))
  /\ UNCHANGED <<esVars, to, server, cred, target, handed, replaced>>

\* The process of the server ends with the handler in it.
DiesWithServer(m) ==
  /\ step[m] \in {"find", "send", "respond"}
  /\ srv[server[m]] = "dead"
  /\ Ends(m, 0, 0)
  /\ UNCHANGED <<esVars, to, server, cred, target, handed, replaced>>
-----------------------------------------------------------------------------
(* The gateway's /send-message and the relay *)

\* gateway/server.go:51-58 gives the routes no relay: a request that comes as
\* far as the call panics, net/http closes its connection, no line is written.
GatewayPost(m, cr) ==
  /\ step[m] = "none"
  /\ AnswerBefore(GatewayRoutes, "/send-message", "POST", cr) = 0
  /\ Ends(m, 0, 0)
  /\ UNCHANGED <<esVars, to, server, cred, target, handed, replaced>>

\* Forward, called on the relay that StartServices has built.
Forward(m, u) ==
  /\ step[m] = "none"
  /\ to' = [to EXCEPT ![m] = u]
  /\ GoesTo(m, "resolve")
  /\ UNCHANGED <<esVars, server, cred, target, handed, replaced>>

\* Seeded fault: the record that is read is the one of any user.
FaultResolve(m) ==
  /\ step[m] = "resolve"
  /\ \E u \in User : /\ record[u] # NoServer
                     /\ server' = [server EXCEPT ![m] = record[u]]
  /\ GoesTo(m, "client")
  /\ UNCHANGED <<esVars, to, cred, target, handed, replaced>>

Resolve(m) ==
  /\ step[m] = "resolve"
  /\ record[to[m]] # NoServer
  /\ server' = [server EXCEPT ![m] = record[to[m]]]
  /\ GoesTo(m, "client")
  /\ UNCHANGED <<esVars, to, cred, target, handed, replaced>>

\* The registry has the server's address, at this moment (see ServerRegistry).
ClientForServer(m) ==
  /\ step[m] = "client"
  /\ GoesTo(m, "post")
  /\ UNCHANGED <<esVars, to, server, cred, target, handed, replaced>>

\* Each error ends Forward: nil from Redis, a server that is not in the
\* registry, no connection to it.
ForwardFails(m) ==
  /\ step[m] \in {"resolve", "client", "post"}
  /\ Fails(m, 0)

\* The status code of the response to the client's Post, which has no token; 0
\* if a handler is called that answers.
PostStatus(path) == AnswerBefore(EventServerRoutes, path, "POST", "invalid")

\* The client of the event server takes any status but 200 for an error.
PostEvent(m) ==
  /\ step[m] = "post"
  /\ HTTPOpen(server[m])
  /\ PostStatus("/send-event") \notin {0, 200}
  /\ Fails(m, 0)
-----------------------------------------------------------------------------
SendMessage(m) == \/ \E s \in Server, u \in User, cr \in Credential : Post(m, s, u, cr)
                  \/ \E cr \in Credential :
                        \/ PostRefused(m, EventServerRoutes, cr)
                        \/ PostRefused(m, GatewayRoutes, cr)
                        \/ GatewayPost(m, cr)
                  \/ Find(m)
                  \/ NotFound(m)
                  \/ Send(m)
                  \/ SendFails(m)
                  \/ Respond(m)
                  \/ DiesWithServer(m)

Relay(m) == \/ \E u \in User : Forward(m, u)
            \/ Resolve(m)
            \/ ClientForServer(m)
            \/ ForwardFails(m)
            \/ PostEvent(m)

RequestStep == \E m \in Message : SendMessage(m) \/ Relay(m)

DeliveryNext == RequestStep \/ (ESNext /\ UNCHANGED requestVars)

DeliverySafety == DeliveryInit /\ [][DeliveryNext]_deliveryVars

\* Next to the goroutines of the event servers, the handlers go on where they
\* do not wait for mu or for a client that is there and does not read.
DeliverySpec ==
  /\ DeliverySafety
  /\ ESFairness
  /\ \A m \in Message :
       /\ WF_deliveryVars(Find(m) \/ NotFound(m))
       /\ WF_deliveryVars(SendFails(m) \/ Respond(m) \/ DiesWithServer(m))
       /\ WF_deliveryVars(Resolve(m) \/ ClientForServer(m) \/ ForwardFails(m) \/ PostEvent(m))
-----------------------------------------------------------------------------
\* SendEvent uses a connection after it has released mu (event_server.go:82-87):
\* whatever happens in between, the event is given to a stream the recipient
\* has opened to the server that was asked, and not to one that had been
\* replaced before the request.
HandedWasCurrent ==
  \A m \in Message : handed[m] # NoStream =>
    /\ UserOf[handed[m]] = to[m]
    /\ ServerOf[handed[m]] = server[m]
    /\ handed[m] \notin replaced[m]

\* An event that is handed over came with a token that was checked, and the
\* log has the request with the code its sender was answered with.  (A request
\* that is refused for its token is in no log: the check is put around the
\* logger.)
HandedIsAudited ==
  \A m \in Message : handed[m] # NoStream =>
    /\ AuthType = "noop" \/ cred[m] = "valid"
    /\ answer[m] # 0 => logged[m] = answer[m]

\* Forward reads the record, the registry and then calls the server: however
\* stale they are, it asks no server that has not run a heart of the recipient.
AskedServedRecipient ==
  \A m \in Message : step[m] \in {"client", "post"} =>
    \E c \in Stream : /\ UserOf[c] = to[m]
                      /\ ServerOf[c] = server[m]
                      /\ beat[c] # "none"

\* The sender can rely on the answer: see module Messenger.
Code2Told(code) == CASE code = 0 -> "nothing"
                     [] code = 200 -> "accepted"
                     [] OTHER -> "refused"

M == INSTANCE Messenger WITH
  given <- [m \in Message |-> IF handed[m] = NoStream THEN NoUser ELSE UserOf[handed[m]]],
  told <- [m \in Message |-> Code2Told(answer[m])]

ImplementsMessenger == M!MessengerSpec

\* A handler of /send-message ends, whatever happens to the stream, to mu or
\* to the server: unless it sends, for ever, to a client that does not read.
Stalled(m) == /\ step[m] = "send"
              /\ target[m] \in open
              /\ handler[target[m]] \in {"launch", "wait"}

RequestsEnd ==
  \A m \in Message : <>[]~Stalled(m) => (Active(m) ~> step[m] = "done")
=============================================================================
