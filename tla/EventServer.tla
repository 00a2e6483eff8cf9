---------------------------- MODULE EventServer ----------------------------
(***************************************************************************)
(* The event servers' side of client connections:                          *)
(*   eventserver/services/event_server.go   connections, InitiateShutdown  *)
(*   pkg/eventserver/rtconn/heartbeat.go    one heart per connected user   *)
(*   eventserver/grpc/grpc_server.go        the Connect handler            *)
(*   eventserver/server.go:156-189          the order of a shutdown        *)
(* and the record "user u is connected to server s" the hearts keep in     *)
(* Redis for pkg/eventserver/rtconn/server_resolver.go.                    *)
(*                                                                         *)
(* An element of Stream is one Connect call of a client.  Its handler, its *)
(* privConn, the heart it launches (if any) and the goroutine that         *)
(* releases it at shutdown are all named by it.                            *)
(***************************************************************************)
EXTENDS Naturals, FiniteSets

CONSTANTS Stream, User, Server,
          UserOf,    \* the user a stream names in its ConnectRequest
          ServerOf,  \* the server it is opened to
          NoStream, NoServer

ASSUME EventServerAssumption == /\ UserOf \in [Stream -> User]
                                /\ ServerOf \in [Stream -> Server]
                                /\ NoStream \notin Stream
                                /\ NoServer \notin Server

VARIABLES
  srv,      \* how far each server is: see Phase
  handler,  \* where the Connect handler of each stream is
  conns,    \* connections of each server: the stream stored for each user
  waitCh,   \* streams whose waitCh is closed
  release,  \* the goroutine InitiateShutdown starts for a connection
  hearts,   \* hearts of each server: the stream that launched the user's heart
  beat,     \* the goroutine of the heart each stream launched; "late": it is
            \* over, and a Set it has sent may still be on its way to Redis
  stopCh,   \* hearts (by stream) whose stopCh is closed
  record,   \* user-connections in Redis
  open      \* streams whose client is still there

connVars == <<handler, conns, waitCh, release, open>>
heartVars == <<hearts, beat, stopCh, record>>
esVars == <<srv, connVars, heartVars>>

\* "initiating": InitiateShutdown holds mu; "initiated": it has returned and
\* LeaveCluster runs; "stopping": GracefulStop refuses new streams and waits
\* for the handlers; "stopped": services.Close is done and Start has returned.
Phase == {"serving", "initiating", "initiated", "stopping", "stopped", "dead"}

ESTypeOK ==
  /\ srv \in [Server -> Phase]
  /\ handler \in [Stream -> {"new", "refused", "accepted", "launch", "wait", "ok", "error"}]
  /\ conns \in [Server -> [User -> Stream \cup {NoStream}]]
  /\ waitCh \in SUBSET Stream
  /\ release \in [Stream -> {"none", "send", "close", "done"}]
  /\ hearts \in [Server -> [User -> Stream \cup {NoStream}]]
  /\ beat \in [Stream -> {"none", "set", "select", "late", "returned"}]
  /\ stopCh \in SUBSET Stream
  /\ record \in [User -> Server \cup {NoServer}]
  /\ open \in SUBSET Stream

ESInit ==
  /\ srv = [s \in Server |-> "serving"]
  /\ handler = [c \in Stream |-> "new"]
  /\ conns = [s \in Server |-> [u \in User |-> NoStream]]
  /\ waitCh = {}
  /\ release = [c \in Stream |-> "none"]
  /\ hearts = [s \in Server |-> [u \in User |-> NoStream]]
  /\ beat = [c \in Stream |-> "none"]
  /\ stopCh = {}
  /\ record = [u \in User |-> NoServer]
  /\ open = {}

StreamsOf(s) == {c \in Stream : ServerOf[c] = s}
Phase_(c) == srv[ServerOf[c]]
Alive(c) == Phase_(c) # "dead"
InMap(c) == conns[ServerOf[c]][UserOf[c]] = c
MyHeart(c) == hearts[ServerOf[c]][UserOf[c]]
-----------------------------------------------------------------------------
(* Connect and ServeConnection: grpc_server.go:59-65, event_server.go:56-75 *)

\* gRPC starts the handler; GracefulStop takes no new streams.
Accept(c) ==
  /\ handler[c] = "new"
  /\ Phase_(c) \in {"serving", "initiating", "initiated"}
  /\ handler' = [handler EXCEPT ![c] = "accepted"]
  /\ open' = open \cup {c}
  /\ UNCHANGED <<srv, conns, waitCh, release, heartVars>>

\* StreamAuthInterceptor: not exactly one "authorization" value, or one that
\* does not validate.  The handler is not called, Unauthenticated is returned.
RefuseStream(c) ==
  /\ handler[c] = "new"
  /\ Phase_(c) \in {"serving", "initiating", "initiated"}
  /\ handler' = [handler EXCEPT ![c] = "refused"]
  /\ UNCHANGED <<srv, conns, waitCh, release, open, heartVars>>

\* The connection is stored under mu, over the one the user may already have.
Register(c) ==
  /\ handler[c] = "accepted"
  /\ Phase_(c) \notin {"initiating", "dead"}
  /\ handler' = [handler EXCEPT ![c] = "launch"]
  /\ conns' = [conns EXCEPT ![ServerOf[c]][UserOf[c]] = c]
  /\ UNCHANGED <<srv, waitCh, release, open, heartVars>>

\* Seeded fault: a heart the user already has is not looked for.
FaultLaunchUnchecked(c) ==
  /\ handler[c] = "launch"
  /\ Alive(c)
  /\ hearts' = [hearts EXCEPT ![ServerOf[c]][UserOf[c]] = c]
  /\ beat' = [beat EXCEPT ![c] = "set"]
  /\ handler' = [handler EXCEPT ![c] = "wait"]
  /\ UNCHANGED <<srv, conns, waitCh, release, open, stopCh, record>>

\* LaunchForUser, heartbeat.go:57-77
LaunchForUser(c) ==
  /\ handler[c] = "launch"
  /\ Alive(c)
  /\ MyHeart(c) = NoStream
  /\ hearts' = [hearts EXCEPT ![ServerOf[c]][UserOf[c]] = c]
  /\ beat' = [beat EXCEPT ![c] = "set"]
  /\ handler' = [handler EXCEPT ![c] = "wait"]
  /\ UNCHANGED <<srv, conns, waitCh, release, open, stopCh, record>>

\* "user already has heartbeat": the handler ends, its connection stays stored.
LaunchRefused(c) ==
  /\ handler[c] = "launch"
  /\ Alive(c)
  /\ MyHeart(c) # NoStream
  /\ handler' = [handler EXCEPT ![c] = "error"]
  /\ UNCHANGED <<srv, conns, waitCh, release, open, heartVars>>

\* Seeded fault: the handler ends with its client and leaves its heart running.
FaultReturnsOnDisconnect(c) ==
  /\ handler[c] = "wait"
  /\ Alive(c)
  /\ c \in waitCh \/ c \notin open
  /\ handler' = [handler EXCEPT ![c] = "ok"]
  /\ UNCHANGED <<srv, conns, waitCh, release, open, heartVars>>

HandlerReturns(c) ==
  /\ handler[c] = "wait"
  /\ Alive(c)
  /\ c \in waitCh
  /\ handler' = [handler EXCEPT ![c] = "ok"]
  /\ UNCHANGED <<srv, conns, waitCh, release, open, heartVars>>

\* The client goes away: nothing on the server waits for that.
ClientGone(c) ==
  /\ c \in open
  /\ open' = open \ {c}
  /\ UNCHANGED <<srv, handler, conns, waitCh, release, heartVars>>
-----------------------------------------------------------------------------
(* The heart, heartbeat.go:79-96, and the record's TTL *)

HeartSet(c) ==
  /\ beat[c] = "set"
  /\ Phase_(c) \notin {"stopped", "dead"}
  /\ record' = [record EXCEPT ![UserOf[c]] = ServerOf[c]]
  /\ beat' = [beat EXCEPT ![c] = "select"]
  /\ UNCHANGED <<srv, connVars, hearts, stopCh>>

\* One failed Set ends the heart for good, whether or not it reaches Redis;
\* once the memstore client is closed none does.
HeartSetFails(c) ==
  /\ beat[c] = "set"
  /\ Alive(c)
  /\ beat' = [beat EXCEPT ![c] = IF Phase_(c) = "stopped" THEN "returned" ELSE "late"]
  /\ UNCHANGED <<srv, connVars, hearts, stopCh, record>>

\* It arrives after all: at any time, or never.
LateSetLands(c) ==
  /\ beat[c] = "late"
  /\ record' = [record EXCEPT ![UserOf[c]] = ServerOf[c]]
  /\ beat' = [beat EXCEPT ![c] = "returned"]
  /\ UNCHANGED <<srv, connVars, hearts, stopCh>>

HeartTick(c) ==
  /\ beat[c] = "select"
  /\ Alive(c)
  /\ beat' = [beat EXCEPT ![c] = "set"]
  /\ UNCHANGED <<srv, connVars, hearts, stopCh, record>>

HeartStops(c) ==
  /\ beat[c] = "select"
  /\ Alive(c)
  /\ c \in stopCh
  /\ beat' = [beat EXCEPT ![c] = "returned"]
  /\ UNCHANGED <<srv, connVars, hearts, stopCh, record>>

\* heartBeatTTL is twice the interval: the record outlives the wait of a heart
\* that keeps it, but not a Set that takes too long.
Kept(u) == \E c \in Stream : /\ UserOf[c] = u
                             /\ ServerOf[c] = record[u]
                             /\ beat[c] = "select"
                             /\ Phase_(c) \notin {"stopped", "dead"}

\* Seeded fault: the record is set without a TTL.
FaultNoTTL(u) == record[u] = NoServer /\ UNCHANGED esVars

RecordExpires(u) ==
  /\ record[u] # NoServer
  /\ ~Kept(u)
  /\ record' = [record EXCEPT ![u] = NoServer]
  /\ UNCHANGED <<srv, connVars, hearts, beat, stopCh>>
-----------------------------------------------------------------------------
(* Shutdown: event_server.go:90-118 and server.go:162-189 *)

\* mu is taken and one goroutine started for each stored connection.
InitiateShutdown(s) ==
  /\ srv[s] = "serving"
  /\ srv' = [srv EXCEPT ![s] = "initiating"]
  /\ release' = [c \in Stream |-> IF ServerOf[c] = s /\ InMap(c) THEN "send" ELSE release[c]]
  /\ UNCHANGED <<handler, conns, waitCh, open, heartVars>>

\* Seeded fault: errCh has no buffer, the send needs the collector.
FaultUnbufferedErrCh(c) ==
  /\ release[c] = "send"
  /\ Phase_(c) = "initiating"
  /\ release' = [release EXCEPT ![c] = "close"]
  /\ UNCHANGED <<srv, handler, conns, waitCh, open, heartVars>>

\* errCh is buffered for all of them: the send does not wait for the collector.
ReleaseSend(c) ==
  /\ release[c] = "send"
  /\ Alive(c)
  /\ release' = [release EXCEPT ![c] = "close"]
  /\ UNCHANGED <<srv, handler, conns, waitCh, open, heartVars>>

ReleaseClose(c) ==
  /\ release[c] = "close"
  /\ Alive(c)
  /\ release' = [release EXCEPT ![c] = "done"]
  /\ waitCh' = waitCh \cup {c}
  /\ UNCHANGED <<srv, handler, conns, open, heartVars>>

\* Everything is collected, or closeCtx is done first; mu is released.
ShutdownInitiated(s) ==
  /\ srv[s] = "initiating"
  /\ \A c \in StreamsOf(s) : release[c] # "send"
  /\ srv' = [srv EXCEPT ![s] = "initiated"]
  /\ UNCHANGED <<connVars, heartVars>>

ShutdownTimesOut(s) ==
  /\ srv[s] = "initiating"
  /\ srv' = [srv EXCEPT ![s] = "initiated"]
  /\ UNCHANGED <<connVars, heartVars>>

\* LeaveCluster has returned (closeCtx bounds it); GracefulStop begins.
GracefulStop(s) ==
  /\ srv[s] = "initiated"
  /\ srv' = [srv EXCEPT ![s] = "stopping"]
  /\ UNCHANGED <<connVars, heartVars>>

\* GracefulStop returns when every handler has; closing the heart beater stops
\* and forgets every heart of the server.
CloseServices(s) ==
  /\ srv[s] = "stopping"
  /\ \A c \in StreamsOf(s) : handler[c] \in {"new", "refused", "ok", "error"}
  /\ srv' = [srv EXCEPT ![s] = "stopped"]
  /\ stopCh' = stopCh \cup {c \in StreamsOf(s) : MyHeart(c) = c}
  /\ hearts' = [hearts EXCEPT ![s] = [u \in User |-> NoStream]]
  /\ UNCHANGED <<connVars, beat, record>>

\* The process exits or is killed, with whatever Set it had sent.
ServerDies(s) ==
  /\ srv[s] # "dead"
  /\ srv' = [srv EXCEPT ![s] = "dead"]
  /\ beat' = [c \in Stream |-> IF ServerOf[c] = s /\ beat[c] = "set" /\ srv[s] # "stopped"
                                THEN "late" ELSE beat[c]]
  /\ UNCHANGED <<connVars, hearts, stopCh, record>>
-----------------------------------------------------------------------------
StreamStep(c) == \/ Accept(c)
                 \/ RefuseStream(c)
                 \/ Register(c)
                 \/ LaunchForUser(c)
                 \/ LaunchRefused(c)
                 \/ HandlerReturns(c)
                 \/ ClientGone(c)
                 \/ ReleaseSend(c)
                 \/ ReleaseClose(c)

HeartStep(c) == \/ HeartSet(c)
                \/ HeartSetFails(c)
                \/ LateSetLands(c)
                \/ HeartTick(c)
                \/ HeartStops(c)

ServerStep(s) == \/ InitiateShutdown(s)
                 \/ ShutdownInitiated(s)
                 \/ ShutdownTimesOut(s)
                 \/ GracefulStop(s)
                 \/ CloseServices(s)
                 \/ ServerDies(s)

ESNext == \/ \E c \in Stream : StreamStep(c) \/ HeartStep(c)
          \/ \E s \in Server : ServerStep(s)
          \/ \E u \in User : RecordExpires(u)

ESSafety == ESInit /\ [][ESNext]_esVars

\* Goroutines that can run do; a Set returns; an unkept record expires; the
\* shutdown of a server that has begun goes on.  The select of a heart does
\* not prefer the ticker for ever.  Clients, failures, the start of a shutdown
\* and the end of a process are not forced.
ESFairness ==
  /\ \A c \in Stream : /\ WF_esVars(Register(c))
                       /\ WF_esVars(LaunchForUser(c) \/ LaunchRefused(c))
                       /\ WF_esVars(HandlerReturns(c))
                       /\ WF_esVars(ReleaseSend(c))
                       /\ WF_esVars(ReleaseClose(c))
                       /\ WF_esVars(HeartSet(c) \/ HeartSetFails(c))
                       /\ WF_esVars(HeartTick(c))
                       /\ SF_esVars(HeartStops(c))
  /\ \A s \in Server : /\ WF_esVars(ShutdownInitiated(s) \/ ShutdownTimesOut(s))
                       /\ WF_esVars(GracefulStop(s))
                       /\ WF_esVars(CloseServices(s))
  /\ \A u \in User : WF_esVars(RecordExpires(u))

ESSpec == ESSafety /\ ESFairness
-----------------------------------------------------------------------------
Beating(c) == beat[c] \in {"set", "select"}
Serves(c) == handler[c] = "wait" /\ c \in open /\ Phase_(c) = "serving"
Gone(s) == srv[s] \in {"stopped", "dead"}

\* Whatever streams a user opens, a server never runs two hearts for the user,
\* and a heart that runs can be stopped: it is the one stored for its user, or
\* has been told to stop already.  (Close and StopForUser reach hearts only
\* through that map, and nothing but stopCh ends a heart.)
NoLeakedHeart ==
  \A c \in Stream : Beating(c) => \/ MyHeart(c) = c
                                  \/ c \in stopCh /\ Gone(ServerOf[c])

\* A heart tells the truth about its server: as long as one runs there is a
\* handler of that user that has not returned, up to the shutdown.
HeartHasHandler ==
  \A c \in Stream : Beating(c) /\ Phase_(c) = "serving" => handler[c] = "wait"

\* InitiateShutdown does its work even when closeCtx is over before it: every
\* handler it found stored comes back, although errCh and mu are given up.
StoredHandlersReleased ==
  \A c \in Stream : release[c] # "none" ~> handler[c] \in {"ok", "error"} \/ ~Alive(c)

\* A server that is gone, gracefully or not, is not resolved for any user for
\* longer than the TTL, and no straggling Set brings it back.
GoneServerForgotten ==
  \A s \in Server, u \in User : Gone(s) ~> [](record[u] # s)

\* server.go:53 "blocks until close request is received", together with :113
\* and the graceful stop it starts: a shutdown that has begun ends.
ShutdownEnds == \A s \in Server : srv[s] = "initiating" ~> Gone(s)

\* README.md:13: the gateway "resolves the event server where the recipient is
\* connected to": a user served by one server only is resolved to it.
ServedIsResolved ==
  \A c \in Stream :
    <>[](Serves(c) /\ \A d \in Stream : UserOf[d] = UserOf[c] /\ d \in open => d = c)
      => []<>(record[UserOf[c]] = ServerOf[c])
=============================================================================
