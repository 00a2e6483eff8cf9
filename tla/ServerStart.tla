---------------------------- MODULE ServerStart ----------------------------
(***************************************************************************)
(* One run of the event-server process under WaitForInterrupt:             *)
(*   eventserver/server.go:55-190   Start                                  *)
(*   eventserver/services.go        StartServices                          *)
(*   pkg/net/net.go                 the listeners and what is advertised   *)
(*   pkg/http/server.go             Start: a closed server is no error     *)
(*                                                                         *)
(* Four goroutines can end Start by a message on closeCh: the HTTP and the *)
(* gRPC server, the watch on the lease and the watch on the close request. *)
(* The last two give up when they receive a message from closeCh           *)
(* themselves, the channel Start receives its one message from.            *)
(***************************************************************************)
EXTENDS Launch, Naturals, Sequences

VARIABLES
  main,      \* where Start is
  services,  \* the clients of etcd and Redis and the hearts: see Services
  bound,     \* servers whose ListenAddr has a listener
  pc,        \* the goroutines that send to closeCh
  msg,       \* what each of them sends
  closeCh,   \* the buffer of the channel
  lost,      \* leaseLostCh is closed
  stopped,   \* servers whose GracefulStop or Shutdown has returned
  orphan,    \* a stream nothing will release is open: see module EventServer
  result     \* closeErr, later what Start returns

world == <<lost, orphan>>
chanVars == <<pc, msg, closeCh>>
startVars == <<main, services, bound, chanVars, world, stopped, result, launchVars>>

Servers == {"http", "grpc"}
Watches == {"lost", "close"}
Actors == Servers \cup Watches
Msg == Servers \cup {"lost", "nil"}

\* closeCh = make(chan error, 10), server.go:115; seeded fault: one too small.
FaultCloseChSize == 3
CloseChSize == 10

\* "dropped": StartServices has failed with a client open it does not return.
Services == {"none", "open", "dropped", "closed", "closed twice"}

StartTypeOK ==
  /\ main \in {"off", "new", "etcd", "memstore", "listen", "join", "failed", "wait",
               "initiate", "leave", "stop", "returned"}
  /\ services \in Services
  /\ bound \in SUBSET Servers
  /\ pc \in [Actors -> {"off", "run", "send", "done"}]
  /\ msg \in [Actors -> Msg]
  /\ closeCh \in Seq(Msg)
  /\ lost \in BOOLEAN
  /\ stopped \in SUBSET Servers
  /\ orphan \in BOOLEAN
  /\ result \in Msg \cup {"none", "init"}
  /\ LaunchTypeOK

StartInit ==
  /\ main = "off"
  /\ services = "none"
  /\ bound = {}
  /\ pc = [a \in Actors |-> "off"]
  /\ msg = [a \in Actors |-> "nil"]
  /\ closeCh = <<>>
  /\ lost = FALSE
  /\ stopped = {}
  /\ orphan = FALSE
  /\ result = "none"
  /\ LaunchInit
-----------------------------------------------------------------------------
(* Start up to the servers' launch, lines 56-135 *)

\* cmd/eventserver/main.go comes to Start.
EventServerMain ==
  /\ LoggerBuilt
  /\ config \in EventServerConfiguration
  /\ main' = "new"
  /\ UNCHANGED <<services, bound, chanVars, world, stopped, result>>

\* Validate, and a dial that does not wait
DialEtcd ==
  /\ Running
  /\ main = "new"
  /\ config.serverID = "given"
  /\ main' = "etcd"
  /\ UNCHANGED <<services, bound, chanVars, world, stopped, result, launchVars>>

\* Redis is pinged, for a second.
DialMemstore ==
  /\ Running
  /\ main = "etcd"
  /\ main' = "memstore"
  /\ UNCHANGED <<services, bound, chanVars, world, stopped, result, launchVars>>

\* Both auth middlewares are built; what is left cannot fail.
BuildServices ==
  /\ Running
  /\ main = "memstore"
  /\ config.auth # "other"
  /\ main' = "listen"
  /\ services' = "open"
  /\ UNCHANGED <<bound, chanVars, world, stopped, result, launchVars>>

\* Validate, a dial or the reading of a key fails; the closers collected so far
\* are a local variable and Start has no services to close.
BuildServicesFails ==
  /\ Running
  /\ main \in {"new", "etcd", "memstore"}
  /\ main' = "returned"
  /\ result' = "init"
  /\ services' = IF main = "new" THEN "none" ELSE "dropped"
  /\ UNCHANGED <<bound, chanVars, world, stopped, launchVars>>

\* ListenAddr.Listener, for the HTTP and then for the gRPC address
Listen(a) ==
  /\ Running
  /\ main = "listen"
  /\ a \notin bound
  /\ a = "grpc" => "http" \in bound
  /\ bound' = bound \cup {a}
  /\ UNCHANGED <<main, services, chanVars, world, stopped, result, launchVars>>

\* A listener, the HTTP routes or the gRPC server cannot be set up.
ListenFails ==
  /\ Running
  /\ main = "listen"
  /\ main' = "failed"
  /\ UNCHANGED <<services, bound, chanVars, world, stopped, result, launchVars>>

LaunchServers ==
  /\ Running
  /\ main = "listen"
  /\ bound = Servers
  /\ main' = "join"
  /\ pc' = [pc EXCEPT !["http"] = "run", !["grpc"] = "run"]
  /\ UNCHANGED <<services, bound, msg, closeCh, world, stopped, result, launchVars>>

\* JoinCluster returns its channel; both watches are launched.
JoinSucceeds ==
  /\ Running
  /\ main = "join"
  /\ main' = "wait"
  /\ pc' = [pc EXCEPT !["lost"] = "run", !["close"] = "run"]
  /\ UNCHANGED <<services, bound, msg, closeCh, world, stopped, result, launchVars>>

JoinFails ==
  /\ Running
  /\ main = "join"
  /\ main' = "failed"
  /\ UNCHANGED <<services, bound, chanVars, world, stopped, result, launchVars>>

\* Closing once more what is closed already.
Closed == IF services = "open" THEN "closed" ELSE "closed twice"

\* The deferred calls: the listeners and, as serverStarted is not set, the
\* services are closed under the servers that are running.
FailedReturns ==
  /\ Running
  /\ main = "failed"
  /\ main' = "returned"
  /\ result' = "init"
  /\ services' = Closed
  /\ UNCHANGED <<bound, chanVars, world, stopped, launchVars>>
-----------------------------------------------------------------------------
(* The goroutines, lines 116-152 *)

\* Seeded fault: the error Serve returns is taken for the end of the server.
FaultServeErrorDropped(a) ==
  /\ Running
  /\ pc[a] = "run"
  /\ pc' = [pc EXCEPT ![a] = "send"]
  /\ UNCHANGED <<main, services, bound, msg, closeCh, world, stopped, result, launchVars>>

\* Serve returns an error, which is sent with the server's name around it.
ServeFails(a) ==
  /\ Running
  /\ pc[a] = "run"
  /\ pc' = [pc EXCEPT ![a] = "send"]
  /\ msg' = [msg EXCEPT ![a] = a]
  /\ UNCHANGED <<main, services, bound, closeCh, world, stopped, result, launchVars>>

\* Serve returns because the server is told to stop: HTTP at once, gRPC when
\* GracefulStop is through.  Both send nil.
ServeEnds(a) ==
  /\ Running
  /\ pc[a] = "run"
  /\ main = "stop" \/ a \in stopped
  /\ a = "grpc" => a \in stopped
  /\ pc' = [pc EXCEPT ![a] = "send"]
  /\ UNCHANGED <<main, services, bound, msg, closeCh, world, stopped, result, launchVars>>

\* leaseLostCh closes: the lease is lost, or LeaveCluster gave it up.
LeaseLost ==
  /\ Running
  /\ pc["lost"] # "off"
  /\ ~lost
  /\ lost' = TRUE
  /\ UNCHANGED <<main, services, bound, chanVars, stopped, orphan, result, launchVars>>

LostNoticed ==
  /\ Running
  /\ pc["lost"] = "run"
  /\ lost
  /\ pc' = [pc EXCEPT !["lost"] = "send"]
  /\ msg' = [msg EXCEPT !["lost"] = "lost"]
  /\ UNCHANGED <<main, services, bound, closeCh, world, stopped, result, launchVars>>

\* Seeded fault: the watch passes its own name on.
FaultNamesItself ==
  /\ Running
  /\ pc["close"] = "run"
  /\ requested
  /\ pc' = [pc EXCEPT !["close"] = "send"]
  /\ msg' = [msg EXCEPT !["close"] = "close"]
  /\ UNCHANGED <<main, services, bound, closeCh, world, stopped, result, launchVars>>

CloseNoticed ==
  /\ Running
  /\ pc["close"] = "run"
  /\ requested
  /\ pc' = [pc EXCEPT !["close"] = "send"]
  /\ UNCHANGED <<main, services, bound, msg, closeCh, world, stopped, result, launchVars>>

\* closeCh <- ...
Send(a) ==
  /\ Running
  /\ pc[a] = "send"
  /\ Len(closeCh) < CloseChSize
  /\ closeCh' = Append(closeCh, msg[a])
  /\ pc' = [pc EXCEPT ![a] = "done"]
  /\ UNCHANGED <<main, services, bound, msg, world, stopped, result, launchVars>>

\* case <-closeCh in a watch: the message is gone.
WatchReceives(a) ==
  /\ Running
  /\ pc[a] = "run"
  /\ closeCh # <<>>
  /\ closeCh' = Tail(closeCh)
  /\ pc' = [pc EXCEPT ![a] = "done"]
  /\ UNCHANGED <<main, services, bound, msg, world, stopped, result, launchVars>>
-----------------------------------------------------------------------------
(* The shutdown, lines 156-189 *)

\* closeErr := <-closeCh
Receive ==
  /\ Running
  /\ main = "wait"
  /\ closeCh # <<>>
  /\ result' = Head(closeCh)
  /\ closeCh' = Tail(closeCh)
  /\ main' = "initiate"
  /\ UNCHANGED <<services, bound, pc, msg, world, stopped, launchVars>>

\* InitiateShutdown and LeaveCluster return, at the latest with closeCtx.
InitiateReturns ==
  /\ Running
  /\ main = "initiate"
  /\ main' = "leave"
  /\ UNCHANGED <<services, bound, chanVars, world, stopped, result, launchVars>>

LeaveReturns ==
  /\ Running
  /\ main = "leave"
  /\ main' = "stop"
  /\ UNCHANGED <<services, bound, chanVars, world, stopped, result, launchVars>>

\* A stream InitiateShutdown does not find is opened before GracefulStop, or a
\* newer stream of its user has taken its place in connections.
StreamOrphaned ==
  /\ Running
  /\ pc["grpc"] = "run"
  /\ main \in {"join", "wait", "initiate", "leave"}
  /\ ~orphan
  /\ orphan' = TRUE
  /\ UNCHANGED <<main, services, bound, chanVars, lost, stopped, result, launchVars>>

\* Shutdown of the HTTP server is bounded by closeCtx, GracefulStop by nothing.
StopReturns(a) ==
  /\ Running
  /\ main = "stop"
  /\ a \notin stopped
  /\ a = "grpc" => ~orphan
  /\ stopped' = stopped \cup {a}
  /\ UNCHANGED <<main, services, bound, chanVars, world, result, launchVars>>

\* Seeded fault: serverStarted is never set.
FaultDeferredCloseToo ==
  /\ Running
  /\ main = "stop"
  /\ stopped = Servers
  /\ main' = "returned"
  /\ services' = "closed twice"
  /\ UNCHANGED <<bound, chanVars, world, stopped, result, launchVars>>

\* g.Wait is over: services.Close, return closeErr
StartReturns ==
  /\ Running
  /\ main = "stop"
  /\ stopped = Servers
  /\ main' = "returned"
  /\ services' = Closed
  /\ UNCHANGED <<bound, chanVars, world, stopped, result, launchVars>>
-----------------------------------------------------------------------------
BuildStep == DialEtcd \/ DialMemstore \/ BuildServices \/ BuildServicesFails

ListenStep == (\E a \in Servers : Listen(a)) \/ ListenFails \/ LaunchServers

MainStep == \/ BuildStep
            \/ ListenStep
            \/ JoinSucceeds
            \/ JoinFails
            \/ FailedReturns
            \/ Receive
            \/ InitiateReturns
            \/ LeaveReturns
            \/ \E a \in Servers : StopReturns(a)
            \/ StartReturns

GoroutineStep == \/ \E a \in Servers : ServeFails(a) \/ ServeEnds(a)
                 \/ LostNoticed
                 \/ CloseNoticed
                 \/ \E a \in Watches : WatchReceives(a)
                 \/ \E a \in Actors : Send(a)

LaunchStep == /\ \/ Load(EventServerConfiguration)
                 \/ LoadFails
                 \/ Interrupt
                 \/ LaunchReturns(main = "returned")
                 \/ LaunchTimesOut
              /\ UNCHANGED <<main, services, bound, chanVars, world, stopped, result>>

StartNext == EventServerMain \/ MainStep \/ GoroutineStep \/ LaunchStep \/ LeaseLost \/ StreamOrphaned

StartSafety == StartInit /\ [][StartNext]_startVars

\* Go schedules what can run, dials and binds return, and the timer expires;
\* JoinCluster, which has no
\* deadline, need not return, and nobody need interrupt.
StartFairness == /\ WF_startVars(\/ BuildStep \/ ListenStep \/ FailedReturns
                                 \/ Receive \/ InitiateReturns \/ LeaveReturns
                                 \/ (\E a \in Servers : StopReturns(a)) \/ StartReturns)
                 /\ WF_startVars(LostNoticed)
                 /\ WF_startVars(CloseNoticed)
                 /\ \A a \in Actors : WF_startVars(Send(a))
                 /\ WF_launchVars(LaunchReturns(main = "returned"))
                 /\ WF_launchVars(LaunchTimesOut)

StartSpec == StartSafety /\ StartFairness
-----------------------------------------------------------------------------
\* server.go:113-115, "so no one would get blocked": whoever sends, and however
\* late, finds room, although nobody receives once Start has its message.
NoSenderBlocked == \A a \in Actors : pc[a] = "send" => Len(closeCh) < CloseChSize

\* Start returns nil only when it was asked to close: the nil messages of the
\* servers' ends never stand for a failure, whoever takes which message.
NilMeansRequested == main = "returned" /\ result = "nil" => requested

\* On every path on which StartServices returned them the services are closed
\* before Start returns, and never twice (closing the etcd or the Redis client
\* again is an error).
ServicesClosedOnce == /\ services # "closed twice"
                      /\ main = "returned" => services # "open"

\* The process exits when it is interrupted, although a watch can take the
\* message meant for Start, JoinCluster can hang and GracefulStop can wait for
\* ever; and when a start fails, because of a configuration the program does
\* not accept or half way: that closes what Start has left open, and takes the
\* servers that are running already with it.
Rejected == /\ main = "new"
            /\ launch = "wait"
            /\ config.serverID = "empty" \/ config.auth = "other"

ProcessExits == requested \/ result = "init" \/ Rejected ~> launch = "exited"

\* server.go:53, Start "blocks until close request is received": as long as it
\* blocks, a close request, made or to come, has a way to reach it.
CloseRequestIsHeard ==
  main = "wait" => pc["close"] \in {"run", "send"} \/ closeCh # <<>>
=============================================================================
