---------------------------- MODULE StartProofs ----------------------------
(***************************************************************************)
(* Theorems about the two server programs, for any number of requests in   *)
(* flight: what Start keeps true from its first dial to its return, on     *)
(* every path, whenever it is interrupted.                                 *)
(***************************************************************************)
EXTENDS Programs, SequenceTheorems, FiniteSetTheorems, TLAPS

-----------------------------------------------------------------------------
(* The launch, which both programs share *)

LaunchChanges == \/ Load(EventServerConfiguration) \/ Load(GatewayConfiguration)
                 \/ LoggerBuilt
                 \/ LoadFails
                 \/ Interrupt
                 \/ LaunchReturns(TRUE)
                 \/ LaunchTimesOut
                 \/ UNCHANGED launchVars

\* A close request is never taken back, and main never comes back to Load.
LEMMA LaunchStepType ==
  ASSUME LaunchTypeOK, LaunchChanges
  PROVE  /\ LaunchTypeOK'
         /\ requested => requested'
         /\ launch' \in {"load", "logger"} => launch \in {"load", "logger"}
BY DEF LaunchChanges, LaunchTypeOK, launchVars, Load, LoggerBuilt, LoadFails, Interrupt,
       LaunchReturns, LaunchTimesOut

LEMMA StartLaunches ==
  ASSUME StartNext
  PROVE  LaunchChanges
<1> USE DEF LaunchChanges
<1>1. CASE EventServerMain
  BY <1>1 DEF EventServerMain
<1>2. CASE MainStep
  BY <1>2 DEF MainStep, BuildStep, ListenStep, DialEtcd, DialMemstore, BuildServices,
              BuildServicesFails, Listen, ListenFails, LaunchServers, JoinSucceeds, JoinFails,
              FailedReturns, Receive, InitiateReturns, LeaveReturns, StopReturns, StartReturns
<1>3. CASE GoroutineStep
  BY <1>3 DEF GoroutineStep, ServeFails, ServeEnds, LostNoticed, CloseNoticed, WatchReceives, Send
<1>4. CASE LaunchStep
  BY <1>4 DEF LaunchStep, LaunchReturns
<1>5. CASE LeaseLost \/ StreamOrphaned
  BY <1>5 DEF LeaseLost, StreamOrphaned
<1> QED
  BY <1>1, <1>2, <1>3, <1>4, <1>5 DEF StartNext

LEMMA GatewayLaunches ==
  ASSUME GatewayNext
  PROVE  LaunchChanges
<1> USE DEF LaunchChanges
<1>1. CASE GatewayMain
  BY <1>1 DEF GatewayMain
<1>2. CASE GatewayMainStep
  BY <1>2 DEF GatewayMainStep, BuildPart, BuildFails, StartersBegin, StartPart, StartPartFails,
              ServicesReady, BindFails, Serve, CloseRequested, ShutdownReturns,
              ServeErrorReceived, ClosingStep, CloseNext, GatewayReturns
<1>3. CASE HTTPStep
  BY <1>3 DEF HTTPStep, HTTPServeFails, RequestBegins, RequestEnds
<1>4. CASE GatewayLaunchStep
  BY <1>4 DEF GatewayLaunchStep, LaunchReturns
<1> QED
  BY <1>1, <1>2, <1>3, <1>4 DEF GatewayNext
-----------------------------------------------------------------------------
(* The event server: types *)

LEMMA MainStepType ==
  ASSUME StartTypeOK, LaunchTypeOK', MainStep
  PROVE  StartTypeOK'
<1> USE DEF StartTypeOK, Services
<1>1. CASE BuildStep
  BY <1>1 DEF BuildStep, DialEtcd, DialMemstore, BuildServices, BuildServicesFails, chanVars, world
<1>2. CASE ListenStep
  BY <1>2 DEF ListenStep, Listen, ListenFails, LaunchServers, chanVars, world
<1>3. CASE JoinSucceeds \/ JoinFails \/ FailedReturns
  BY <1>3 DEF JoinSucceeds, JoinFails, FailedReturns, Closed, chanVars, world
<1>4. CASE Receive
  <2>1. Head(closeCh) \in Msg /\ Tail(closeCh) \in Seq(Msg)
    BY <1>4, HeadTailProperties DEF Receive
  <2> QED
    BY <1>4, <2>1 DEF Receive, world
<1>5. CASE InitiateReturns \/ LeaveReturns \/ StartReturns \/ \E a \in Servers : StopReturns(a)
  BY <1>5 DEF InitiateReturns, LeaveReturns, StartReturns, StopReturns, Closed, chanVars, world
<1> QED
  BY <1>1, <1>2, <1>3, <1>4, <1>5 DEF MainStep

LEMMA GoroutineStepType ==
  ASSUME StartTypeOK, LaunchTypeOK', GoroutineStep
  PROVE  StartTypeOK'
<1> USE DEF StartTypeOK
<1>1. CASE \E a \in Servers : ServeFails(a) \/ ServeEnds(a)
  BY <1>1 DEF ServeFails, ServeEnds, world, Msg, Actors
<1>2. CASE LostNoticed \/ CloseNoticed
  BY <1>2 DEF LostNoticed, CloseNoticed, world, Msg, Actors, Watches
<1>3. CASE \E a \in Watches : WatchReceives(a)
  <2>1. PICK a \in Actors : WatchReceives(a)
    BY <1>3 DEF Actors
  <2>2. closeCh' \in Seq(Msg)
    BY <2>1, HeadTailProperties DEF WatchReceives
  <2> QED
    BY <2>1, <2>2 DEF WatchReceives, world
<1>4. CASE \E a \in Actors : Send(a)
  <2>1. PICK a \in Actors : Send(a)
    BY <1>4
  <2>2. closeCh' \in Seq(Msg)
    BY <2>1, AppendProperties DEF Send
  <2> QED
    BY <2>1, <2>2 DEF Send, world
<1> QED
  BY <1>1, <1>2, <1>3, <1>4 DEF GoroutineStep

LEMMA StartStepType ==
  ASSUME StartTypeOK, StartNext
  PROVE  StartTypeOK'
<1>1. LaunchTypeOK'
  BY StartLaunches, LaunchStepType DEF StartTypeOK
<1>2. CASE EventServerMain
  BY <1>1, <1>2 DEF EventServerMain, StartTypeOK, chanVars, world
<1>3. CASE LaunchStep
  BY <1>1, <1>3 DEF LaunchStep, StartTypeOK, chanVars, world
<1>4. CASE LeaseLost \/ StreamOrphaned
  BY <1>1, <1>4 DEF LeaseLost, StreamOrphaned, StartTypeOK, chanVars
<1> QED
  BY <1>1, <1>2, <1>3, <1>4, MainStepType, GoroutineStepType DEF StartNext
-----------------------------------------------------------------------------
(* The event server: the invariant *)

\* Nothing of Start happens before main comes to it.
BeforeStart == launch \in {"load", "logger"} => main = "off"

\* The servers run once they are launched, the watches once the cluster is joined.
GoroutinesInv ==
  /\ main \in {"off", "new", "etcd", "memstore", "listen"} => \A a \in Servers : pc[a] = "off"
  /\ main \in {"off", "new", "etcd", "memstore", "listen", "join"} => \A a \in Watches : pc[a] = "off"

\* Every message in the buffer is one of a goroutine that is done.
Done(a) == IF pc[a] = "done" THEN 1 ELSE 0
DoneCount == Done("http") + Done("grpc") + Done("lost") + Done("close")
RoomInv == Len(closeCh) <= DoneCount

\* A nil that is sent, on its way or received stands for a close request, or
\* comes from a server Start has told to stop.
NoNilSent == /\ \A a \in Actors : pc[a] = "send" => msg[a] # "nil"
             /\ \A i \in 1 .. Len(closeCh) : closeCh[i] # "nil"

NilInv ==
  /\ requested \/ main \in {"stop", "returned"} \/ NoNilSent
  /\ stopped # {} => main \in {"stop", "returned"}
  /\ result = "nil" => requested

\* Where the services are at each place of Start.
ServicesInv ==
  /\ main \in {"off", "new", "etcd", "memstore"} => services = "none"
  /\ main \in {"listen", "join", "failed", "wait", "initiate", "leave", "stop"} => services = "open"
  /\ main = "returned" => services \in {"none", "dropped", "closed"}

ServerInv == StartTypeOK /\ BeforeStart /\ GoroutinesInv /\ RoomInv /\ NilInv /\ ServicesInv

\* The steps that change what the goroutines and closeCh hold.
LEMMA StepOnChannel ==
  ASSUME StartNext
  PROVE  LaunchServers \/ JoinSucceeds \/ Receive \/ GoroutineStep \/ UNCHANGED chanVars
<1>1. CASE MainStep
  BY <1>1 DEF MainStep, BuildStep, ListenStep, DialEtcd, DialMemstore, BuildServices,
              BuildServicesFails, Listen, ListenFails, JoinFails, FailedReturns,
              InitiateReturns, LeaveReturns, StopReturns, StartReturns
<1> QED
  BY <1>1 DEF StartNext, EventServerMain, LaunchStep, LeaseLost, StreamOrphaned

\* Where main can go from each place: it never comes back to one.
LEMMA StepOnMain ==
  ASSUME StartTypeOK, BeforeStart, StartNext
  PROVE  \/ main' = main
         \/ main = "off" /\ main' = "new"
         \/ main = "new" /\ main' = "etcd"
         \/ main = "etcd" /\ main' = "memstore"
         \/ main = "memstore" /\ main' = "listen"
         \/ main \in {"listen", "join"} /\ main' = "failed"
         \/ main \in {"new", "etcd", "memstore", "failed", "stop"} /\ main' = "returned"
         \/ LaunchServers \/ JoinSucceeds \/ Receive
         \/ main = "initiate" /\ main' = "leave"
         \/ main = "leave" /\ main' = "stop"
<1>1. CASE MainStep
  BY <1>1 DEF MainStep, BuildStep, ListenStep, DialEtcd, DialMemstore, BuildServices,
              BuildServicesFails, Listen, ListenFails, JoinFails, FailedReturns,
              InitiateReturns, LeaveReturns, StopReturns, StartReturns
<1>2. CASE GoroutineStep
  BY <1>2 DEF GoroutineStep, ServeFails, ServeEnds, LostNoticed, CloseNoticed, WatchReceives, Send
<1> QED
  BY <1>1, <1>2 DEF StartNext, EventServerMain, LoggerBuilt, BeforeStart, LaunchStep, LeaseLost,
                    StreamOrphaned

LEMMA BeforeStartStep ==
  ASSUME StartTypeOK, BeforeStart, StartNext
  PROVE  BeforeStart'
<1> SUFFICES ASSUME launch' \in {"load", "logger"}
             PROVE  main' = "off"
  BY DEF BeforeStart
<1>1. launch \in {"load", "logger"} /\ main = "off"
  BY StartLaunches, LaunchStepType DEF StartTypeOK, BeforeStart
<1>2. ~Running
  BY <1>1 DEF Running
<1>3. CASE EventServerMain
  BY <1>3 DEF EventServerMain, LoggerBuilt
<1>4. CASE MainStep
  BY <1>2, <1>4
     DEF MainStep, BuildStep, ListenStep, DialEtcd, DialMemstore, BuildServices,
         BuildServicesFails, Listen, ListenFails, LaunchServers, JoinSucceeds, JoinFails,
         FailedReturns, Receive, InitiateReturns, LeaveReturns, StopReturns, StartReturns
<1>5. CASE GoroutineStep
  BY <1>2, <1>5
     DEF GoroutineStep, ServeFails, ServeEnds, LostNoticed, CloseNoticed, WatchReceives, Send
<1> QED
  BY <1>1, <1>3, <1>4, <1>5 DEF StartNext, LaunchStep, LeaseLost, StreamOrphaned

LEMMA GoroutinesStep ==
  ASSUME ServerInv, StartNext
  PROVE  GoroutinesInv'
<1> USE DEF ServerInv, GoroutinesInv
<1>0. pc \in [Actors -> {"off", "run", "send", "done"}] /\ Servers \subseteq Actors
      /\ Watches \subseteq Actors /\ Servers \cap Watches = {}
  BY DEF StartTypeOK, Actors, Servers, Watches
<1>1. CASE LaunchServers
  <2>1. main' = "join" /\ \A a \in Watches : pc'[a] = pc[a] /\ pc[a] = "off"
    BY <1>0, <1>1 DEF LaunchServers, Servers, Watches
  <2> QED
    BY <2>1
<1>2. CASE JoinSucceeds
  BY <1>2 DEF JoinSucceeds
<1>3. CASE GoroutineStep
  <2>1. main' = main
    BY <1>3 DEF GoroutineStep, ServeFails, ServeEnds, LostNoticed, CloseNoticed, WatchReceives, Send
  <2>2. \A a \in Actors : pc[a] = "off" => pc'[a] = "off"
    BY <1>0, <1>3
       DEF GoroutineStep, ServeFails, ServeEnds, LostNoticed, CloseNoticed, WatchReceives, Send
  <2> QED
    BY <1>0, <2>1, <2>2
<1>4. CASE Receive
  BY <1>4 DEF Receive
<1>5. CASE UNCHANGED chanVars /\ ~LaunchServers /\ ~JoinSucceeds /\ ~Receive
  BY <1>0, <1>5, StepOnMain DEF chanVars
<1> QED
  BY <1>1, <1>2, <1>3, <1>4, <1>5, StepOnChannel

\* How DoneCount follows what one goroutine does.
LEMMA CountStep ==
  ASSUME pc \in [Actors -> {"off", "run", "send", "done"}], NEW a \in Actors, pc[a] # "done"
  PROVE  /\ pc' = [pc EXCEPT ![a] = "send"] => DoneCount' = DoneCount
         /\ pc' = [pc EXCEPT ![a] = "done"] => DoneCount' = DoneCount + 1
  BY DEF DoneCount, Done, Actors, Servers, Watches

LEMMA RoomStep ==
  ASSUME ServerInv, StartNext
  PROVE  RoomInv'
<1> USE DEF ServerInv, RoomInv
<1>0. /\ pc \in [Actors -> {"off", "run", "send", "done"}]
      /\ closeCh \in Seq(Msg) /\ Len(closeCh) \in Nat
      /\ msg \in [Actors -> Msg]
      /\ DoneCount \in 0 .. 4
  BY DEF StartTypeOK, DoneCount, Done
<1>1. CASE LaunchServers
  <2>1. pc["http"] = "off" /\ pc["grpc"] = "off" /\ closeCh' = closeCh
    BY <1>1 DEF LaunchServers, GoroutinesInv, Servers
  <2>2. DoneCount' = DoneCount
    BY <1>0, <1>1, <2>1 DEF LaunchServers, DoneCount, Done, Actors, Servers, Watches
  <2> QED
    BY <2>1, <2>2
<1>2. CASE JoinSucceeds
  <2>1. pc["lost"] = "off" /\ pc["close"] = "off" /\ closeCh' = closeCh
    BY <1>2 DEF JoinSucceeds, GoroutinesInv, Watches
  <2>2. DoneCount' = DoneCount
    BY <1>0, <1>2, <2>1 DEF JoinSucceeds, DoneCount, Done, Actors, Servers, Watches
  <2> QED
    BY <2>1, <2>2
<1>3. CASE Receive
  <2>1. DoneCount' = DoneCount /\ Len(closeCh') = Len(closeCh) - 1
    BY <1>0, <1>3, HeadTailProperties DEF Receive, DoneCount, Done
  <2> QED
    BY <1>0, <2>1
<1>4. CASE GoroutineStep
  <2>1. ASSUME NEW a \in Actors, pc[a] = "run", pc' = [pc EXCEPT ![a] = "send"], closeCh' = closeCh
        PROVE  RoomInv'
    <3>1. DoneCount' = DoneCount
      BY <1>0, <2>1, CountStep
    <3> QED
      BY <2>1, <3>1
  <2>2. ASSUME NEW a \in Actors, WatchReceives(a)
        PROVE  RoomInv'
    <3>1. DoneCount' = DoneCount + 1
      BY <1>0, <2>2, CountStep DEF WatchReceives
    <3>2. Len(closeCh') = Len(closeCh) - 1
      BY <1>0, <2>2, HeadTailProperties DEF WatchReceives
    <3> QED
      BY <1>0, <3>1, <3>2
  <2>3. ASSUME NEW a \in Actors, Send(a)
        PROVE  RoomInv'
    <3>1. DoneCount' = DoneCount + 1
      BY <1>0, <2>3, CountStep DEF Send
    <3>2. Len(closeCh') = Len(closeCh) + 1
      BY <1>0, <2>3, AppendProperties DEF Send
    <3> QED
      BY <1>0, <3>1, <3>2
  <2>4. "lost" \in Actors /\ "close" \in Actors /\ Servers \subseteq Actors /\ Watches \subseteq Actors
    BY DEF Actors, Servers, Watches
  <2> QED
    BY <1>4, <2>1, <2>2, <2>3, <2>4 DEF GoroutineStep, ServeFails, ServeEnds, LostNoticed, CloseNoticed
<1>5. CASE UNCHANGED chanVars
  BY <1>5 DEF chanVars, DoneCount, Done
<1> QED
  BY <1>1, <1>2, <1>3, <1>4, <1>5, StepOnChannel

\* Neither the watch on the request nor a server sends nil on its own.
LEMMA NoNilStep ==
  ASSUME ServerInv, StartNext, NoNilSent, ~requested, main \notin {"stop", "returned"}
  PROVE  NoNilSent'
<1> USE DEF NoNilSent
<1>0. /\ pc \in [Actors -> {"off", "run", "send", "done"}]
      /\ msg \in [Actors -> Msg]
      /\ closeCh \in Seq(Msg)
  BY DEF ServerInv, StartTypeOK
<1>1. CASE LaunchServers
  BY <1>0, <1>1 DEF LaunchServers
<1>2. CASE JoinSucceeds
  BY <1>0, <1>2 DEF JoinSucceeds
<1>3. ASSUME closeCh # <<>>, closeCh' = Tail(closeCh), msg' = msg,
             \A a \in Actors : pc'[a] = "send" => pc[a] = "send"
      PROVE  NoNilSent'
  <2>1. Len(Tail(closeCh)) = Len(closeCh) - 1 /\ Len(closeCh) \in Nat
        /\ \A i \in 1 .. Len(Tail(closeCh)) : Tail(closeCh)[i] = closeCh[i + 1]
    BY <1>0, <1>3, HeadTailProperties
  <2>2. \A i \in 1 .. Len(closeCh') : closeCh'[i] = closeCh[i + 1] /\ i + 1 \in 1 .. Len(closeCh)
    BY <1>3, <2>1
  <2> QED
    BY <1>3, <2>2
<1>4. CASE Receive
  BY <1>3, <1>4 DEF Receive
<1>5. CASE GoroutineStep
  <2>1. ASSUME NEW a \in Actors, NEW m, m # "nil", closeCh' = closeCh,
               pc' = [pc EXCEPT ![a] = "send"], msg' = [msg EXCEPT ![a] = m]
        PROVE  NoNilSent'
    BY <1>0, <2>1
  <2>2. ASSUME NEW a \in Servers
        PROVE  ~ServeEnds(a) /\ (ServeFails(a) => NoNilSent')
    BY <2>1 DEF ServeEnds, ServeFails, ServerInv, NilInv, Actors, Servers
  <2>3. LostNoticed => NoNilSent'
    BY <2>1 DEF LostNoticed, Actors, Watches
  <2>4. ~CloseNoticed
    BY DEF CloseNoticed
  <2>5. ASSUME NEW a \in Watches, WatchReceives(a)
        PROVE  NoNilSent'
    BY <1>0, <1>3, <2>5 DEF WatchReceives
  <2>6. ASSUME NEW a \in Actors, Send(a)
        PROVE  NoNilSent'
    <3>1. /\ closeCh' = Append(closeCh, msg[a]) /\ msg[a] # "nil" /\ msg' = msg
          /\ pc' = [pc EXCEPT ![a] = "done"]
      BY <2>6 DEF Send
    <3>2. /\ Len(closeCh') = Len(closeCh) + 1 /\ Len(closeCh) \in Nat
          /\ \A i \in 1 .. Len(closeCh) : closeCh'[i] = closeCh[i]
          /\ closeCh'[Len(closeCh) + 1] = msg[a]
      BY <1>0, <3>1, AppendProperties
    <3>3. \A i \in 1 .. Len(closeCh') : i \in 1 .. Len(closeCh) \/ i = Len(closeCh) + 1
      BY <3>2
    <3> QED
      BY <1>0, <3>1, <3>2, <3>3
  <2> QED
    BY <1>5, <2>2, <2>3, <2>4, <2>5, <2>6 DEF GoroutineStep
<1>6. CASE UNCHANGED chanVars
  BY <1>6 DEF chanVars
<1> QED
  BY <1>1, <1>2, <1>4, <1>5, <1>6, StepOnChannel

\* What Start returns is set once, to the first message or to an error of its own.
LEMMA StepOnResult ==
  ASSUME StartNext
  PROVE  /\ Receive \/ result' = result \/ result' = "init"
         /\ stopped' = stopped \/ (main = "stop" /\ main' = "stop")
<1>1. CASE MainStep
  BY <1>1 DEF MainStep, BuildStep, ListenStep, DialEtcd, DialMemstore, BuildServices,
              BuildServicesFails, Listen, ListenFails, LaunchServers, JoinSucceeds, JoinFails,
              FailedReturns, Receive, InitiateReturns, LeaveReturns, StopReturns, StartReturns
<1>2. CASE GoroutineStep
  BY <1>2 DEF GoroutineStep, ServeFails, ServeEnds, LostNoticed, CloseNoticed, WatchReceives, Send
<1> QED
  BY <1>1, <1>2 DEF StartNext, EventServerMain, LaunchStep, LeaseLost, StreamOrphaned

LEMMA NilStep ==
  ASSUME ServerInv, StartNext
  PROVE  NilInv'
<1> USE DEF ServerInv, NilInv
<1>1. requested => requested'
  BY StartLaunches, LaunchStepType DEF StartTypeOK
<1>2. main \in {"stop", "returned"} => main' \in {"stop", "returned"}
  BY StepOnMain DEF LaunchServers, JoinSucceeds, Receive
<1>3. requested' \/ main' \in {"stop", "returned"} \/ NoNilSent'
  BY <1>1, <1>2, NoNilStep
<1>4. stopped' # {} => main' \in {"stop", "returned"}
  BY <1>2, StepOnResult
<1>5. result' = "nil" => requested'
  <2>1. CASE Receive
    <3>1. main = "wait" /\ Len(closeCh) \in Nat \ {0} /\ result' = closeCh[1]
      BY <2>1, EmptySeq, HeadTailProperties DEF Receive, StartTypeOK
    <3>2. 1 \in 1 .. Len(closeCh)
      BY <3>1
    <3>3. requested \/ closeCh[1] # "nil"
      BY <3>1, <3>2 DEF NoNilSent
    <3> QED
      BY <1>1, <3>1, <3>3
  <2> QED
    BY <1>1, <2>1, StepOnResult
<1> QED
  BY <1>3, <1>4, <1>5

LEMMA ServicesStep ==
  ASSUME ServerInv, StartNext
  PROVE  ServicesInv'
<1> USE DEF ServicesInv
<1>0. StartTypeOK /\ BeforeStart /\ ServicesInv
  BY DEF ServerInv
<1>1. CASE BuildStep
  BY <1>0, <1>1 DEF BuildStep, DialEtcd, DialMemstore, BuildServices, BuildServicesFails
<1>2. CASE FailedReturns \/ StartReturns
  BY <1>0, <1>2 DEF FailedReturns, StartReturns, Closed
<1>3. CASE EventServerMain
  BY <1>0, <1>3 DEF EventServerMain, LoggerBuilt, BeforeStart
<1>4. CASE services' = services /\ ~BuildStep /\ ~FailedReturns /\ ~StartReturns /\ ~EventServerMain
  <2>1. CASE MainStep
    BY <1>0, <1>4, <2>1
       DEF MainStep, ListenStep, Listen, ListenFails, LaunchServers, JoinSucceeds, JoinFails, Receive,
           InitiateReturns, LeaveReturns, StopReturns
  <2>2. CASE GoroutineStep
    BY <1>0, <1>4, <2>2
       DEF GoroutineStep, ServeFails, ServeEnds, LostNoticed, CloseNoticed, WatchReceives, Send
  <2>3. CASE LaunchStep \/ LeaseLost \/ StreamOrphaned
    BY <1>0, <1>4, <2>3 DEF LaunchStep, LeaseLost, StreamOrphaned
  <2> QED
    BY <1>4, <2>1, <2>2, <2>3 DEF StartNext
<1>5. services' = services \/ BuildStep \/ FailedReturns \/ StartReturns
  <2>1. CASE MainStep
    BY <2>1
       DEF MainStep, ListenStep, Listen, ListenFails, LaunchServers, JoinSucceeds, JoinFails, Receive,
           InitiateReturns, LeaveReturns, StopReturns
  <2>2. CASE GoroutineStep
    BY <2>2 DEF GoroutineStep, ServeFails, ServeEnds, LostNoticed, CloseNoticed, WatchReceives, Send
  <2> QED
    BY <2>1, <2>2 DEF StartNext, EventServerMain, LaunchStep, LeaseLost, StreamOrphaned
<1> QED
  BY <1>1, <1>2, <1>3, <1>4, <1>5

LEMMA ServerStepInv ==
  ASSUME ServerInv, StartNext
  PROVE  ServerInv'
<1>1. StartTypeOK' /\ BeforeStart'
  BY StartStepType, BeforeStartStep DEF ServerInv
<1> QED
  BY <1>1, GoroutinesStep, RoomStep, NilStep, ServicesStep DEF ServerInv
-----------------------------------------------------------------------------
(* The gateway: the invariant *)

\* Nothing of Start happens before main comes to it.
BeforeServices == launch \in {"load", "logger"} => stage = "off"

\* The parts in the order of Build, and what of them is to be closed.
BuiltInv ==
  built \in {{}, {"memStore"}, {"memStore", "usersDB"}, {"memStore", "usersDB", "etcdClient"},
             {"memStore", "usersDB", "etcdClient", "registry"}, Part}

Pending(r) == \E i \in 1 .. Len(closers) : closers[i] = r

ClosersInv ==
  /\ \A i, j \in 1 .. Len(closers) : closers[i] = closers[j] => i = j
  /\ \A r \in Part : Pending(r) => r \in built /\ closes[r] = 0
  /\ \A r \in Part : closes[r] \in {0, 1} /\ (closes[r] = 1 => r \in built)
  /\ \A r \in built \cap ToClose : Pending(r) \/ closes[r] = 1
  /\ stage = "returned" => closers = <<>>

\* The handlers end while Shutdown waits; the closers run after that.
HandlersInv ==
  /\ http = "shut" => stage \in {"shutdown", "close", "returned"}
  /\ http = "shut" /\ stage # "shutdown" => handlers = {}
  /\ stage \notin {"abort", "close", "returned"} => \A r \in Part : closes[r] = 0

GatewayInv == GatewayTypeOK /\ BeforeServices /\ BuiltInv /\ ClosersInv /\ HandlersInv

LEMMA PartIs == Part = {"memStore", "usersDB", "etcdClient", "registry", "pool"}
<1>1. DOMAIN Build = 1 .. 5
  BY DEF Build
<1>2. 1 .. 5 = {1, 2, 3, 4, 5}
  OBVIOUS
<1> QED
  BY <1>1, <1>2 DEF Part, Build

LEMMA OneMore ==
  ASSUME NEW B, NEW n \in Nat, IsFiniteSet(B) /\ Cardinality(B) = n, NEW r, r \notin B
  PROVE  IsFiniteSet(B \cup {r}) /\ Cardinality(B \cup {r}) = n + 1
  BY FS_AddElement

\* The loop of StartServices builds the parts in the order of Build.
LEMMA NextPartIs ==
  ASSUME BuiltInv
  PROVE  /\ Cardinality(built) \in 0 .. 5
         /\ Cardinality(built) >= 3 => {"memStore", "usersDB", "etcdClient"} \subseteq built
         /\ built # Part => /\ NextPart \in Part \ built
                            /\ (built \cup {NextPart}) \in
                                 {{"memStore"}, {"memStore", "usersDB"},
                                  {"memStore", "usersDB", "etcdClient"},
                                  {"memStore", "usersDB", "etcdClient", "registry"}, Part}
<1> DEFINE b0 == {}
           b1 == {"memStore"}
           b2 == {"memStore", "usersDB"}
           b3 == {"memStore", "usersDB", "etcdClient"}
           b4 == {"memStore", "usersDB", "etcdClient", "registry"}
<1>1. /\ b1 = b0 \cup {"memStore"} /\ b2 = b1 \cup {"usersDB"} /\ b3 = b2 \cup {"etcdClient"}
      /\ b4 = b3 \cup {"registry"} /\ Part = b4 \cup {"pool"}
  BY PartIs
<1>2. /\ "memStore" \notin b0 /\ "usersDB" \notin b1 /\ "etcdClient" \notin b2
      /\ "registry" \notin b3 /\ "pool" \notin b4
  OBVIOUS
<1>3. IsFiniteSet(b0) /\ Cardinality(b0) = 0
  BY FS_EmptySet
<1> HIDE DEF b0, b1, b2, b3, b4
<1>4. IsFiniteSet(b1) /\ Cardinality(b1) = 1
  <2>1. IsFiniteSet(b0 \cup {"memStore"}) /\ Cardinality(b0 \cup {"memStore"}) = 0 + 1
    BY <1>2, <1>3, OneMore
  <2> QED
    BY <1>1, <2>1
<1>5. IsFiniteSet(b2) /\ Cardinality(b2) = 2
  <2>1. IsFiniteSet(b1 \cup {"usersDB"}) /\ Cardinality(b1 \cup {"usersDB"}) = 1 + 1
    BY <1>2, <1>4, OneMore
  <2> QED
    BY <1>1, <2>1
<1>6. IsFiniteSet(b3) /\ Cardinality(b3) = 3
  <2>1. IsFiniteSet(b2 \cup {"etcdClient"}) /\ Cardinality(b2 \cup {"etcdClient"}) = 2 + 1
    BY <1>2, <1>5, OneMore
  <2> QED
    BY <1>1, <2>1
<1>7. IsFiniteSet(b4) /\ Cardinality(b4) = 4
  <2>1. IsFiniteSet(b3 \cup {"registry"}) /\ Cardinality(b3 \cup {"registry"}) = 3 + 1
    BY <1>2, <1>6, OneMore
  <2> QED
    BY <1>1, <2>1
<1>8. IsFiniteSet(Part) /\ Cardinality(Part) = 5
  <2>1. IsFiniteSet(b4 \cup {"pool"}) /\ Cardinality(b4 \cup {"pool"}) = 4 + 1
    BY <1>2, <1>7, OneMore
  <2> QED
    BY <1>1, <2>1
<1>9. built \in {b0, b1, b2, b3, b4, Part}
  BY DEF BuiltInv, b0, b1, b2, b3, b4
<1>10. /\ Build[1] = "memStore" /\ Build[2] = "usersDB" /\ Build[3] = "etcdClient"
       /\ Build[4] = "registry" /\ Build[5] = "pool"
  BY DEF Build
<1>11. Cardinality(built) \in 0 .. 5
  BY <1>3, <1>4, <1>5, <1>6, <1>7, <1>8, <1>9
<1>12. Cardinality(built) >= 3 => b3 \subseteq built
  <2>1. built \in {b3, b4, Part} \/ Cardinality(built) \in {0, 1, 2}
    BY <1>3, <1>4, <1>5, <1>9
  <2>2. b3 \subseteq b4 /\ b4 \subseteq Part
    BY <1>1
  <2> QED
    BY <2>1, <2>2
<1>13. ASSUME built # Part
       PROVE  NextPart \in Part \ built /\ built \cup {NextPart} \in {b1, b2, b3, b4, Part}
  <2>1. CASE built = b0
    <3>1. NextPart = "memStore"
      BY <1>3, <1>10, <2>1 DEF NextPart
    <3> QED
      BY <1>1, <1>2, <2>1, <3>1
  <2>2. CASE built = b1
    <3>1. NextPart = "usersDB"
      BY <1>4, <1>10, <2>2 DEF NextPart
    <3> QED
      BY <1>1, <1>2, <2>2, <3>1
  <2>3. CASE built = b2
    <3>1. NextPart = "etcdClient"
      BY <1>5, <1>10, <2>3 DEF NextPart
    <3> QED
      BY <1>1, <1>2, <2>3, <3>1
  <2>4. CASE built = b3
    <3>1. NextPart = "registry"
      BY <1>6, <1>10, <2>4 DEF NextPart
    <3> QED
      BY <1>1, <1>2, <2>4, <3>1
  <2>5. CASE built = b4
    <3>1. NextPart = "pool"
      BY <1>7, <1>10, <2>5 DEF NextPart
    <3> QED
      BY <1>1, <1>2, <2>5, <3>1
  <2> QED
    BY <1>9, <1>13, <2>1, <2>2, <2>3, <2>4, <2>5
<1> QED
  BY <1>11, <1>12, <1>13 DEF b1, b2, b3, b4

\* Building a part and closing one are the steps that change servicesVars.
LEMMA StepOnServices ==
  ASSUME GatewayNext
  PROVE  \/ BuildPart
         \/ CloseNext
         \/ UNCHANGED <<built, closers, closes>>
<1>1. CASE GatewayMainStep
  BY <1>1 DEF GatewayMainStep, BuildFails, StartersBegin, StartPart, StartPartFails,
              ServicesReady, BindFails, Serve, CloseRequested, ShutdownReturns,
              ServeErrorReceived, ClosingStep, GatewayReturns, servicesVars
<1>2. CASE HTTPStep
  BY <1>2 DEF HTTPStep, HTTPServeFails, RequestBegins, RequestEnds, servicesVars
<1> QED
  BY <1>1, <1>2 DEF GatewayNext, GatewayMain, GatewayLaunchStep, servicesVars

\* Where stage can go from each place.
LEMMA StepOnStage ==
  ASSUME BeforeServices, GatewayNext
  PROVE  \/ stage' = stage /\ ~GatewayReturns
         \/ stage = "off" /\ stage' = "build" /\ GatewayMain
         \/ BuildFails \/ StartersBegin \/ StartPartFails \/ ServicesReady
         \/ BindFails \/ Serve \/ CloseRequested \/ ShutdownReturns \/ ServeErrorReceived
         \/ GatewayReturns
<1>1. CASE GatewayMainStep
  BY <1>1 DEF GatewayMainStep, BuildPart, StartPart, ClosingStep, CloseNext
<1>2. CASE HTTPStep
  BY <1>2 DEF HTTPStep, HTTPServeFails, RequestBegins, RequestEnds
<1> QED
  BY <1>1, <1>2 DEF GatewayNext, GatewayMain, LoggerBuilt, BeforeServices, GatewayLaunchStep

\* What happens to the HTTP server and its requests.
LEMMA StepOnHTTP ==
  ASSUME GatewayNext
  PROVE  Serve \/ CloseRequested \/ HTTPStep \/ UNCHANGED httpVars
<1>1. CASE GatewayMainStep
  BY <1>1 DEF GatewayMainStep, BuildPart, BuildFails, StartersBegin, StartPart, StartPartFails,
              ServicesReady, BindFails, ShutdownReturns, ServeErrorReceived, ClosingStep,
              CloseNext, GatewayReturns
<1> QED
  BY <1>1 DEF GatewayNext, GatewayMain, GatewayLaunchStep

\* The sequence of closers, whichever way it changes.
LEMMA CloseNextIs ==
  ASSUME closers \in Seq(ToClose), closes \in [Part -> 0 .. 2], CloseNext
  PROVE  /\ Len(closers) \in Nat \ {0} /\ closers[1] \in ToClose
         /\ closers' \in Seq(ToClose) /\ Len(closers') = Len(closers) - 1
         /\ \A i \in 1 .. Len(closers') : closers'[i] = closers[i + 1]
         /\ closes' = [closes EXCEPT ![closers[1]] = @ + 1]
  BY EmptySeq, HeadTailProperties DEF CloseNext

LEMMA BuildPartIs ==
  ASSUME closers \in Seq(ToClose), BuiltInv, BuildPart
  PROVE  /\ NextPart \in Part \ built /\ built' = built \cup {NextPart} /\ BuiltInv'
         /\ Len(closers) \in Nat
         /\ closers' \in Seq(ToClose)
         /\ \A i \in 1 .. Len(closers) : closers'[i] = closers[i]
         /\ IF NextPart \in ToClose
              THEN Len(closers') = Len(closers) + 1 /\ closers'[Len(closers) + 1] = NextPart
              ELSE closers' = closers
<1>1. NextPart \in Part \ built /\ built' = built \cup {NextPart} /\ BuiltInv'
  BY NextPartIs DEF BuildPart, BuiltInv
<1>2. CASE NextPart \in ToClose
  BY <1>1, <1>2, AppendProperties DEF BuildPart
<1>3. CASE NextPart \notin ToClose
  BY <1>1, <1>3 DEF BuildPart
<1> QED
  BY <1>2, <1>3

LEMMA GatewayStepType ==
  ASSUME GatewayInv, GatewayNext
  PROVE  GatewayTypeOK' /\ BuiltInv'
<1> USE DEF GatewayInv, GatewayTypeOK
<1>1. LaunchTypeOK'
  BY GatewayLaunches, LaunchStepType
<1>2. built' \in SUBSET Part /\ closers' \in Seq(ToClose) /\ BuiltInv'
  <2>1. CASE BuildPart
    BY <2>1, BuildPartIs
  <2>2. CASE CloseNext
    BY <2>2, CloseNextIs DEF CloseNext, BuiltInv
  <2>3. CASE UNCHANGED <<built, closers, closes>>
    BY <2>3 DEF BuiltInv
  <2> QED
    BY <2>1, <2>2, <2>3, StepOnServices
<1>3. closes' \in [Part -> 0 .. 2]
  <2>1. CASE CloseNext
    <3>1. closers[1] \in Part /\ closes[closers[1]] \in {0, 1}
      BY <2>1, CloseNextIs, PartIs DEF ClosersInv, ToClose
    <3> QED
      BY <2>1, <3>1, CloseNextIs
  <2>2. CASE closes' = closes
    BY <2>2
  <2> QED
    BY <2>1, <2>2, StepOnServices DEF BuildPart
<1>4. http' \in {"off", "serving", "failed", "shut"} /\ handlers' \in SUBSET Request
  BY StepOnHTTP DEF Serve, CloseRequested, HTTPStep, HTTPServeFails, RequestBegins, RequestEnds, httpVars
<1>5. /\ stage' \in {"off", "build", "start", "abort", "bind", "serve", "shutdown", "close", "returned"}
      /\ started' \in SUBSET ToStart
      /\ outcome' \in {"none", "nil", "init", "serve", "shutdown"}
  <2>1. CASE GatewayMain \/ GatewayLaunchStep
    BY <2>1 DEF GatewayMain, GatewayLaunchStep, servicesVars
  <2>2. CASE GatewayMainStep
    BY <2>2 DEF GatewayMainStep, BuildPart, BuildFails, StartersBegin, StartPart, StartPartFails,
                ServicesReady, BindFails, Serve, CloseRequested, ShutdownReturns,
                ServeErrorReceived, ClosingStep, CloseNext, GatewayReturns, servicesVars
  <2>3. CASE HTTPStep
    BY <2>3 DEF HTTPStep, HTTPServeFails, RequestBegins, RequestEnds, servicesVars
  <2> QED
    BY <2>1, <2>2, <2>3 DEF GatewayNext
<1> QED
  BY <1>1, <1>2, <1>3, <1>4, <1>5

LEMMA BeforeServicesStep ==
  ASSUME GatewayInv, GatewayNext
  PROVE  BeforeServices'
<1> USE DEF GatewayInv, GatewayTypeOK
<1> SUFFICES ASSUME launch' \in {"load", "logger"}
             PROVE  stage' = "off"
  BY DEF BeforeServices
<1>1. stage = "off" /\ launch \in {"load", "logger"}
  BY GatewayLaunches, LaunchStepType DEF BeforeServices
<1>2. ~GatewayMainStep
  BY <1>1
     DEF Running, GatewayMainStep, BuildPart, BuildFails, StartersBegin, StartPart, StartPartFails,
         ServicesReady, BindFails, Serve, CloseRequested, ShutdownReturns, ServeErrorReceived,
         ClosingStep, CloseNext, GatewayReturns
<1>3. ~GatewayMain
  BY DEF GatewayMain, LoggerBuilt
<1> QED
  BY <1>1, <1>2, <1>3
     DEF GatewayNext, GatewayLaunchStep, HTTPStep, HTTPServeFails, RequestBegins, RequestEnds

\* Building a part appends a closer that is new; closing takes the first one,
\* which is not in the rest.
LEMMA ClosersStep ==
  ASSUME GatewayInv, GatewayNext
  PROVE  ClosersInv'
<1> USE DEF GatewayInv, ClosersInv, Pending
<1>0. /\ closers \in Seq(ToClose) /\ Len(closers) \in Nat
      /\ closes \in [Part -> 0 .. 2] /\ closes' \in [Part -> 0 .. 2]
      /\ ToClose \subseteq Part
  BY PartIs, GatewayStepType DEF GatewayTypeOK, ToClose
<1>1. CASE BuildPart
  <2>1. /\ stage' = "build" /\ stage = "build" /\ closes' = closes
        /\ \A r \in Part : closes[r] = 0
    BY <1>1 DEF BuildPart, HandlersInv
  <2>2. \A r \in Part : Pending(r)' <=> Pending(r) \/ (r = NextPart /\ r \in ToClose)
    BY <1>0, <1>1, BuildPartIs
  <2>3. \A i, j \in 1 .. Len(closers') : closers'[i] = closers'[j] => i = j
    <3>1. ~Pending(NextPart)
      BY <1>0, <1>1, BuildPartIs
    <3>2. CASE NextPart \notin ToClose
      BY <1>0, <1>1, <3>2, BuildPartIs
    <3>3. CASE NextPart \in ToClose
      <4> SUFFICES ASSUME NEW i \in 1 .. Len(closers'), NEW j \in 1 .. Len(closers'),
                          closers'[i] = closers'[j]
                   PROVE  i = j
        OBVIOUS
      <4>1. /\ i \in 1 .. Len(closers) \/ i = Len(closers) + 1
            /\ j \in 1 .. Len(closers) \/ j = Len(closers) + 1
        BY <1>0, <1>1, <3>3, BuildPartIs
      <4>2. /\ \A k \in 1 .. Len(closers) : closers'[k] = closers[k] /\ closers[k] # NextPart
            /\ closers'[Len(closers) + 1] = NextPart
        BY <1>0, <1>1, <3>1, <3>3, BuildPartIs
      <4> QED
        BY <4>1, <4>2
    <3> QED
      BY <3>2, <3>3
  <2> QED
    BY <1>0, <1>1, <2>1, <2>2, <2>3, BuildPartIs
<1>2. CASE CloseNext
  <2> DEFINE c == closers[1]
  <2>1. /\ Len(closers) \in Nat \ {0} /\ c \in ToClose /\ c \in Part
        /\ Len(closers') = Len(closers) - 1
        /\ \A i \in 1 .. Len(closers') : closers'[i] = closers[i + 1] /\ i + 1 \in 2 .. Len(closers)
        /\ \A i \in 2 .. Len(closers) : i - 1 \in 1 .. Len(closers') /\ closers'[i - 1] = closers[i]
    BY <1>0, <1>2, CloseNextIs
  <2>2. closes' = [closes EXCEPT ![c] = @ + 1] /\ built' = built /\ stage' # "returned"
    BY <1>0, <1>2, CloseNextIs DEF CloseNext
  <2>3. Pending(c) /\ closes[c] = 0 /\ closes'[c] = 1
    BY <1>0, <2>1, <2>2
  <2>4. \A r \in Part : Pending(r)' <=> Pending(r) /\ r # c
    <3> SUFFICES ASSUME NEW r \in Part
                 PROVE  Pending(r)' <=> Pending(r) /\ r # c
      OBVIOUS
    <3>1. ASSUME Pending(r)'
          PROVE  Pending(r) /\ r # c
      <4>1. PICK i \in 1 .. Len(closers') : closers'[i] = r
        BY <3>1
      <4>2. i + 1 \in 2 .. Len(closers) /\ closers[i + 1] = r
        BY <2>1, <4>1
      <4>3. i + 1 \in 1 .. Len(closers) /\ 1 \in 1 .. Len(closers) /\ i + 1 # 1
        BY <2>1, <4>2
      <4> QED
        BY <4>2, <4>3
    <3>2. ASSUME Pending(r), r # c
          PROVE  Pending(r)'
      <4>1. PICK i \in 1 .. Len(closers) : closers[i] = r
        BY <3>2
      <4>2. i \in 2 .. Len(closers)
        BY <1>0, <3>2, <4>1
      <4> QED
        BY <2>1, <4>1, <4>2
    <3> QED
      BY <3>1, <3>2
  <2>5. \A i, j \in 1 .. Len(closers') : closers'[i] = closers'[j] => i = j
    <3> SUFFICES ASSUME NEW i \in 1 .. Len(closers'), NEW j \in 1 .. Len(closers'),
                        closers'[i] = closers'[j]
                 PROVE  i = j
      OBVIOUS
    <3>1. i + 1 \in 1 .. Len(closers) /\ j + 1 \in 1 .. Len(closers) /\ closers[i + 1] = closers[j + 1]
      BY <2>1
    <3>2. i + 1 = j + 1
      BY <3>1
    <3> QED
      BY <2>1, <3>2
  <2>6. \A r \in Part : closes'[r] = IF r = c THEN 1 ELSE closes[r]
    BY <1>0, <2>1, <2>2, <2>3
  <2> QED
    BY <1>0, <2>2, <2>3, <2>4, <2>5, <2>6
<1>3. CASE UNCHANGED <<built, closers, closes>> /\ ~BuildPart /\ ~CloseNext
  <2>1. stage' = "returned" => closers = <<>>
    BY StepOnStage
       DEF GatewayMain, BuildFails, StartersBegin, StartPartFails, ServicesReady, BindFails, Serve,
           CloseRequested, ShutdownReturns, ServeErrorReceived, GatewayReturns
  <2> QED
    BY <1>3, <2>1
<1> QED
  BY <1>1, <1>2, <1>3, StepOnServices

LEMMA HandlersStep ==
  ASSUME GatewayInv, GatewayNext
  PROVE  HandlersInv'
<1> USE DEF GatewayInv, HandlersInv
<1>1. http' = "shut" => stage' \in {"shutdown", "close", "returned"}
  <2>1. CASE Serve \/ CloseRequested
    BY <2>1 DEF Serve, CloseRequested
  <2>2. CASE HTTPStep
    BY <2>2 DEF HTTPStep, HTTPServeFails, RequestBegins, RequestEnds
  <2>3. CASE UNCHANGED httpVars /\ ~Serve /\ ~CloseRequested
    BY <2>3, StepOnStage
       DEF httpVars, GatewayMain, BuildFails, StartersBegin, StartPartFails, ServicesReady, BindFails,
           ShutdownReturns, ServeErrorReceived, GatewayReturns
  <2> QED
    BY <2>1, <2>2, <2>3, StepOnHTTP
<1>2. http' = "shut" /\ stage' # "shutdown" => handlers' = {}
  <2>1. CASE Serve \/ CloseRequested
    BY <2>1 DEF Serve, CloseRequested
  <2>2. CASE HTTPStep
    BY <2>2 DEF HTTPStep, HTTPServeFails, RequestBegins, RequestEnds
  <2>3. CASE UNCHANGED httpVars /\ ~Serve /\ ~CloseRequested
    BY <2>3, StepOnStage
       DEF httpVars, GatewayMain, BuildFails, StartersBegin, StartPartFails, ServicesReady, BindFails,
           ShutdownReturns, ServeErrorReceived, GatewayReturns
  <2> QED
    BY <2>1, <2>2, <2>3, StepOnHTTP
<1>3. stage' \notin {"abort", "close", "returned"} => \A r \in Part : closes'[r] = 0
  <2>1. CASE CloseNext
    BY <2>1 DEF CloseNext
  <2>2. CASE closes' = closes /\ ~CloseNext
    BY <2>2, StepOnStage
       DEF GatewayMain, BuildFails, StartersBegin, StartPartFails, ServicesReady, BindFails, Serve,
           CloseRequested, ShutdownReturns, ServeErrorReceived, GatewayReturns
  <2> QED
    BY <2>1, <2>2, StepOnServices DEF BuildPart
<1> QED
  BY <1>1, <1>2, <1>3

LEMMA GatewayStepInv ==
  ASSUME GatewayInv, GatewayNext
  PROVE  GatewayInv'
  BY GatewayStepType, BeforeServicesStep, ClosersStep, HandlersStep DEF GatewayInv
-----------------------------------------------------------------------------
(* Both programs *)

ProgramsInv == ServerInv /\ GatewayInv

LEMMA InitInv ==
  ASSUME ProgramsInit
  PROVE  ProgramsInv
<1> USE DEF ProgramsInit, StartInit, GatewayInit
<1>1. LaunchTypeOK
  BY DEF LaunchInit, LaunchTypeOK
<1>2. closeCh \in Seq(Msg) /\ Len(closeCh) = 0 /\ closers \in Seq(ToClose) /\ Len(closers) = 0
  BY EmptySeq
<1>3. StartTypeOK
  BY <1>1, <1>2 DEF StartTypeOK, Services, Msg
<1>4. BeforeStart /\ GoroutinesInv /\ ServicesInv
  BY DEF BeforeStart, GoroutinesInv, ServicesInv, Actors
<1>5. RoomInv
  BY <1>2 DEF RoomInv, DoneCount, Done, Actors, Servers, Watches
<1>6. NilInv
  BY <1>2 DEF NilInv, NoNilSent, Actors
<1>7. GatewayTypeOK
  BY <1>1, <1>2 DEF GatewayTypeOK
<1>8. BeforeServices /\ BuiltInv /\ ClosersInv /\ HandlersInv
  BY <1>2 DEF BeforeServices, BuiltInv, ClosersInv, Pending, HandlersInv
<1> QED
  BY <1>3, <1>4, <1>5, <1>6, <1>7, <1>8 DEF ProgramsInv, ServerInv, GatewayInv

\* The steps of one program reach the other's state through the launch only.
LEMMA ServerUntouched ==
  ASSUME ServerInv, LaunchChanges, UNCHANGED serverOwn
  PROVE  ServerInv'
<1>1. LaunchTypeOK' /\ (requested => requested') /\ BeforeStart'
  BY LaunchStepType DEF ServerInv, StartTypeOK, BeforeStart, serverOwn
<1>2. StartTypeOK'
  BY <1>1 DEF ServerInv, StartTypeOK, serverOwn, chanVars, world
<1>3. GoroutinesInv' /\ RoomInv' /\ ServicesInv'
  BY DEF ServerInv, GoroutinesInv, RoomInv, DoneCount, Done, ServicesInv, serverOwn, chanVars
<1>4. NilInv'
  BY <1>1 DEF ServerInv, NilInv, NoNilSent, serverOwn, chanVars
<1> QED
  BY <1>1, <1>2, <1>3, <1>4 DEF ServerInv

LEMMA GatewayUntouched ==
  ASSUME GatewayInv, LaunchChanges, UNCHANGED gatewayOwn
  PROVE  GatewayInv'
<1>1. LaunchTypeOK' /\ BeforeServices'
  BY LaunchStepType DEF GatewayInv, GatewayTypeOK, BeforeServices, gatewayOwn
<1>2. GatewayTypeOK' /\ BuiltInv' /\ HandlersInv'
  BY <1>1 DEF GatewayInv, GatewayTypeOK, BuiltInv, HandlersInv, gatewayOwn, servicesVars, httpVars
<1>3. ClosersInv'
  BY DEF GatewayInv, ClosersInv, Pending, gatewayOwn, servicesVars
<1> QED
  BY <1>1, <1>2, <1>3 DEF GatewayInv

LEMMA ProgramsInvHolds == ProgramsSpec => []ProgramsInv
<1>1. ProgramsInit => ProgramsInv
  BY InitInv
<1>2. ProgramsInv /\ [ProgramsNext]_programVars => ProgramsInv'
  <2> SUFFICES ASSUME ProgramsInv, [ProgramsNext]_programVars
               PROVE  ProgramsInv'
    OBVIOUS
  <2> USE DEF ProgramsInv
  <2>1. CASE StartNext /\ UNCHANGED gatewayOwn
    BY <2>1, ServerStepInv, StartLaunches, GatewayUntouched
  <2>2. CASE GatewayNext /\ UNCHANGED serverOwn
    BY <2>2, GatewayStepInv, GatewayLaunches, ServerUntouched
  <2>3. CASE UNCHANGED programVars
    <3>1. LaunchChanges /\ UNCHANGED serverOwn /\ UNCHANGED gatewayOwn
      BY <2>3 DEF programVars, startVars, gatewayVars, LaunchChanges, serverOwn, gatewayOwn
    <3> QED
      BY <3>1, ServerUntouched, GatewayUntouched
  <2> QED
    BY <2>1, <2>2, <2>3 DEF ProgramsNext
<1> QED
  BY <1>1, <1>2, PTL DEF ProgramsSpec

\* Type correctness of both programs: Start, the goroutines and the closers are
\* at one of the places the modules name.
THEOREM ProgramsTypes == ProgramsSpec => []ProgramsTypeOK
<1>1. ProgramsInv => ProgramsTypeOK
  BY DEF ProgramsInv, ServerInv, GatewayInv, ProgramsTypeOK
<1> QED
  BY <1>1, ProgramsInvHolds, PTL

\* closeCh has room for every goroutine that sends to it (server.go:113-115):
\* each sends at most one message, so it never holds more than four of the ten it
\* has room for, whoever receives.
THEOREM SendersFindRoom == ProgramsSpec => []NoSenderBlocked
<1>1. ProgramsInv => NoSenderBlocked
  <2> SUFFICES ASSUME ServerInv, NEW a \in Actors, pc[a] = "send"
               PROVE  Len(closeCh) < CloseChSize
    BY DEF ProgramsInv, NoSenderBlocked
  <2>1. Len(closeCh) \in Nat /\ Len(closeCh) <= DoneCount
    BY DEF ServerInv, StartTypeOK, RoomInv
  <2>2. DoneCount \in 0 .. 4
    BY DEF DoneCount, Done
  <2> QED
    BY <2>1, <2>2 DEF CloseChSize
<1> QED
  BY <1>1, ProgramsInvHolds, PTL

\* Start returns nil only when it was asked to close (server.go:156-189): no
\* end of a server or of a watch before that is taken for a clean one.
THEOREM NilOnlyOnRequest == ProgramsSpec => []NilMeansRequested
<1>1. ProgramsInv => NilMeansRequested
  BY DEF ProgramsInv, ServerInv, NilInv, NilMeansRequested
<1> QED
  BY <1>1, ProgramsInvHolds, PTL

\* Whichever way Start ends, the services StartServices gave it are closed, by
\* the deferred call or after the servers have stopped, and only once.
THEOREM ServicesAreClosed == ProgramsSpec => []ServicesClosedOnce
<1>1. ProgramsInv => ServicesClosedOnce
  BY DEF ProgramsInv, ServerInv, StartTypeOK, ServicesInv, ServicesClosedOnce
<1> QED
  BY <1>1, ProgramsInvHolds, PTL

\* Each part the gateway has collected is closed exactly once by the time its
\* Start returns (services.go:36-45, lifecycle.go): the closers are a sequence
\* without repetition of the built parts that are not closed yet.
THEOREM PartsAreClosed == ProgramsSpec => []PartsClosedOnce
<1>1. ProgramsInv => PartsClosedOnce
  <2> SUFFICES ASSUME GatewayInv
               PROVE  PartsClosedOnce
    BY DEF ProgramsInv
  <2>1. \A r \in Part : closes[r] <= 1
    BY DEF GatewayInv, ClosersInv
  <2>2. ASSUME stage = "returned", NEW r \in built \cap ToClose
        PROVE  closes[r] = 1
    <3>1. Len(closers) = 0
      BY <2>2, EmptySeq DEF GatewayInv, ClosersInv
    <3>2. ~Pending(r)
      BY <3>1 DEF Pending
    <3> QED
      BY <3>2 DEF GatewayInv, ClosersInv
  <2> QED
    BY <2>1, <2>2 DEF PartsClosedOnce
<1> QED
  BY <1>1, ProgramsInvHolds, PTL

\* After a close request nothing is closed under a handler that still runs:
\* Shutdown waits for the handlers, and the closers come after it.
THEOREM HandlersEndFirst == ProgramsSpec => []RequestsEndFirst
<1>1. ProgramsInv => RequestsEndFirst
  <2> SUFFICES ASSUME GatewayInv, http = "shut", NEW r \in Part, closes[r] > 0
               PROVE  handlers = {}
    BY DEF ProgramsInv, RequestsEndFirst
  <2>1. closes[r] # 0
    OBVIOUS
  <2>2. stage # "shutdown"
    BY <2>1 DEF GatewayInv, HandlersInv
  <2> QED
    BY <2>2 DEF GatewayInv, HandlersInv
<1> QED
  BY <1>1, ProgramsInvHolds, PTL
=============================================================================
