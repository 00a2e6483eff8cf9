-------------------------- MODULE EventServerProofs --------------------------
(***************************************************************************)
(* Theorems about the hearts of an event server, for any number of users,  *)
(* streams and servers.                                                    *)
(***************************************************************************)
EXTENDS EventServer, TLAPS

LEMMA StreamHasPlace ==
  ASSUME NEW c \in Stream PROVE UserOf[c] \in User /\ ServerOf[c] \in Server
  BY EventServerAssumption

LEMMA StreamStepType ==
  ASSUME ESTypeOK, NEW c \in Stream, StreamStep(c) PROVE ESTypeOK'
<1> USE DEF ESTypeOK, connVars, heartVars
<1>1. CASE Accept(c) \/ RefuseStream(c) \/ HandlerReturns(c) \/ LaunchRefused(c)
  BY <1>1 DEF Accept, RefuseStream, HandlerReturns, LaunchRefused
<1>2. CASE Register(c)
  <2>1. conns' \in [Server -> [User -> Stream \cup {NoStream}]]
    BY <1>2, StreamHasPlace DEF Register
  <2> QED
    BY <1>2, <2>1 DEF Register
<1>3. CASE LaunchForUser(c)
  <2>1. hearts' \in [Server -> [User -> Stream \cup {NoStream}]]
    BY <1>3, StreamHasPlace DEF LaunchForUser
  <2> QED
    BY <1>3, <2>1 DEF LaunchForUser
<1>4. CASE ClientGone(c) \/ ReleaseSend(c) \/ ReleaseClose(c)
  BY <1>4 DEF ClientGone, ReleaseSend, ReleaseClose
<1> QED
  BY <1>1, <1>2, <1>3, <1>4 DEF StreamStep

LEMMA HeartStepType ==
  ASSUME ESTypeOK, NEW c \in Stream, HeartStep(c) PROVE ESTypeOK'
  BY StreamHasPlace DEF ESTypeOK, connVars, heartVars, HeartStep, HeartSet, HeartSetFails,
                        LateSetLands, HeartTick, HeartStops

LEMMA ServerStepType ==
  ASSUME ESTypeOK, NEW s \in Server, ServerStep(s) PROVE ESTypeOK'
<1> USE DEF ESTypeOK, connVars, heartVars
<1>1. CASE InitiateShutdown(s)
  BY <1>1 DEF InitiateShutdown, Phase
<1>2. CASE ShutdownInitiated(s) \/ ShutdownTimesOut(s) \/ GracefulStop(s)
  BY <1>2 DEF ShutdownInitiated, ShutdownTimesOut, GracefulStop, Phase
<1>3. CASE CloseServices(s)
  BY <1>3 DEF CloseServices, StreamsOf, Phase
<1>4. CASE ServerDies(s)
  BY <1>4 DEF ServerDies, Phase
<1> QED
  BY <1>1, <1>2, <1>3, <1>4 DEF ServerStep

\* Type correctness of the event servers.
THEOREM EventServerTypes == ESSafety => []ESTypeOK
<1>1. ESInit => ESTypeOK
  BY DEF ESInit, ESTypeOK, Phase
<1>2. ESTypeOK /\ [ESNext]_esVars => ESTypeOK'
  <2> SUFFICES ASSUME ESTypeOK, [ESNext]_esVars PROVE ESTypeOK'
    OBVIOUS
  <2>1. ASSUME NEW u \in User, RecordExpires(u) PROVE ESTypeOK'
    BY <2>1 DEF RecordExpires, ESTypeOK, connVars
  <2>2. CASE UNCHANGED esVars
    BY <2>2 DEF esVars, connVars, heartVars, ESTypeOK
  <2> QED
    BY <2>1, <2>2, StreamStepType, HeartStepType, ServerStepType DEF ESNext
<1> QED
  BY <1>1, <1>2, PTL DEF ESSafety
-----------------------------------------------------------------------------
(* Hearts *)

\* Why NoLeakedHeart and HeartHasHandler are invariant: a heart is launched
\* once, by a handler that then waits, and a waiting handler is woken only by
\* a goroutine that the shutdown of its server has started.
HeartInv ==
  /\ NoLeakedHeart
  /\ \A c \in Stream :
       /\ handler[c] \in {"new", "accepted", "launch"} => beat[c] = "none"
       /\ Beating(c) => handler[c] \in {"wait", "ok"}
       /\ handler[c] = "ok" \/ c \in waitCh \/ release[c] # "none" => Phase_(c) # "serving"

LEMMA StreamStepHeart ==
  ASSUME ESTypeOK, HeartInv, NEW c \in Stream, StreamStep(c) PROVE HeartInv'
<1> USE DEF ESTypeOK, HeartInv, NoLeakedHeart, connVars, heartVars, Beating, MyHeart, Gone, Phase_
<1>1. CASE Accept(c) \/ RefuseStream(c)
  <2>1. /\ \A d \in Stream : handler'[d] # handler[d] => /\ d = c /\ handler[c] = "new"
                                                       /\ handler'[c] \in {"accepted", "refused"}
        /\ UNCHANGED <<srv, waitCh, release, hearts, beat, stopCh>>
    BY <1>1 DEF Accept, RefuseStream
  <2> QED
    BY <2>1
<1>2. CASE Register(c)
  BY <1>2 DEF Register
<1>3. CASE LaunchForUser(c)
  <2>1. \A d \in Stream \ {c} : beat'[d] = beat[d] /\ handler'[d] = handler[d]
    BY <1>3 DEF LaunchForUser
  <2>2. beat'[c] = "set" /\ handler'[c] = "wait" /\ hearts'[ServerOf[c]][UserOf[c]] = c
    BY <1>3, StreamHasPlace DEF LaunchForUser
  <2>3. ASSUME NEW d \in Stream, d # c, Beating(d)
        PROVE  (MyHeart(d) = d \/ (d \in stopCh /\ Gone(ServerOf[d])))'
    <3>1. CASE MyHeart(d) = d
      <4>1. ServerOf[d] # ServerOf[c] \/ UserOf[d] # UserOf[c]
        BY <1>3, <3>1, EventServerAssumption DEF LaunchForUser
      <4>2. hearts'[ServerOf[d]][UserOf[d]] = hearts[ServerOf[d]][UserOf[d]]
        BY <1>3, <4>1, StreamHasPlace DEF LaunchForUser
      <4> QED
        BY <3>1, <4>2
    <3>2. CASE d \in stopCh /\ Gone(ServerOf[d])
      BY <1>3, <3>2 DEF LaunchForUser
    <3> QED
      BY <2>3, <3>1, <3>2
  <2>4. NoLeakedHeart'
    BY <2>1, <2>2, <2>3
  <2>5. UNCHANGED <<srv, waitCh, release>>
    BY <1>3 DEF LaunchForUser
  <2> QED
    BY <2>1, <2>2, <2>4, <2>5
<1>4. CASE LaunchRefused(c)
  BY <1>4 DEF LaunchRefused
<1>5. CASE HandlerReturns(c)
  BY <1>5 DEF HandlerReturns
<1>6. CASE ClientGone(c) \/ ReleaseSend(c) \/ ReleaseClose(c)
  BY <1>6 DEF ClientGone, ReleaseSend, ReleaseClose
<1> QED
  BY <1>1, <1>2, <1>3, <1>4, <1>5, <1>6 DEF StreamStep

LEMMA HeartStepHeart ==
  ASSUME ESTypeOK, HeartInv, NEW c \in Stream, HeartStep(c) PROVE HeartInv'
<1>1. /\ \A d \in Stream : Beating(d)' => Beating(d)
      /\ \A d \in Stream : beat[d] = "none" => beat'[d] = "none"
      /\ UNCHANGED <<srv, handler, waitCh, release, hearts, stopCh>>
  BY DEF ESTypeOK, HeartStep, HeartSet, HeartSetFails, LateSetLands, HeartTick, HeartStops,
         connVars, Beating
<1> QED
  BY <1>1 DEF HeartInv, NoLeakedHeart, MyHeart, Gone, Phase_

\* A server that goes on to a later phase keeps its hearts and its handlers.
LEMMA PhaseStepHeart ==
  ASSUME ESTypeOK, HeartInv, NEW s \in Server,
         NEW phase \in Phase \ {"serving"}, srv' = [srv EXCEPT ![s] = phase],
         ~Gone(s), UNCHANGED <<handler, waitCh, release, hearts, beat, stopCh>>
  PROVE  HeartInv'
<1>1. \A c \in Stream : Phase_(c)' = Phase_(c) \/ Phase_(c)' # "serving"
  BY StreamHasPlace DEF ESTypeOK, Phase_
<1>2. \A c \in Stream : Gone(ServerOf[c]) => Gone(ServerOf[c])'
  BY StreamHasPlace DEF ESTypeOK, Gone
<1>3. NoLeakedHeart'
  BY <1>2 DEF HeartInv, NoLeakedHeart, Beating, MyHeart
<1> QED
  BY <1>1, <1>3 DEF HeartInv, Beating

LEMMA ServerStepHeart ==
  ASSUME ESTypeOK, HeartInv, NEW s \in Server, ServerStep(s) PROVE HeartInv'
<1> USE DEF ESTypeOK, HeartInv, NoLeakedHeart, connVars, heartVars, Beating, MyHeart, Gone, Phase_
<1>1. CASE InitiateShutdown(s)
  BY <1>1, StreamHasPlace DEF InitiateShutdown
<1>2. CASE ShutdownInitiated(s) \/ ShutdownTimesOut(s) \/ GracefulStop(s)
  <2>1. /\ srv' = [srv EXCEPT ![s] = "stopping"] \/ srv' = [srv EXCEPT ![s] = "initiated"]
        /\ srv[s] \in {"initiating", "initiated"}
        /\ UNCHANGED <<handler, waitCh, release, hearts, beat, stopCh>>
    BY <1>2 DEF ShutdownInitiated, ShutdownTimesOut, GracefulStop
  <2>2. ~Gone(s)
    BY <2>1
  <2> QED
    BY <2>1, <2>2, PhaseStepHeart DEF Phase
<1>3. CASE CloseServices(s)
  <2>1. srv' = [srv EXCEPT ![s] = "stopped"] /\ UNCHANGED <<handler, waitCh, release, beat>>
    BY <1>3 DEF CloseServices
  <2>2. NoLeakedHeart'
    <3> SUFFICES ASSUME NEW d \in Stream, Beating(d)
                 PROVE  (MyHeart(d) = d \/ (d \in stopCh /\ Gone(ServerOf[d])))'
      BY <2>1
    <3>1. CASE ServerOf[d] = s
      BY <1>3, <3>1, StreamHasPlace DEF CloseServices, StreamsOf
    <3>2. CASE ServerOf[d] # s
      BY <1>3, <3>2, StreamHasPlace DEF CloseServices
    <3> QED
      BY <3>1, <3>2
  <2> QED
    BY <2>1, <2>2, StreamHasPlace
<1>4. CASE ServerDies(s)
  <2>1. /\ \A d \in Stream : Beating(d)' => Beating(d)
        /\ \A d \in Stream : beat[d] = "none" => beat'[d] = "none"
        /\ UNCHANGED <<handler, waitCh, release, hearts, stopCh>>
    BY <1>4 DEF ServerDies
  <2>2. \A d \in Stream : /\ Gone(ServerOf[d]) => Gone(ServerOf[d])'
                          /\ Phase_(d)' = "serving" => Phase_(d) = "serving"
    BY <1>4, StreamHasPlace DEF ServerDies
  <2>3. NoLeakedHeart'
    BY <2>1, <2>2
  <2> QED
    BY <2>1, <2>2, <2>3
<1> QED
  BY <1>1, <1>2, <1>3, <1>4 DEF ServerStep

LEMMA HeartInvHolds == ESSafety => []HeartInv
<1>1. ESInit => HeartInv
  BY StreamHasPlace DEF ESInit, HeartInv, NoLeakedHeart, Beating, Phase_
<1>2. ESTypeOK /\ HeartInv /\ [ESNext]_esVars => HeartInv'
  <2> SUFFICES ASSUME ESTypeOK, HeartInv, [ESNext]_esVars PROVE HeartInv'
    OBVIOUS
  <2>1. ASSUME NEW u \in User, RecordExpires(u) PROVE HeartInv'
    BY <2>1 DEF RecordExpires, connVars, HeartInv, NoLeakedHeart, Beating, MyHeart, Gone, Phase_
  <2>2. CASE UNCHANGED esVars
    BY <2>2 DEF esVars, connVars, heartVars, HeartInv, NoLeakedHeart, Beating, MyHeart, Gone, Phase_
  <2> QED
    BY <2>1, <2>2, StreamStepHeart, HeartStepHeart, ServerStepHeart DEF ESNext
<1> QED
  BY <1>1, <1>2, EventServerTypes, PTL DEF ESSafety

\* No heart escapes the map that Close and StopForUser go through, however
\* often and in whatever order users connect, reconnect and servers stop.
THEOREM NoHeartIsLeaked == ESSafety => []NoLeakedHeart
  BY HeartInvHolds, PTL DEF HeartInv

\* A running heart of a serving server has a handler that has not returned.
THEOREM HeartsHaveHandlers == ESSafety => []HeartHasHandler
<1>1. HeartInv => HeartHasHandler
  BY DEF HeartInv, HeartHasHandler
<1> QED
  BY <1>1, HeartInvHolds, PTL
=============================================================================
