-------------------------- MODULE HeartbeatsProofs --------------------------
(***************************************************************************)
(* Theorems about the two heartbeat loops, for any unit of time, jitter    *)
(* and latency up to a bound: a record outlives every wait for the next    *)
(* beat.  All the numbers of the argument are those of the code: intervals *)
(* of 10 seconds, records of 30 and of 20.                                 *)
(***************************************************************************)
EXTENDS Heartbeats, Integers, TLAPS

-----------------------------------------------------------------------------
(* Types *)

\* The jitter keeps the period of a ticker below eleven seconds.
LEMMA JitterType ==
  /\ (Second * Interval) \div 10 = Second
  /\ Second * Interval = 10 * Second
  /\ Second * (Interval + 1) = 11 * Second
  /\ \A j \in Jitter : Second * Interval + j \in Second * Interval .. Second * (Interval + 1) - 1
<1>1. (Second * Interval) \div 10 = Second
  BY HeartbeatsAssumption DEF Interval
<1>2. Second * Interval = 10 * Second /\ Second * (Interval + 1) = 11 * Second
  BY HeartbeatsAssumption DEF Interval
<1> QED
  BY <1>1, <1>2, HeartbeatsAssumption DEF Jitter

\* The clock of the process counts seconds.
LEMMA SubsecStep ==
  ASSUME NEW k \in 0 .. Second - 1
  PROVE  (k + 1) % Second = IF k + 1 = Second THEN 0 ELSE k + 1
<1>1. CASE k + 1 = Second
  BY <1>1, HeartbeatsAssumption
<1>2. CASE k + 1 < Second
  BY <1>2, HeartbeatsAssumption
<1> QED
  BY <1>1, <1>2, HeartbeatsAssumption

LEMMA TTLType == TTL \in Nat /\ TTL = (IF kind = "client" THEN 30 * Second ELSE 20 * Second)
                 /\ Latency \in Nat
  BY HeartbeatsAssumption DEF TTL, ActiveUserTTL, HeartBeatTTL, Latency

LEMMA HeartbeatsStepType ==
  ASSUME HeartbeatsTypeOK, HeartbeatsNext
  PROVE  HeartbeatsTypeOK'
<1> USE DEF HeartbeatsTypeOK
<1>0. TTL' = TTL /\ Latency' = Latency /\ kind' = kind /\ period' = period
  BY DEF HeartbeatsNext, LoopStep, Skip, BeatSent, BeatLands, BeatSucceeds, BeatFails, Ticked, Stopped,
         Close, CloseForgets, TimePasses, TTL, Latency
<1>1. CASE Skip \/ Stopped \/ Ticked
  BY <1>0, <1>1 DEF Skip, Stopped, Ticked, AtSelect, clockVars, stopVars
<1>2. CASE BeatSent
  <2>1. age' = 0 /\ 0 \in 0 .. Latency
    BY <1>2, TTLType DEF BeatSent
  <2> QED
    BY <1>0, <1>2, <2>1 DEF BeatSent, stopVars
<1>3. CASE BeatFails
  BY <1>0, <1>3 DEF BeatFails, AtSelect, clockVars, stopVars
<1>4. CASE BeatLands
  <2>1. ttl' = TTL /\ TTL \in 0 .. TTL
    BY <1>4, TTLType DEF BeatLands
  <2> QED
    BY <1>0, <1>4, <2>1 DEF BeatLands, stopVars
<1>5. CASE BeatSucceeds
  BY <1>0, <1>5 DEF BeatSucceeds, AtSelect, Interval, stopVars
<1>6. CASE Close \/ CloseForgets
  BY <1>0, <1>6 DEF Close, CloseForgets, clockVars
<1>7. CASE TimePasses
  <2>1. left' \in 1 .. period' /\ tick' \in BOOLEAN
    BY <1>0, <1>7, JitterType, HeartbeatsAssumption DEF TimePasses
  <2>2. subsec' \in 0 .. Second - 1
    BY <1>7, SubsecStep, HeartbeatsAssumption DEF TimePasses
  <2>3. since' \in 0 .. Interval + 1
    BY <1>7 DEF TimePasses, Interval
  <2>4. age' \in 0 .. Latency'
    BY <1>0, <1>7, TTLType DEF TimePasses, LoopRuns
  <2>5. ttl' \in 0 .. TTL'
    BY <1>0, <1>7, TTLType DEF TimePasses
  <2> QED
    BY <1>0, <1>7, <2>1, <2>2, <2>3, <2>4, <2>5 DEF TimePasses, stopVars
<1> QED
  BY <1>1, <1>2, <1>3, <1>6, <1>7, <1>4, <1>5 DEF HeartbeatsNext, LoopStep

\* Type correctness of both loops, of the clock and of the record's time to
\* live, with periods of addJitter (heartbeat.go:130) only.
THEOREM HeartbeatsTypes == HeartbeatsSafety => []HeartbeatsTypeOK
<1>1. HeartbeatsInit => HeartbeatsTypeOK
  <2> SUFFICES ASSUME HeartbeatsInit
               PROVE  HeartbeatsTypeOK
    OBVIOUS
  <2>1. period \in Second * Interval .. Second * (Interval + 1) - 1
    BY JitterType, HeartbeatsAssumption DEF HeartbeatsInit
  <2>2. left \in 1 .. period
    BY <2>1, JitterType, HeartbeatsAssumption DEF HeartbeatsInit
  <2>3. age \in 0 .. Latency /\ ttl \in 0 .. TTL
    BY TTLType DEF HeartbeatsInit
  <2>4. since \in 0 .. Interval + 1
    BY DEF HeartbeatsInit, Interval
  <2> QED
    BY <2>1, <2>2, <2>3, <2>4 DEF HeartbeatsInit, HeartbeatsTypeOK
<1>2. HeartbeatsTypeOK /\ [HeartbeatsNext]_beatVars => HeartbeatsTypeOK'
  <2> SUFFICES ASSUME HeartbeatsTypeOK, [HeartbeatsNext]_beatVars
               PROVE  HeartbeatsTypeOK'
    OBVIOUS
  <2>1. CASE UNCHANGED beatVars
    BY <2>1 DEF beatVars, clockVars, stopVars, HeartbeatsTypeOK, Latency, TTL
  <2> QED
    BY <2>1, HeartbeatsStepType
<1> QED
  BY <1>1, <1>2, PTL DEF HeartbeatsSafety
-----------------------------------------------------------------------------
(* The record *)

\* How late a beat may be answered for the record to be kept: before the
\* client's next tick; and, for a heart, within the nine seconds a record of 20
\* has left when the ticker, whose period may be almost 11, fires.
LatencyBound == /\ ClientLatency < Second * Interval
                /\ HeartLatency <= Second * (HeartBeatTTL - Interval - 1)

\* Units since the ticker fired.
Elapsed == period - left

\* Units since the last success, and what had passed of its second before.
SinceSuccess == Second * since + subsec

Waiting == pc \in {"select", "leaked"}

PeriodInv == IF kind = "client" THEN period = Second * Interval ELSE pc # "leaked"

\* A beat starts with the tick that caused it, and no call lasts to the next.
RoundInv ==
  pc # "returned" => /\ pc = "beat" => left = period /\ ~tick
                     /\ pc \in {"sent", "landed"} => age = Elapsed /\ ~tick
                     /\ tick => left = period

\* A record that has just been written has its whole time, less what the call
\* takes from then on.
LandedInv == pc = "landed" => ttl >= TTL - Elapsed

\* The client waits in the round of its last beat, or in the next one if the
\* beat of that one was skipped: then it is due at the end of it.
FirstRound == /\ ttl >= Second * ActiveUserTTL - Elapsed
              /\ since >= Interval \/ SinceSuccess >= Elapsed - Second * Interval + 1
SecondRound == /\ ttl >= Second * (ActiveUserTTL - Interval) - Elapsed
               /\ since >= Interval \/ SinceSuccess >= Elapsed + 1
FirstTick == /\ ttl >= Second * (ActiveUserTTL - Interval)
             /\ since >= Interval \/ SinceSuccess >= 1
SecondTick == /\ ttl >= Second * (ActiveUserTTL - 2 * Interval)
              /\ since >= Interval

ClientInv ==
  kind = "client" /\ good =>
    /\ Waiting /\ ~tick => FirstRound \/ SecondRound
    /\ pc = "beat" \/ (Waiting /\ tick) => FirstTick \/ SecondTick
    /\ pc = "sent" => ttl >= Second * (ActiveUserTTL - 2 * Interval) - Elapsed

HeartInv ==
  kind = "heart" /\ good =>
    /\ Waiting /\ ~tick => ttl >= Second * HeartBeatTTL - Elapsed
    /\ pc = "beat" \/ (Waiting /\ tick) => ttl >= Second * HeartBeatTTL - period
    /\ pc = "sent" => ttl >= Second * HeartBeatTTL - period - Elapsed

KeptInv == /\ PeriodInv
           /\ RoundInv
           /\ LandedInv
           /\ ClientInv
           /\ HeartInv

LEMMA Numbers ==
  ASSUME HeartbeatsTypeOK, LatencyBound
  PROVE  /\ Second \in Nat \ {0} /\ period \in Nat /\ left \in Nat /\ ttl \in Nat /\ age \in Nat
         /\ 1 <= left /\ left <= period
         /\ 10 * Second <= period /\ period <= 11 * Second - 1
         /\ Elapsed \in Nat /\ Elapsed <= period - 1
         /\ Latency \in Nat /\ age <= Latency
         /\ kind = "client" => Latency <= 10 * Second - 1
         /\ kind = "heart" => Latency <= 9 * Second
<1>1. /\ period \in Nat /\ left \in Nat /\ 1 <= left /\ left <= period
      /\ 10 * Second <= period /\ period <= 11 * Second - 1
  BY JitterType, HeartbeatsAssumption DEF HeartbeatsTypeOK
<1>2. Elapsed \in Nat /\ Elapsed <= period - 1
  BY <1>1 DEF Elapsed
<1>3. Latency \in Nat /\ age \in Nat /\ age <= Latency /\ ttl \in Nat
  BY TTLType DEF HeartbeatsTypeOK
<1>4. /\ kind = "client" => Latency <= 10 * Second - 1
      /\ kind = "heart" => Latency <= 9 * Second
  BY HeartbeatsAssumption, JitterType DEF LatencyBound, Latency, HeartBeatTTL, Interval
<1> QED
  BY <1>1, <1>2, <1>3, <1>4, HeartbeatsAssumption

\* One unit of time: a second's boundary, or not, adds one to SinceSuccess until
\* it is no longer counted.
LEMMA ClockStep ==
  ASSUME HeartbeatsTypeOK, TimePasses
  PROVE  /\ since >= Interval => since' >= Interval
         /\ since' >= Interval \/ SinceSuccess' = SinceSuccess + 1
<1>1. since \in 0 .. 11 /\ subsec \in 0 .. Second - 1 /\ Second \in Nat \ {0}
  BY HeartbeatsAssumption DEF HeartbeatsTypeOK, Interval
<1>2. subsec' = IF subsec + 1 = Second THEN 0 ELSE subsec + 1
  BY <1>1, SubsecStep DEF TimePasses
<1>3. since' = IF subsec' = 0 /\ since <= 10 THEN since + 1 ELSE since
  BY DEF TimePasses, Interval
<1>4. CASE subsec + 1 = Second
  <2>1. subsec' = 0 /\ (since <= 10 => since' = since + 1) /\ (since = 11 => since' = 11)
    BY <1>1, <1>2, <1>3, <1>4
  <2>2. Second * (since + 1) = Second * since + Second
    BY <1>1
  <2> QED
    BY <1>1, <1>4, <2>1, <2>2 DEF SinceSuccess, Interval
<1>5. CASE subsec + 1 # Second
  <2>1. subsec' = subsec + 1 /\ subsec' # 0 /\ since' = since
    BY <1>1, <1>2, <1>3, <1>5
  <2> QED
    BY <1>1, <2>1 DEF SinceSuccess
<1> QED
  BY <1>4, <1>5

\* Ten seconds are ten seconds on the clock.
LEMMA TenSeconds ==
  ASSUME HeartbeatsTypeOK, SinceSuccess >= 10 * Second
  PROVE  since >= Interval
<1>1. since \in 0 .. 11 /\ subsec \in 0 .. Second - 1 /\ Second \in Nat \ {0}
  BY HeartbeatsAssumption DEF HeartbeatsTypeOK, Interval
<1>2. SUFFICES ASSUME since \in 0 .. 9
               PROVE  SinceSuccess < 10 * Second
  BY <1>1, HeartbeatsAssumption DEF SinceSuccess, Interval
<1>3. Second * since <= Second * 9
  BY <1>1, <1>2
<1> QED
  BY <1>1, <1>2, <1>3 DEF SinceSuccess

\* What a step of the loop, or Close, leaves as it is.
LEMMA NoTime ==
  ASSUME HeartbeatsNext, ~TimePasses
  PROVE  /\ kind' = kind /\ period' = period /\ left' = left /\ subsec' = subsec
         /\ Elapsed' = Elapsed
<1>1. kind' = kind /\ period' = period /\ left' = left /\ subsec' = subsec
  BY DEF HeartbeatsNext, LoopStep, Skip, BeatSent, BeatLands, BeatSucceeds, BeatFails,
         Ticked, Stopped, Close, CloseForgets, clockVars
<1> QED
  BY <1>1 DEF Elapsed

LEMMA PeriodStep ==
  ASSUME PeriodInv, HeartbeatsNext
  PROVE  PeriodInv'
<1>1. CASE UNCHANGED pc
  BY <1>1 DEF PeriodInv, HeartbeatsNext, LoopStep, Skip, BeatSent, BeatLands, BeatSucceeds, BeatFails,
              Ticked, Stopped, Close, CloseForgets, TimePasses
<1>2. CASE LoopStep
  BY <1>2 DEF PeriodInv, LoopStep, Skip, BeatSent, BeatLands, BeatSucceeds, BeatFails, Ticked, Stopped,
              AtSelect
<1> QED
  BY <1>1, <1>2 DEF HeartbeatsNext, Close, CloseForgets, TimePasses

\* What time does to a loop that waits, and to one whose call is under way.
LEMMA WaitStep ==
  ASSUME HeartbeatsTypeOK, LatencyBound, RoundInv, TimePasses, pc # "returned"
  PROVE  /\ pc' = pc /\ kind' = kind /\ good' = good /\ period' = period
         /\ pc # "beat" /\ ~tick
         /\ ttl >= 1 => ttl' = ttl - 1
         /\ ttl' \in Nat /\ ttl' >= ttl - 1
         /\ IF tick' THEN Waiting /\ Elapsed = period - 1 /\ left' = period
                     ELSE Elapsed' = Elapsed + 1
<1>1. pc \in {"sent", "landed", "select", "leaked"} /\ ~tick
  BY DEF TimePasses, LoopRuns, RoundInv, HeartbeatsTypeOK
<1>2. (ttl >= 1 => ttl' = ttl - 1) /\ ttl' \in Nat /\ ttl' >= ttl - 1
  BY Numbers DEF TimePasses
<1>3. pc' = pc /\ kind' = kind /\ good' = good /\ period' = period
  BY DEF TimePasses
<1>4. CASE left = 1
  <2>1. tick' /\ left' = period
    BY <1>4 DEF TimePasses
  <2>2. Elapsed = period - 1
    BY <1>4 DEF Elapsed
  <2>3. pc \notin {"sent", "landed"}
    <3> SUFFICES ASSUME pc \in {"sent", "landed"}
                 PROVE  FALSE
      OBVIOUS
    <3>1. age = period - 1 /\ age # Latency
      BY <2>2 DEF RoundInv, TimePasses, LoopRuns
    <3> QED
      BY <3>1, Numbers DEF HeartbeatsTypeOK
  <2> QED
    BY <1>1, <1>2, <1>3, <2>1, <2>2, <2>3 DEF Waiting
<1>5. CASE left # 1
  <2>1. ~tick' /\ left' = left - 1
    BY <1>1, <1>5 DEF TimePasses
  <2>2. Elapsed' = Elapsed + 1
    BY <1>3, <2>1, Numbers DEF Elapsed
  <2> QED
    BY <1>1, <1>2, <1>3, <2>1, <2>2
<1> QED
  BY <1>4, <1>5

LEMMA RoundStep ==
  ASSUME HeartbeatsTypeOK, LatencyBound, RoundInv, HeartbeatsNext
  PROVE  RoundInv'
<1>0. pc \in {"beat", "sent", "landed", "select", "leaked", "returned"}
  BY DEF HeartbeatsTypeOK
<1>1. CASE Skip \/ Stopped
  <2>1. pc' \in {"select", "leaked", "returned"} /\ tick' = tick /\ left' = left /\ period' = period
        /\ pc # "returned"
    BY <1>1 DEF Skip, Stopped, AtSelect, clockVars
  <2> QED
    BY <2>1 DEF RoundInv
<1>2. CASE Ticked
  <2>1. pc' = "beat" /\ ~tick' /\ tick /\ left' = left /\ period' = period /\ pc # "returned"
    BY <1>2 DEF Ticked
  <2> QED
    BY <2>1 DEF RoundInv
<1>3. CASE BeatSent
  <2>1. pc = "beat" /\ pc' = "sent" /\ tick' = tick /\ age' = 0 /\ left' = left /\ period' = period
    BY <1>3 DEF BeatSent
  <2>2. ~tick /\ left = period
    BY <2>1 DEF RoundInv
  <2>3. Elapsed' = 0
    BY <2>1, <2>2, Numbers DEF Elapsed
  <2> QED
    BY <2>1, <2>2, <2>3 DEF RoundInv
<1>4. CASE BeatLands
  <2>1. pc = "sent" /\ pc' = "landed" /\ tick' = tick /\ age' = age /\ left' = left /\ period' = period
    BY <1>4 DEF BeatLands
  <2>2. Elapsed' = Elapsed
    BY <2>1 DEF Elapsed
  <2> QED
    BY <2>1, <2>2 DEF RoundInv
<1>5. CASE BeatSucceeds \/ BeatFails
  <2>1. pc \in {"sent", "landed"} /\ pc' \in {"select", "leaked", "returned"} /\ tick' = tick
    BY <1>5 DEF BeatSucceeds, BeatFails, AtSelect, clockVars
  <2> QED
    BY <2>1 DEF RoundInv
<1>6. CASE Close \/ CloseForgets
  <2>1. pc' = pc /\ tick' = tick /\ age' = age /\ left' = left /\ period' = period
    BY <1>6 DEF Close, CloseForgets, clockVars
  <2> QED
    BY <2>1 DEF RoundInv, Elapsed
<1>7. CASE TimePasses /\ pc # "returned"
  <2>1. /\ pc' = pc /\ pc # "beat" /\ period' = period
        /\ IF tick' THEN Waiting /\ left' = period ELSE Elapsed' = Elapsed + 1
    BY <1>7, WaitStep
  <2>2. pc \in {"sent", "landed"} => age' = age + 1 /\ age = Elapsed
    BY <1>7 DEF TimePasses, RoundInv
  <2> QED
    BY <1>7, <2>1, <2>2 DEF RoundInv, Waiting
<1>8. CASE TimePasses /\ pc = "returned"
  BY <1>8 DEF TimePasses, RoundInv
<1> QED
  BY <1>1, <1>2, <1>3, <1>4, <1>5, <1>6, <1>7, <1>8 DEF HeartbeatsNext, LoopStep

LEMMA LandedStep ==
  ASSUME HeartbeatsTypeOK, LatencyBound, RoundInv, LandedInv, HeartbeatsNext
  PROVE  LandedInv'
<1>1. TTL' = TTL /\ TTL \in Nat
  BY TTLType DEF HeartbeatsNext, LoopStep, Skip, BeatSent, BeatLands, BeatSucceeds, BeatFails, Ticked,
                 Stopped, Close, CloseForgets, TimePasses, TTL
<1>2. CASE BeatLands
  <2>1. ttl' = TTL /\ Elapsed' = Elapsed
    BY <1>2 DEF BeatLands, Elapsed
  <2> QED
    BY <1>1, <2>1, Numbers DEF LandedInv
<1>3. CASE Close \/ CloseForgets
  BY <1>1, <1>3 DEF LandedInv, Close, CloseForgets, clockVars, Elapsed
<1>4. CASE TimePasses
  <2> SUFFICES ASSUME pc = "landed"
               PROVE  ttl' >= TTL - Elapsed'
    BY <1>1, <1>4 DEF LandedInv, TimePasses
  <2>1. ttl' \in Nat /\ ttl' >= ttl - 1 /\ Elapsed' = Elapsed + 1
    BY <1>4, WaitStep DEF Waiting
  <2> QED
    BY <1>1, <2>1, Numbers DEF LandedInv
<1>5. CASE pc' # "landed"
  BY <1>5 DEF LandedInv
<1> QED
  BY <1>2, <1>3, <1>4, <1>5
     DEF HeartbeatsNext, LoopStep, Skip, BeatSent, BeatSucceeds, BeatFails, Ticked, Stopped, AtSelect

LEMMA ClientStep ==
  ASSUME HeartbeatsTypeOK, LatencyBound, PeriodInv, RoundInv, LandedInv, ClientInv, HeartbeatsNext
  PROVE  ClientInv'
<1> SUFFICES ASSUME kind = "client", good'
             PROVE  /\ Waiting' /\ ~tick' => FirstRound' \/ SecondRound'
                    /\ pc' = "beat" \/ (Waiting' /\ tick') => FirstTick' \/ SecondTick'
                    /\ pc' = "sent" => (ttl >= Second * (ActiveUserTTL - 2 * Interval) - Elapsed)'
  BY DEF ClientInv, HeartbeatsNext, LoopStep, Skip, BeatSent, BeatLands, BeatSucceeds, BeatFails, Ticked,
         Stopped, Close, CloseForgets, TimePasses
<1>1. /\ Second \in Nat \ {0} /\ ttl \in Nat /\ Elapsed \in Nat /\ period = 10 * Second
      /\ Second * ActiveUserTTL = 30 * Second /\ Second * Interval = 10 * Second
      /\ Second * (ActiveUserTTL - Interval) = 20 * Second
      /\ Second * (ActiveUserTTL - 2 * Interval) = 10 * Second
      /\ since \in Nat /\ SinceSuccess \in Int
  <2>1. SinceSuccess \in Int /\ since \in Nat
    BY HeartbeatsAssumption DEF SinceSuccess, HeartbeatsTypeOK, Interval
  <2> QED
    BY <2>1, Numbers, JitterType, HeartbeatsAssumption DEF PeriodInv, ActiveUserTTL, Interval
<1>2. CASE Skip
  <2>1. /\ pc = "beat" /\ since < Interval /\ good /\ pc' # "beat" /\ pc' # "sent"
        /\ ttl' = ttl /\ tick' = tick /\ since' = since /\ subsec' = subsec
        /\ Elapsed' = Elapsed
    BY <1>2 DEF Skip, Skips, AtSelect, clockVars, Elapsed
  <2>2. ~tick /\ Elapsed = 0 /\ SinceSuccess' = SinceSuccess
    BY <2>1, Numbers DEF RoundInv, Elapsed, SinceSuccess
  <2>3. FirstTick
    BY <1>1, <2>1 DEF ClientInv, SecondTick, Interval
  <2>4. SecondRound'
    BY <1>1, <2>1, <2>2, <2>3 DEF FirstTick, SecondRound
  <2> QED
    BY <2>1, <2>2, <2>4
<1>3. CASE BeatSent
  <2>1. pc = "beat" /\ good /\ pc' = "sent" /\ ttl' = ttl /\ Elapsed' = Elapsed
    BY <1>3 DEF BeatSent, Elapsed
  <2>2. FirstTick \/ SecondTick
    BY <2>1 DEF ClientInv
  <2> QED
    BY <1>1, <2>1, <2>2 DEF FirstTick, SecondTick, Waiting
<1>4. CASE BeatLands
  BY <1>4 DEF BeatLands, Waiting
<1>5. CASE BeatSucceeds
  <2>1. /\ pc = "landed" /\ pc' # "beat" /\ pc' # "sent" /\ tick' = tick
        /\ ttl' = ttl /\ Elapsed' = Elapsed /\ since' = 0 /\ subsec' = subsec
    BY <1>5 DEF BeatSucceeds, AtSelect, Elapsed
  <2>2. ttl >= 30 * Second - Elapsed /\ ~tick /\ Elapsed <= 10 * Second - 1
    BY <2>1, TTLType, Numbers DEF LandedInv, RoundInv
  <2>3. SinceSuccess' >= 0
    BY <2>1, HeartbeatsAssumption DEF SinceSuccess, HeartbeatsTypeOK
  <2>4. SinceSuccess' \in Int
    BY <2>1, HeartbeatsAssumption DEF SinceSuccess, HeartbeatsTypeOK
  <2>5. FirstRound'
    BY <1>1, <2>1, <2>2, <2>3, <2>4 DEF FirstRound
  <2> QED
    BY <2>1, <2>2, <2>5
<1>6. CASE BeatFails
  BY <1>6 DEF BeatFails
<1>7. CASE Ticked
  <2>1. /\ Waiting /\ tick /\ good /\ pc' = "beat" /\ ttl' = ttl /\ since' = since
        /\ SinceSuccess' = SinceSuccess
    BY <1>7 DEF Ticked, SinceSuccess, Waiting
  <2>2. FirstTick \/ SecondTick
    BY <2>1 DEF ClientInv
  <2> QED
    BY <2>1, <2>2 DEF FirstTick, SecondTick, Waiting
<1>8. CASE Stopped
  BY <1>8 DEF Stopped, Waiting
<1>9. CASE Close \/ CloseForgets
  <2>1. /\ pc' = pc /\ good /\ tick' = tick /\ ttl' = ttl /\ since' = since
        /\ SinceSuccess' = SinceSuccess /\ Elapsed' = Elapsed
    BY <1>9 DEF Close, CloseForgets, clockVars, SinceSuccess, Elapsed
  <2> QED
    BY <2>1 DEF ClientInv, FirstRound, SecondRound, FirstTick, SecondTick, Waiting
<1>10. CASE TimePasses /\ pc # "returned"
  <2>1. /\ pc' = pc /\ good /\ pc # "beat" /\ ~tick
        /\ ttl' \in Nat /\ ttl' >= ttl - 1
        /\ IF tick' THEN Waiting /\ Elapsed = period - 1 ELSE Elapsed' = Elapsed + 1
    BY <1>10, WaitStep
  <2>2. /\ since >= Interval => since' >= Interval
        /\ since' >= Interval \/ SinceSuccess' = SinceSuccess + 1
    BY <1>10, ClockStep
  <2>3. CASE tick'
    <3>1. Elapsed = 10 * Second - 1 /\ (FirstRound \/ SecondRound)
      BY <1>1, <2>1, <2>3 DEF ClientInv
    <3>2. CASE FirstRound
      <4>1. FirstTick'
        BY <1>1, <2>1, <2>2, <3>1, <3>2 DEF FirstRound, FirstTick
      <4> QED
        BY <2>1, <2>3, <4>1 DEF Waiting
    <3>3. CASE SecondRound
      <4>1. since >= Interval
        BY <1>1, <3>1, <3>3, TenSeconds DEF SecondRound
      <4>2. SecondTick'
        BY <1>1, <2>1, <2>2, <3>1, <3>3, <4>1 DEF SecondRound, SecondTick
      <4> QED
        BY <2>1, <2>3, <4>2 DEF Waiting
    <3> QED
      BY <3>1, <3>2, <3>3
  <2>4. CASE ~tick' /\ Waiting
    <3>1. FirstRound \/ SecondRound
      BY <2>1, <2>4 DEF ClientInv
    <3>2. Elapsed' = Elapsed + 1
      BY <2>1, <2>4
    <3>3. FirstRound => FirstRound'
      BY <1>1, <2>1, <2>2, <3>2 DEF FirstRound
    <3>4. SecondRound => SecondRound'
      BY <1>1, <2>1, <2>2, <3>2 DEF SecondRound
    <3> QED
      BY <2>1, <2>4, <3>1, <3>3, <3>4 DEF Waiting
  <2>5. CASE ~tick' /\ pc = "sent"
    BY <1>1, <2>1, <2>5 DEF ClientInv, Waiting
  <2> QED
    BY <2>1, <2>3, <2>4, <2>5 DEF Waiting
<1>11. CASE TimePasses /\ pc = "returned"
  BY <1>11 DEF TimePasses, Waiting
<1> QED
  BY <1>2, <1>3, <1>4, <1>5, <1>6, <1>7, <1>8, <1>9, <1>10, <1>11 DEF HeartbeatsNext, LoopStep

LEMMA HeartStep ==
  ASSUME HeartbeatsTypeOK, LatencyBound, PeriodInv, RoundInv, LandedInv, HeartInv, HeartbeatsNext
  PROVE  HeartInv'
<1> DEFINE all == Second * HeartBeatTTL
<1> SUFFICES ASSUME kind = "heart", good'
             PROVE  /\ Waiting' /\ ~tick' => ttl' >= all - Elapsed'
                    /\ pc' = "beat" \/ (Waiting' /\ tick') => ttl' >= all - period'
                    /\ pc' = "sent" => ttl' >= all - period' - Elapsed'
  BY DEF HeartInv, HeartbeatsNext, LoopStep, Skip, BeatSent, BeatLands, BeatSucceeds, BeatFails, Ticked,
         Stopped, Close, CloseForgets, TimePasses
<1>1. /\ all \in Nat /\ ttl \in Nat /\ Elapsed \in Nat /\ period \in Nat
      /\ TTL = all
  BY Numbers, HeartbeatsAssumption DEF HeartBeatTTL, TTL
<1> HIDE DEF all
<1>2. HeartInv => /\ good /\ Waiting /\ ~tick => ttl >= all - Elapsed
                  /\ good /\ (pc = "beat" \/ (Waiting /\ tick)) => ttl >= all - period
                  /\ good /\ pc = "sent" => ttl >= all - period - Elapsed
  BY DEF HeartInv, all
<1>3. CASE Skip \/ BeatFails \/ BeatLands \/ Stopped
  BY <1>3 DEF Skip, Skips, BeatFails, BeatLands, Stopped, Waiting
<1>4. CASE BeatSent
  <2>1. pc = "beat" /\ good /\ pc' = "sent" /\ ttl' = ttl /\ Elapsed' = Elapsed /\ period' = period
    BY <1>4 DEF BeatSent, Elapsed
  <2> QED
    BY <1>1, <1>2, <2>1 DEF Waiting
<1>5. CASE BeatSucceeds
  <2>1. pc = "landed" /\ pc' # "beat" /\ pc' # "sent" /\ ttl' = ttl /\ Elapsed' = Elapsed /\ tick' = tick
    BY <1>5 DEF BeatSucceeds, AtSelect, Elapsed
  <2>2. ttl >= all - Elapsed /\ ~tick
    BY <1>1, <2>1 DEF LandedInv, RoundInv
  <2> QED
    BY <2>1, <2>2
<1>6. CASE Ticked
  <2>1. Waiting /\ tick /\ good /\ pc' = "beat" /\ ttl' = ttl /\ period' = period
    BY <1>6 DEF Ticked, Waiting
  <2> QED
    BY <1>2, <2>1 DEF Waiting
<1>7. CASE Close \/ CloseForgets
  <2>1. /\ pc' = pc /\ good /\ tick' = tick /\ ttl' = ttl /\ period' = period /\ Elapsed' = Elapsed
    BY <1>7 DEF Close, CloseForgets, clockVars, Elapsed
  <2> QED
    BY <1>2, <2>1 DEF Waiting
<1>8. CASE TimePasses /\ pc # "returned"
  <2>1. /\ pc' = pc /\ good /\ pc # "beat" /\ ~tick /\ period' = period
        /\ ttl' \in Nat /\ ttl' >= ttl - 1
        /\ IF tick' THEN Waiting /\ Elapsed = period - 1 ELSE Elapsed' = Elapsed + 1
    BY <1>8, WaitStep
  <2>2. CASE tick'
    BY <1>1, <1>2, <2>1, <2>2 DEF Waiting
  <2>3. CASE ~tick'
    BY <1>1, <1>2, <2>1, <2>3 DEF Waiting
  <2> QED
    BY <2>2, <2>3
<1>9. CASE TimePasses /\ pc = "returned"
  BY <1>9 DEF TimePasses, Waiting
<1> QED
  BY <1>3, <1>4, <1>5, <1>6, <1>7, <1>8, <1>9 DEF HeartbeatsNext, LoopStep

LEMMA KeptInvHolds == LatencyBound /\ HeartbeatsSafety => []KeptInv
<1> SUFFICES ASSUME LatencyBound
             PROVE  HeartbeatsSafety => []KeptInv
  OBVIOUS
<1>1. HeartbeatsInit => KeptInv
  <2> SUFFICES ASSUME HeartbeatsInit
               PROVE  KeptInv
    OBVIOUS
  <2>1. PeriodInv
    BY HeartbeatsAssumption, JitterType DEF HeartbeatsInit, PeriodInv
  <2> QED
    BY <2>1 DEF HeartbeatsInit, KeptInv, RoundInv, LandedInv, ClientInv, HeartInv
<1>2. HeartbeatsTypeOK /\ KeptInv /\ [HeartbeatsNext]_beatVars => KeptInv'
  <2> SUFFICES ASSUME HeartbeatsTypeOK, KeptInv, [HeartbeatsNext]_beatVars
               PROVE  KeptInv'
    OBVIOUS
  <2>1. CASE HeartbeatsNext
    BY <2>1, PeriodStep, RoundStep, LandedStep, ClientStep, HeartStep DEF KeptInv
  <2>2. CASE UNCHANGED beatVars
    BY <2>2 DEF beatVars, clockVars, KeptInv, PeriodInv, RoundInv, LandedInv, TTL, Elapsed, ClientInv,
                HeartInv, FirstRound, SecondRound, FirstTick, SecondTick, SinceSuccess, Waiting
  <2> QED
    BY <2>1, <2>2
<1> QED
  BY <1>1, <1>2, HeartbeatsTypes, PTL DEF HeartbeatsSafety

\* While no call lasts longer than LatencyBound allows, a loop whose last beat
\* succeeded has a record, at every moment up to the answer to its next beat:
\* with the 30 seconds of the gateway although maybeHeartbeat leaves out beats
\* (client.go:159-167), and with the 20 of a heart although its ticker is up to
\* a second late (heartbeat.go:80).
THEOREM RecordsAreKept == LatencyBound /\ HeartbeatsSafety => []RecordKept
<1> SUFFICES ASSUME LatencyBound
             PROVE  HeartbeatsSafety => []RecordKept
  OBVIOUS
<1>1. HeartbeatsTypeOK /\ KeptInv => RecordKept
  <2> SUFFICES ASSUME HeartbeatsTypeOK, KeptInv, good, pc # "returned"
               PROVE  ttl > 0
    BY DEF RecordKept
  <2>1. /\ Second \in Nat \ {0} /\ ttl \in Nat /\ Elapsed \in Nat /\ Elapsed <= period - 1
        /\ period \in Nat /\ period <= 11 * Second - 1
        /\ Second * ActiveUserTTL = 30 * Second /\ Second * HeartBeatTTL = 20 * Second
        /\ Second * Interval = 10 * Second
        /\ Second * (ActiveUserTTL - Interval) = 20 * Second
        /\ Second * (ActiveUserTTL - 2 * Interval) = 10 * Second
    BY Numbers, HeartbeatsAssumption DEF ActiveUserTTL, HeartBeatTTL, Interval
  <2>2. CASE pc = "landed"
    BY <2>1, <2>2, TTLType DEF KeptInv, LandedInv
  <2>3. CASE pc = "sent"
    <3>1. Elapsed <= Latency
      BY <2>3, Numbers DEF KeptInv, RoundInv
    <3>2. CASE kind = "client"
      BY <2>1, <2>3, <3>1, <3>2, Numbers DEF KeptInv, ClientInv
    <3>3. CASE kind = "heart"
      BY <2>1, <2>3, <3>1, <3>3, Numbers DEF KeptInv, HeartInv
    <3> QED
      BY <3>2, <3>3 DEF HeartbeatsTypeOK
  <2>4. CASE pc = "beat" \/ Waiting
    <3>1. CASE kind = "client"
      <4>1. Elapsed <= 10 * Second - 1
        BY <2>1, <3>1, Numbers, JitterType DEF KeptInv, PeriodInv
      <4>2. FirstRound \/ SecondRound \/ FirstTick \/ SecondTick
        BY <2>4, <3>1 DEF KeptInv, ClientInv
      <4> QED
        BY <2>1, <4>1, <4>2 DEF FirstRound, SecondRound, FirstTick, SecondTick
    <3>2. CASE kind = "heart"
      <4>1. ttl >= 20 * Second - Elapsed \/ ttl >= 20 * Second - period
        BY <2>1, <2>4, <3>2 DEF KeptInv, HeartInv
      <4> QED
        BY <2>1, <4>1
    <3> QED
      BY <3>1, <3>2 DEF HeartbeatsTypeOK
  <2> QED
    BY <2>2, <2>3, <2>4 DEF HeartbeatsTypeOK, Waiting
<1> QED
  BY <1>1, KeptInvHolds, HeartbeatsTypes, PTL
=============================================================================
