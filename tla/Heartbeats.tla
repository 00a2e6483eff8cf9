----------------------------- MODULE Heartbeats -----------------------------
(***************************************************************************)
(* The two loops that keep a record in Redis alive, against the clock:     *)
(*   gateway/client/client.go:142-197            the client's, over HTTP   *)
(*   pkg/eventserver/rtconn/heartbeat.go:79-96   the heart's               *)
(* A behaviour is one run of one of them, with what Redis keeps of it.     *)
(* Time passes in units, Second of them to a second, and only while no     *)
(* goroutine can run: a delay of the scheduler counts as latency.          *)
(***************************************************************************)
EXTENDS Naturals

CONSTANTS Second,         \* units
          ClientLatency,  \* the longest a POST of a heartbeat takes, in units
          HeartLatency    \* the longest a SET of a heart takes, in units

ASSUME HeartbeatsAssumption == /\ Second \in Nat \ {0}
                               /\ ClientLatency \in Nat
                               /\ HeartLatency \in Nat

VARIABLES
  kind,    \* whose loop it is
  pc,      \* where it is; "leaked": in a select on a stopCh that is nil
  period,  \* of its ticker
  left,    \* units until the ticker fires next
  tick,    \* ticker.C, a buffer of one, is full
  subsec,  \* units of the current second that have passed
  since,   \* time.Now().Unix() - lastRequestAt, no longer counted at Interval + 1
  age,     \* units the call of a beat has taken
  ttl,     \* units the record has left; 0: there is none
  good,    \* the last beat that is over was a success
  field,   \* stopCh of the struct
  closed   \* the channel is closed

clockVars == <<left, tick, subsec, since, age, ttl>>
stopVars == <<field, closed>>
beatVars == <<kind, pc, period, clockVars, good, stopVars>>

Interval == 10      \* heartBeatInterval of both, in seconds

\* activeUserTTL; seeded fault: the heart's.
FaultActiveUserTTL == 20
ActiveUserTTL == 30

HeartBeatTTL == 20

TTL == Second * (IF kind = "client" THEN ActiveUserTTL ELSE HeartBeatTTL)
Latency == IF kind = "client" THEN ClientLatency ELSE HeartLatency

\* Seeded fault: the jitter is drawn from the interval, not from its tenth.
FaultJitter == 0 .. Second * Interval - 1

\* rand.Intn(int(duration) / 10)
Jitter == 0 .. (Second * Interval) \div 10 - 1

HeartbeatsTypeOK ==
  /\ kind \in {"client", "heart"}
  /\ pc \in {"beat", "sent", "landed", "select", "leaked", "returned"}
  /\ period \in Second * Interval .. Second * (Interval + 1) - 1
  /\ left \in 1 .. period
  /\ tick \in BOOLEAN
  /\ subsec \in 0 .. Second - 1
  /\ since \in 0 .. Interval + 1
  /\ age \in 0 .. Latency
  /\ ttl \in 0 .. TTL
  /\ good \in BOOLEAN
  /\ field \in {"stopCh", "nil"}
  /\ closed \in BOOLEAN

\* time.NewTicker; lastRequestAt is zero.
HeartbeatsInit ==
  /\ kind \in {"client", "heart"}
  /\ pc = "beat"
  /\ period \in {Second * Interval + j : j \in IF kind = "heart" THEN Jitter ELSE {0}}
  /\ left = period
  /\ tick = FALSE
  /\ subsec \in 0 .. Second - 1
  /\ since = Interval + 1
  /\ age = 0
  /\ ttl = 0
  /\ good = FALSE
  /\ field = "stopCh"
  /\ closed = FALSE
-----------------------------------------------------------------------------
(* The loop *)

\* The channel of the next select, read from the struct by the client's loop
\* (while Close may write it) and from an argument by the heart's.
AtSelect == IF kind = "client" /\ field = "nil" THEN "leaked" ELSE "select"

\* maybeHeartbeat, in whole seconds on both sides
Skips == kind = "client" /\ since < Interval

Skip == /\ pc = "beat"
        /\ Skips
        /\ pc' = AtSelect
        /\ UNCHANGED <<kind, period, clockVars, good, stopVars>>

BeatSent == /\ pc = "beat"
            /\ ~Skips
            /\ pc' = "sent"
            /\ age' = 0
            /\ UNCHANGED <<kind, period, left, tick, subsec, since, ttl, good, stopVars>>

\* Redis executes the SET.
BeatLands == /\ pc = "sent"
             /\ pc' = "landed"
             /\ ttl' = TTL
             /\ UNCHANGED <<kind, period, left, tick, subsec, since, age, good, stopVars>>

\* markAsActive, in the client's loop
BeatSucceeds == /\ pc = "landed"
                /\ pc' = AtSelect
                /\ good' = TRUE
                /\ since' = IF kind = "client" THEN 0 ELSE since
                /\ UNCHANGED <<kind, period, left, tick, subsec, age, ttl, stopVars>>

\* An error, or a status other than 200: the client tries again with the next
\* tick, the heart gives up.
BeatFails == /\ pc \in {"sent", "landed"}
             /\ pc' = IF kind = "client" THEN AtSelect ELSE "returned"
             /\ good' = FALSE
             /\ UNCHANGED <<kind, period, clockVars, stopVars>>

\* The select: either of its channels, if both are ready.
Ticked == /\ pc \in {"select", "leaked"}
          /\ tick
          /\ tick' = FALSE
          /\ pc' = "beat"
          /\ UNCHANGED <<kind, period, left, subsec, since, age, ttl, good, stopVars>>

Stopped == /\ pc = "select"
           /\ closed
           /\ pc' = "returned"
           /\ UNCHANGED <<kind, period, clockVars, good, stopVars>>
-----------------------------------------------------------------------------
(* Close of the client, StopForUser of the heart, the clock *)

\* Seeded fault: the channel is dropped, not closed.
FaultCloseDrops == /\ ~closed
                   /\ field = "stopCh"
                   /\ field' = "nil"
                   /\ UNCHANGED <<kind, pc, period, clockVars, good, closed>>

\* close(stopCh)
Close == /\ ~closed
         /\ closed' = TRUE
         /\ UNCHANGED <<kind, pc, period, clockVars, good, field>>

\* c.stopCh = nil: the second line of the client's Close, which shares no lock
\* with the loop
CloseForgets == /\ kind = "client"
                /\ closed
                /\ field = "stopCh"
                /\ field' = "nil"
                /\ UNCHANGED <<kind, pc, period, clockVars, good, closed>>

LoopRuns == \/ pc = "beat"
            \/ pc \in {"sent", "landed"} /\ age = Latency
            \/ pc \in {"select", "leaked"} /\ tick
            \/ pc = "select" /\ closed

\* The ticker drops a tick that does not fit into its buffer.
TimePasses ==
  /\ ~LoopRuns
  /\ left' = IF left = 1 THEN period ELSE left - 1
  /\ tick' = (tick \/ left = 1)
  /\ subsec' = (subsec + 1) % Second
  /\ since' = IF subsec' = 0 /\ since <= Interval THEN since + 1 ELSE since
  /\ age' = IF pc \in {"sent", "landed"} THEN age + 1 ELSE age
  /\ ttl' = IF ttl = 0 THEN 0 ELSE ttl - 1
  /\ UNCHANGED <<kind, pc, period, good, stopVars>>
-----------------------------------------------------------------------------
LoopStep == \/ Skip
            \/ BeatSent
            \/ BeatLands
            \/ BeatSucceeds
            \/ BeatFails
            \/ Ticked
            \/ Stopped

HeartbeatsNext == LoopStep \/ Close \/ CloseForgets \/ TimePasses

HeartbeatsSafety == HeartbeatsInit /\ [][HeartbeatsNext]_beatVars

\* Go schedules the loop.
HeartbeatsSpec == HeartbeatsSafety /\ WF_beatVars(LoopStep)
-----------------------------------------------------------------------------
\* A record outlives every wait of its loop for the next beat, however late the
\* beat lands: a user whose heartbeats succeed is listed without a gap, although
\* the client's loop compares whole seconds and so leaves out every other beat
\* whose POST goes over a second's boundary; and a connected user keeps the
\* record of its heart (module EventServer: Kept) whatever the jitter.
RecordKept == good /\ pc # "returned" => ttl > 0

\* Close ends a loop it finds waiting.  (One that beats, or has a tick to
\* take, may read the forgotten channel next, and then nothing ends it.)
CloseEndsWaiting == /\ pc = "select"
                    /\ ~tick
                    /\ closed \/ field = "nil"
                    ~> pc = "returned"
=============================================================================
