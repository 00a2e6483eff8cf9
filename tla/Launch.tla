------------------------------- MODULE Launch -------------------------------
(***************************************************************************)
(* What the two server programs (cmd/eventserver, cmd/gateway) share:      *)
(*   pkg/config/load.go, pkg/logger   before anything else                 *)
(*   pkg/launch/launch.go             WaitForInterrupt runs the Start      *)
(* function of the server and ends, and with it the process, when Start    *)
(* has returned or 15 seconds after an interrupt.                          *)
(***************************************************************************)
VARIABLES
  launch,     \* where main and WaitForInterrupt are
  requested,  \* the closeCh given to Start (p.CloseCh) is closed
  config      \* the part of the configuration that decides how Start ends

launchVars == <<launch, requested, config>>

\* What the fields of a file that parses may hold.  For serverID, the event
\* server's, "empty" stands for none, for dbType, the gateway's, too.
AuthTypes == {"noop", "jwtRSA", "other"}
EventServerConfiguration == [auth : AuthTypes, serverID : {"given", "empty"}]
GatewayConfiguration == [auth : AuthTypes, dbType : {"mysql", "empty", "other"}]
NoConfiguration == [auth |-> "other"]

LaunchTypeOK == /\ launch \in {"load", "logger", "wait", "closing", "exited"}
                /\ requested \in BOOLEAN
                /\ config \in {NoConfiguration} \cup EventServerConfiguration
                                \cup GatewayConfiguration

LaunchInit == /\ launch = "load"
              /\ requested = FALSE
              /\ config = NoConfiguration

Running == launch \notin {"load", "logger", "exited"}

Load(Configuration) == /\ launch = "load"
                       /\ config' \in Configuration
                       /\ launch' = "logger"
                       /\ UNCHANGED requested

\* main goes on to WaitForInterrupt and, in its goroutine, Start.
LoggerBuilt == /\ launch = "logger"
               /\ launch' = "wait"
               /\ UNCHANGED <<requested, config>>

\* The file or the level does not parse, and main returns; or it is killed by
\* an interrupt it does not listen for yet.
LoadFails == /\ launch \in {"load", "logger"}
             /\ launch' = "exited"
             /\ UNCHANGED <<requested, config>>

Interrupt == /\ launch = "wait"
             /\ launch' = "closing"
             /\ requested' = TRUE
             /\ UNCHANGED config

\* errCh: Start has returned, in either select
LaunchReturns(returned) == /\ Running
                           /\ returned
                           /\ launch' = "exited"
                           /\ UNCHANGED <<requested, config>>

\* Seeded fault: the second select has no time limit.
FaultNoTimer == launch = "exited" /\ UNCHANGED launchVars

\* time.After(15 * time.Second)
LaunchTimesOut == /\ launch = "closing"
                  /\ launch' = "exited"
                  /\ UNCHANGED <<requested, config>>
=============================================================================
