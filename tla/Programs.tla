------------------------------ MODULE Programs ------------------------------
(***************************************************************************)
(* One run of a server program: cmd/eventserver or cmd/gateway, whichever  *)
(* main comes to its Start.  The other program's state stays as it was.    *)
(***************************************************************************)
EXTENDS ServerStart, GatewayStart

programVars == <<startVars, gatewayVars>>

serverOwn == <<main, services, bound, chanVars, world, stopped, result>>
gatewayOwn == <<stage, servicesVars, httpVars, outcome>>

ProgramsInit == StartInit /\ GatewayInit

ProgramsNext == \/ StartNext /\ UNCHANGED gatewayOwn
                \/ GatewayNext /\ UNCHANGED serverOwn

ProgramsSpec == /\ ProgramsInit
                /\ [][ProgramsNext]_programVars
                /\ StartFairness
                /\ GatewayFairness
-----------------------------------------------------------------------------
\* The states of both programs, each with the configuration it has loaded.
ProgramsTypeOK == StartTypeOK /\ GatewayTypeOK
=============================================================================
