----------------------------- MODULE Directory -----------------------------
(***************************************************************************)
(* What the membership of event servers promises, without leases, retries  *)
(* or messages: every run of a server is a member of the cluster for one   *)
(* interval of its life, only a member can be listed under its ID, and the *)
(* listing of a member disappears at the moment it stops being one.        *)
(* Leaving is acknowledged only to a run that is out for good.             *)
(***************************************************************************)
CONSTANTS Proc, ServerID, IDOf, NoProc

VARIABLES
  stage,   \* "before", "member", "after"
  entry,   \* the run listed under each server ID
  acked    \* runs that were told that they have left

dirVars == <<stage, entry, acked>>

DirInit == /\ stage = [p \in Proc |-> "before"]
           /\ entry = [s \in ServerID |-> NoProc]
           /\ acked = {}

DirEnter(p) == /\ stage[p] = "before"
               /\ stage' = [stage EXCEPT ![p] = "member"]
               /\ UNCHANGED <<entry, acked>>

DirList(p) == /\ stage[p] = "member"
              /\ entry' = [entry EXCEPT ![IDOf[p]] = p]
              /\ UNCHANGED <<stage, acked>>

DirDepart(p) == /\ stage[p] = "member"
                /\ stage' = [stage EXCEPT ![p] = "after"]
                /\ entry' = [s \in ServerID |-> IF entry[s] = p THEN NoProc ELSE entry[s]]
                /\ UNCHANGED acked

DirAck(p) == /\ stage[p] = "after"
             /\ acked' = acked \cup {p}
             /\ UNCHANGED <<stage, entry>>

DirNext == \E p \in Proc : DirEnter(p) \/ DirList(p) \/ DirDepart(p) \/ DirAck(p)

DirSpec == DirInit /\ [][DirNext]_dirVars
=============================================================================
