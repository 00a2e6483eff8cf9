------------------------------ MODULE Replica ------------------------------
(***************************************************************************)
(* What a server registry promises: a copy of a versioned map that is      *)
(* loaded once, whole, and then moves forward one version at a time.  It   *)
(* may lag behind and it may stop for good, but it never shows a mixture   *)
(* of versions, never skips one and never goes back.                       *)
(***************************************************************************)
EXTENDS Naturals, Sequences

CONSTANTS Reader, Key, Value, Absent

VARIABLES
  versions,   \* every version of the map, oldest first
  seen,       \* the version each reader shows; 0 before it has loaded one
  copy        \* what each reader shows

replicaVars == <<versions, seen, copy>>

ReplicaInit == /\ versions = <<[k \in Key |-> Absent]>>
               /\ seen = [r \in Reader |-> 0]
               /\ copy = [r \in Reader |-> [k \in Key |-> Absent]]

ReplicaWrite == /\ \E m \in [Key -> Value \cup {Absent}] : versions' = Append(versions, m)
                /\ UNCHANGED <<seen, copy>>

Show(r, i) == /\ seen' = [seen EXCEPT ![r] = i]
              /\ copy' = [copy EXCEPT ![r] = versions[i]]
              /\ UNCHANGED versions

ReplicaLoad(r) == seen[r] = 0 /\ Show(r, Len(versions))

ReplicaAdvance(r) == /\ seen[r] # 0
                     /\ seen[r] < Len(versions)
                     /\ Show(r, seen[r] + 1)

ReplicaNext == ReplicaWrite \/ \E r \in Reader : ReplicaLoad(r) \/ ReplicaAdvance(r)

ReplicaSpec == ReplicaInit /\ [][ReplicaNext]_replicaVars
=============================================================================
