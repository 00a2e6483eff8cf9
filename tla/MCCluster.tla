----------------------------- MODULE MCCluster -----------------------------
(* One event server, possibly restarted, under one ID, and its gateways. *)
EXTENDS Cluster

CONSTANT s1

MCServerID == {s1}
MCIDOf == [p \in Proc |-> s1]
=============================================================================
