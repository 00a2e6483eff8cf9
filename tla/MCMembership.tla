---------------------------- MODULE MCMembership ----------------------------
(* All runs are configured with the same server ID: a server and its       *)
(* restarted self, or two servers deployed under one ID by mistake.        *)
EXTENDS Membership

CONSTANT s1

MCServerID == {s1}
MCIDOf == [p \in Proc |-> s1]
=============================================================================
