-------------------------- MODULE MCServerRegistry --------------------------
(* Three runs: two of server s1 and one of s2, so that a key is created,    *)
(* overwritten, deleted and created again while others change.             *)
EXTENDS ServerRegistry

CONSTANTS p1, p2, q1, s1, s2

MCProc == {p1, p2, q1}
MCServerID == {s1, s2}
MCIDOf == [p \in MCProc |-> IF p = q1 THEN s2 ELSE s1]
=============================================================================
