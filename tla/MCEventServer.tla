--------------------------- MODULE MCEventServer ---------------------------
(* Streams of two users to two servers: a1 and a2 are the same user at the  *)
(* same server (a reconnect), a3 the same user at the other server (a move) *)
(* and b1 another user.  Stream is a subset of these four.                  *)
EXTENDS EventServer

CONSTANTS a1, a2, a3, b1, ua, ub, s1, s2

MCUserOf == [c \in Stream |-> IF c = b1 THEN ub ELSE ua]
MCServerOf == [c \in Stream |-> IF c = a3 THEN s2 ELSE s1]
=============================================================================
