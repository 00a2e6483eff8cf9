----------------------------- MODULE MCDelivery -----------------------------
(* A message to one of two users, next to the streams of MCEventServer: a1  *)
(* and a2 are the same user at the same server (a reconnect), a3 the same   *)
(* user at the other server (a move), b1 another user.                      *)
EXTENDS Delivery

CONSTANTS a1, a2, a3, b1, ua, ub, s1, s2, m1

MCUserOf == [c \in Stream |-> IF c = b1 THEN ub ELSE ua]
MCServerOf == [c \in Stream |-> IF c = a3 THEN s2 ELSE s1]
=============================================================================
