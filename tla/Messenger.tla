----------------------------- MODULE Messenger -----------------------------
(***************************************************************************)
(* What a sender can rely on: a message is given to its recipient at most  *)
(* once and to nobody else; a sender who is told that it was accepted may  *)
(* be sure that it was given, one who is told that it was not may send it  *)
(* again, and one who is told nothing knows nothing.                       *)
(***************************************************************************)
CONSTANTS Message, User, NoUser

VARIABLES
  to,     \* the recipient of a message that has been sent
  given,  \* who it has been given to
  told    \* what its sender has been told

messengerVars == <<to, given, told>>

MessengerInit == /\ to = [m \in Message |-> NoUser]
                 /\ given = [m \in Message |-> NoUser]
                 /\ told = [m \in Message |-> "nothing"]

SendTo(m, u) == /\ to[m] = NoUser
                /\ told[m] = "nothing"
                /\ to' = [to EXCEPT ![m] = u]
                /\ UNCHANGED <<given, told>>

Give(m) == /\ to[m] # NoUser
           /\ given[m] = NoUser
           /\ told[m] = "nothing"
           /\ given' = [given EXCEPT ![m] = to[m]]
           /\ UNCHANGED <<to, told>>

Tell(m) == /\ to[m] # NoUser
           /\ told[m] = "nothing"
           /\ told' = [told EXCEPT ![m] = IF given[m] = to[m] THEN "accepted" ELSE "refused"]
           /\ UNCHANGED <<to, given>>

\* Refused before anybody has looked who it is for.
TurnDown(m) == /\ to[m] = NoUser
               /\ told[m] = "nothing"
               /\ told' = [told EXCEPT ![m] = "refused"]
               /\ UNCHANGED <<to, given>>

MessengerNext == \E m \in Message : \/ \E u \in User : SendTo(m, u)
                                    \/ Give(m)
                                    \/ Tell(m)
                                    \/ TurnDown(m)

MessengerSpec == MessengerInit /\ [][MessengerNext]_messengerVars
=============================================================================
