---------------------------- MODULE MessageLife ----------------------------
(***************************************************************************)
(* What the upload path promises about each message, without the queues,   *)
(* threads and connections it is made of: a message is taken over by the   *)
(* gateway, held for as long as anything in it can still send the message, *)
(* and ends up received by the broker or lost.  Both are final.            *)
(***************************************************************************)
EXTENDS Naturals

CONSTANT MaxMessages   \* bound: messages ever published

VARIABLE status        \* per message: how far it has got

Messages == 1 .. MaxMessages

Init == status = [m \in Messages |-> "new"]

\* Messages are taken over in the order of their numbers.
Take(m) ==
  /\ status[m] = "new"
  /\ \A k \in Messages : k < m => status[k] # "new"
  /\ status' = [status EXCEPT ![m] = "held"]

Arrive(m) ==
  /\ status[m] = "held"
  /\ status' = [status EXCEPT ![m] = "received"]

\* One event may take several messages along.
Lose(gone) ==
  /\ gone # {}
  /\ \A m \in gone : status[m] = "held"
  /\ status' = [m \in Messages |-> IF m \in gone THEN "lost" ELSE status[m]]

Next ==
  \/ \E m \in Messages : Take(m) \/ Arrive(m)
  \/ \E gone \in SUBSET Messages : Lose(gone)

Spec == Init /\ [][Next]_status

=============================================================================
