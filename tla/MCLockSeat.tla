------------------------------ MODULE MCLockSeat ------------------------------
(* LockSeat with model values for the clients, the outputs and the places. *)
EXTENDS LockSeat, TLC

CONSTANTS c1, c2, o1, o2

TwoClients == {c1, c2}
TwoOutputs == {o1, o2}
=============================================================================
