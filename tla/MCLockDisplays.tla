---------------------------- MODULE MCLockDisplays ----------------------------
(* LockDisplays with model values for the clients and the outputs. *)
EXTENDS LockDisplays, TLC

CONSTANTS c1, c2, o1, o2

TwoClients == {c1, c2}
TwoOutputs == {o1, o2}
=============================================================================
