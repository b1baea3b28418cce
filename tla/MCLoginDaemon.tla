----------------------------- MODULE MCLoginDaemon -----------------------------
(* LoginDaemon with two people. *)
EXTENDS LoginDaemon, TLC

CONSTANTS ada, bob

Both == {ada, bob}
Ada == {ada}
=============================================================================
