---------------------------- MODULE MCSessionChain ----------------------------
(* SessionChain with two crashes of the lock screen survived. *)
EXTENDS SessionChain, TLC
=============================================================================
