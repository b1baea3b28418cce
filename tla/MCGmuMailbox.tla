---------------------------- MODULE MCGmuMailbox ----------------------------
(* GmuMailbox for TLC.  The queue is short: a message of the boot left in it and
   another one fill it to the last dword, or past it. *)
EXTENDS GmuMailbox, TLC

MCDwords == [perf |-> 7, bw |-> 10, core |-> 2, start |-> 1, vote |-> 4, slumber |-> 3]
=============================================================================
