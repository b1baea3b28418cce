----------------------------- MODULE MCJailDaemon -----------------------------
(* JailDaemon with two files of different names. *)
EXTENDS JailDaemon, TLC

CONSTANTS notes, photo

TwoFiles == {notes, photo}
OwnNames == [f \in TwoFiles |-> f]
=============================================================================
