---------------------------- MODULE MCGemObject ----------------------------
(* GemObject for TLC: two objects, two submits. *)
EXTENDS GemObject, TLC

CONSTANTS o1, o2, j1, j2

BothAndOne == j1 :> {o1, o2} @@ j2 :> {o1}
=============================================================================
