---------------------------- MODULE MCSupervisor ----------------------------
(* Supervisor on two components, the second needing the compositor's socket *)
(* and the first's: the shape of the session's plan (bus, then bridge).     *)
EXTENDS Supervisor, TLC

MCRequires == (1 :> <<0>>) @@ (2 :> <<0, 1>>)
MCOneRequires == 1 :> <<0>>
=============================================================================
