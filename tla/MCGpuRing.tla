----------------------------- MODULE MCGpuRing -----------------------------
(* GpuRing for TLC; its bounds are in the configurations: two jobs, one of which
   may hang, one fault of the GMU or the SMMU, one other holding the power. *)
EXTENDS GpuRing, TLC

=============================================================================
