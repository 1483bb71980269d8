------------------------- MODULE MCCaptureWorkflow -------------------------
(***************************************************************************)
(* CaptureWorkflow for TLC.                                                *)
(***************************************************************************)
EXTENDS CaptureWorkflow, TLC

Symmetry == Permutations(Sessions) \cup Permutations(Actors) \cup Permutations(Ports)
=============================================================================
