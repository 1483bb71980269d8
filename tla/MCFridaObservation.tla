------------------------ MODULE MCFridaObservation -------------------------
(***************************************************************************)
(* FridaObservation for TLC.                                               *)
(***************************************************************************)
EXTENDS FridaObservation, TLC

Symmetry == Permutations(Sessions)
=============================================================================
