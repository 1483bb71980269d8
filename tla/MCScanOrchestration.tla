------------------------ MODULE MCScanOrchestration ------------------------
(***************************************************************************)
(* ScanOrchestration for TLC.                                              *)
(***************************************************************************)
EXTENDS ScanOrchestration, TLC

Symmetry == Permutations(Sessions) \cup Permutations(Threads)
=============================================================================
