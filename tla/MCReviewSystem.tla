--------------------------- MODULE MCReviewSystem ---------------------------
(***************************************************************************)
(* Instance of ReviewSystem for TLC.                                       *)
(***************************************************************************)
EXTENDS ReviewSystem, TLC

Symmetry == Permutations(Reviews) \cup Permutations(JobRuns) \cup Permutations(Servers)
=============================================================================
