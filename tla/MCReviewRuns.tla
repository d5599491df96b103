---------------------------- MODULE MCReviewRuns ----------------------------
(***************************************************************************)
(* Instance of ReviewRuns for TLC.                                         *)
(***************************************************************************)
EXTENDS ReviewRuns, TLC

Symmetry == Permutations(JobRuns) \cup Permutations(Reviews)
=============================================================================
