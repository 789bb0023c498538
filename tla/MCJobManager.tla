----------------------------- MODULE MCJobManager -----------------------------
(***************************************************************************)
(* Instances of JobManager for TLC.  Ids and calls are interchangeable, so *)
(* a run that checks an invariant only looks at one of each permutation.   *)
(***************************************************************************)
EXTENDS JobManagerRefinement, TLC

Symmetry == Permutations(Ids) \union Permutations(Calls)

=============================================================================
