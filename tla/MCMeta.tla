------------------------------- MODULE MCMeta -------------------------------
(* MetaCoordination on small instances.                                       *)
EXTENDS MetaRefinement, TLC

Symmetry ==
    Permutations(Requests) \cup Permutations(Writers) \cup Permutations(ETags)
=============================================================================
