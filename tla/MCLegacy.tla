----------------------------- MODULE MCLegacy -----------------------------
(* LegacyCoordination on small instances.                                     *)
EXTENDS LegacyCoordination, TLC

Symmetry == Permutations(Requests) \cup Permutations(Writers)
===========================================================================
