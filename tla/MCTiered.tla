------------------------------ MODULE MCTiered ------------------------------
(* Instances of Tiered for TLC.  Requests and nodes are interchangeable.      *)
EXTENDS Tiered, TLC

Symmetry == Permutations(Clients) \cup Permutations(Nodes)
=============================================================================
