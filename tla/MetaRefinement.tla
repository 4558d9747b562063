--------------------------- MODULE MetaRefinement ---------------------------
(* MetaCoordination implements CachedObject: the visible entry is the cached  *)
(* version, the newest converged mutation the floor.                          *)
EXTENDS MetaCoordination

CONSTANT NoEntry

ASSUME NoEntryAssumption == NoEntry \notin Nat

Abs == INSTANCE CachedObject WITH
           current <- upstream.n,
           floor <- settled,
           cached <- IF row.live THEN row.n ELSE NoEntry

(* The tokens, fences and guarded removals of the coordinator together        *)
(* implement the cache that never shows a version older than a settled        *)
(* mutation.                                                                  *)
ImplementsCachedObject == Abs!AbsSpec
=============================================================================
