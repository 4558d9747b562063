---------------------------- MODULE CachedObject ----------------------------
(* What TAG promises for one object that is modified only through TAG.        *)
(*                                                                            *)
(* Upstream holds versions 0, 1, 2, ... of the object.  A mutation is         *)
(* "settled" once its post-success invalidation has succeeded.  The cache     *)
(* holds nothing or one version, and whatever it holds is at least as new as  *)
(* every settled mutation.  How tokens, fences and retries achieve that is    *)
(* the business of MetaCoordination, which implements this specification.     *)
EXTENDS Naturals

CONSTANT NoEntry    \* the cache holds no entry

VARIABLES
    current,        \* upstream's current version
    floor,          \* the newest settled mutation
    cached          \* the visible version, or NoEntry

absVars == <<current, floor, cached>>

AbsInit == current = 0 /\ floor = 0 /\ cached \in {NoEntry, 0}

(* Upstream applies a PUT, DELETE, COPY or multipart completion.              *)
AbsMutate == current' = current + 1 /\ UNCHANGED <<floor, cached>>

(* A mutation's invalidation succeeds: nothing older is visible from here on. *)
AbsSettle ==
    /\ floor' \in floor..current
    /\ cached' = NoEntry
    /\ UNCHANGED current

(* A populate publishes a version that no settled mutation has overtaken, and *)
(* never replaces a newer one.                                                *)
AbsFill ==
    /\ cached' \in floor..current
    /\ cached # NoEntry => cached' >= cached
    /\ UNCHANGED <<current, floor>>

(* Expiry and the guarded removals: an entry may always disappear.            *)
AbsDrop == cached' = NoEntry /\ UNCHANGED <<current, floor>>

AbsNext == AbsMutate \/ AbsSettle \/ AbsFill \/ AbsDrop

AbsSpec == AbsInit /\ [][AbsNext]_absVars
=============================================================================
