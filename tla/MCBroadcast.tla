---------------------------- MODULE MCBroadcast ----------------------------
(***************************************************************************)
(* Instances of Broadcast: f starts the broadcast, j may join it.           *)
(***************************************************************************)
EXTENDS Broadcast

CONSTANTS f, j

Setup(c, o, L, n) == [cache |-> c, owned |-> o, leavers |-> L, chunks |-> n]

\* Three listeners of pooled chunks, one of them the cache; two whose clients may
\* leave; and a chunk size too large for the pool.
MCSetups ==
    {Setup(TRUE, TRUE, {}, 2), Setup(FALSE, TRUE, {f, j}, 2), Setup(FALSE, FALSE, {j}, 3)}
=============================================================================
