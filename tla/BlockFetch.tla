----------------------------- MODULE BlockFetch -----------------------------
(* Coalesced block fetches of block-mode caching (proxy/block_cache.go).      *)
(*                                                                            *)
(* A block is keyed by its object's ETag and its index.  blockFetches maps a  *)
(* key to the one fetch in flight for it; a fetch is run by a task of its own *)
(* and is joined by callers that either wait until the block is in the cache  *)
(* or take a lease on the staged bytes as soon as they are validated.  The    *)
(* bytes are in a buffer of a process-wide pool, which goes back to the pool  *)
(* when the cache write and the last caller are done with it.                 *)
EXTENDS Integers, FiniteSets

CONSTANTS
    Versions,       \* ETags of the object's successive contents
    Blocks,         \* block indices
    Slots,          \* bound: fetch states of a block index at once, numbered
    Bufs,           \* bound: pooled buffers in existence at once, numbered
    Callers,        \* what may join fetches; each joins one per block
    MaxFaults,      \* bound: failures and evictions in one behaviour
    None            \* no version, no fetch, no buffer

VARIABLES
    upstream,       \* the ETag upstream serves, None once deleted
    blocks,         \* keys of the blocks in the cache
    inflight,       \* Service.blockFetches
    fetch,          \* the fetch states
    pool,           \* blockBufPool
    content,        \* the key whose bytes each buffer holds
    lease,          \* per caller and block: its place in a fetch
    faults          \* failures so far

fetchVars == <<upstream, blocks, inflight, fetch, pool, content, lease, faults>>

Keys == Versions \X Blocks

(* Fetch states: a block index may have several, of one or of two versions.   *)
Fetches == Blocks \X Slots

ASSUME BlockFetchAssumption ==
    /\ IsFiniteSet(Callers) /\ IsFiniteSet(Blocks)
    /\ None \notin Versions /\ None \notin Keys
    /\ None \notin Fetches /\ None \notin Bufs
    /\ MaxFaults \in Nat

(* pc is where runBlockFetch is; serve and cache are the outcomes published   *)
(* through serveDone and cacheDone.                                           *)
FetchRecords ==
    [pc: {"free", "probe", "get", "publish", "put", "done"},
     key: Keys \cup {None}, consumers: Nat,
     buf: Bufs \cup {None}, serve: {"open", "ok", "error", "stale"},
     cache: {"open", "ok", "error", "stale"}]

(* A caller is out of any fetch, waits for one outcome, or has its answer:    *)
(* a lease on a buffer, "ok" (read the cache), or an error.                   *)
LeaseRecords ==
    [pc: {"out", "serve", "cache", "held", "ok", "error", "stale",
          "canceled"}, at: Fetches \cup {None}, buf: Bufs \cup {None}]

FreeFetch == [pc |-> "free", key |-> None, consumers |-> 0,
              buf |-> None, serve |-> "open", cache |-> "open"]

NoLease == [pc |-> "out", at |-> None, buf |-> None]

FetchTypeOK ==
    /\ upstream \in Versions \cup {None}
    /\ blocks \subseteq Keys
    /\ inflight \in [Keys -> Fetches \cup {None}]
    /\ fetch \in [Fetches -> FetchRecords]
    /\ pool \subseteq Bufs
    /\ content \in [Bufs -> Keys \cup {None}]
    /\ lease \in [Callers -> [Blocks -> LeaseRecords]]
    /\ faults \in 0..MaxFaults

FetchInit ==
    /\ inflight = [k \in Keys |-> None]
    /\ fetch = [f \in Fetches |-> FreeFetch]
    /\ pool = Bufs
    /\ content = [b \in Bufs |-> None]
    /\ lease = [c \in Callers |-> [i \in Blocks |-> NoLease]]

Fault == faults < MaxFaults /\ faults' = faults + 1

-----------------------------------------------------------------------------
(* Ownership of a fetch's buffer.                                             *)

(* The state once the last consumer is gone and the cache write has ended.    *)
Retired(f) == IF f.consumers = 0 /\ f.cache # "open" THEN FreeFetch ELSE f

(* Mutant: the end of the cache write returns the buffer whoever holds it.    *)
ReturnsAtFinish(f) == IF f.cache # "open" /\ f.buf # None THEN {f.buf} ELSE {}

(* The buffer that goes back to the pool with it.                             *)
Returns(f) ==
    IF f.consumers = 0 /\ f.cache # "open" /\ f.buf # None THEN {f.buf} ELSE {}

(* completeServe and finishBlockFetch, and releaseBlockFetchConsumer, each    *)
(* leave state f as new.                                                      *)
Settle(f, new) ==
    /\ fetch' = [fetch EXCEPT ![f] = Retired(new)]
    /\ pool' = pool \cup Returns(new)
    /\ content' = [b \in Bufs |-> IF b \in Returns(new) THEN None ELSE content[b]]
    /\ inflight' = IF new.cache # "open" /\ inflight[new.key] = f
                     THEN [inflight EXCEPT ![new.key] = None] ELSE inflight

Finished(f, serve, cache) ==
    [fetch[f] EXCEPT !.pc = "done", !.serve = serve, !.cache = cache]

(* releaseBlockFetchConsumer, for a caller that now has answer.               *)
Release(c, i, answer) ==
    LET f == lease[c][i].at
        new == [fetch[f] EXCEPT !.consumers = @ - 1] IN
    /\ Settle(f, new)
    /\ lease' = [lease EXCEPT ![c][i] = [NoLease EXCEPT !.pc = answer]]

-----------------------------------------------------------------------------
(* Callers.                                                                   *)

(* A new state, and a buffer of the pool: which one makes no difference.      *)
NewFetch(i) ==
    LET free == {n \in Slots : fetch[<<i, n>>].pc = "free"} IN
    {<<i, n>> : n \in {m \in free : \A k \in free : m <= k}}

NewBuf == {b \in pool : \A d \in pool : b <= d}

(* Mutant: a caller always starts a fetch of its own.                         *)
AlwaysStarts(c, v, i, want, known) ==
    \E f \in NewFetch(i) :
      /\ lease[c][i].pc = "out"
      /\ fetch' = [fetch EXCEPT ![f] =
           [FreeFetch EXCEPT !.pc = IF known THEN "get" ELSE "probe",
              !.key = <<v, i>>, !.consumers = 1]]
      /\ inflight' = [inflight EXCEPT ![<<v, i>>] = f]
      /\ lease' = [lease EXCEPT ![c][i] = [pc |-> want, at |-> f, buf |-> None]]
      /\ UNCHANGED <<upstream, blocks, pool, content, faults>>

(* beginBlockFetch: join the fetch in flight for the key or start one, as one *)
(* of its consumers.  want is what the caller waits for; known tells a new    *)
(* fetch that the block was just seen to be absent.                           *)
beginBlockFetch(c, v, i, want, known) ==
    LET k == <<v, i>>
        Join(f) == lease' = [lease EXCEPT ![c][i] =
                               [pc |-> want, at |-> f, buf |-> None]] IN
    /\ lease[c][i].pc = "out"
    /\ \/ /\ inflight[k] # None
          /\ fetch' = [fetch EXCEPT ![inflight[k]].consumers = @ + 1]
          /\ Join(inflight[k])
          /\ UNCHANGED inflight
       \/ /\ inflight[k] = None
          /\ \E f \in NewFetch(i) :
               /\ fetch' = [fetch EXCEPT ![f] =
                    [FreeFetch EXCEPT !.pc = IF known THEN "get" ELSE "probe",
                       !.key = k, !.consumers = 1]]
               /\ inflight' = [inflight EXCEPT ![k] = f]
               /\ Join(f)
    /\ UNCHANGED <<upstream, blocks, pool, content, faults>>

(* fetchOneBlockForAssembly wakes up on serveDone: an error, a block that was *)
(* already present, or a lease on the staged bytes.                           *)
TakeLease(c, i) ==
    /\ lease[c][i].pc = "serve" /\ fetch[lease[c][i].at].serve # "open"
    /\ LET f == fetch[lease[c][i].at] IN
       IF f.serve = "ok" /\ f.buf # None
         THEN /\ lease' = [lease EXCEPT ![c][i] = [@ EXCEPT !.pc = "held",
                                                           !.buf = f.buf]]
              /\ UNCHANGED <<fetch, pool, content, inflight>>
         ELSE Release(c, i, f.serve)
    /\ UNCHANGED <<upstream, blocks, faults>>

(* fetchOneBlock wakes up on cacheDone.                                       *)
AwaitCache(c, i) ==
    /\ lease[c][i].pc = "cache" /\ fetch[lease[c][i].at].cache # "open"
    /\ Release(c, i, fetch[lease[c][i].at].cache)
    /\ UNCHANGED <<upstream, blocks, faults>>

(* Either stops waiting when its request is canceled.                         *)
StopWaiting(c, i) ==
    /\ lease[c][i].pc \in {"serve", "cache"}
    /\ Fault
    /\ Release(c, i, "canceled")
    /\ UNCHANGED <<upstream, blocks>>

-----------------------------------------------------------------------------
(* runBlockFetch.                                                             *)

(* The presence recheck; its error counts as absence.                         *)
ProbeFetch(f) ==
    /\ fetch[f].pc = "probe"
    /\ \/ /\ fetch[f].key \in blocks
          /\ Settle(f, Finished(f, "ok", "ok"))
          /\ UNCHANGED faults
       \/ /\ IF fetch[f].key \in blocks THEN Fault ELSE UNCHANGED faults
          /\ fetch' = [fetch EXCEPT ![f].pc = "get"]
          /\ UNCHANGED <<inflight, pool, content>>
    /\ UNCHANGED <<upstream, blocks, lease>>

(* The range GET.  Another ETag or a 404 is a stale signal; a declined slot,  *)
(* a failed request, a wrong length or bounds and a short body are errors;    *)
(* otherwise the body fills a buffer.  A remote owner is written to after the *)
(* bytes are published, a local one before.                                   *)
GetBlock(f) ==
    /\ fetch[f].pc = "get"
    /\ \/ /\ upstream = fetch[f].key[1]
          /\ \E b \in NewBuf, pc \in {"publish", "put"} :
               /\ pool' = pool \ {b}
               /\ content' = [content EXCEPT ![b] = <<upstream, fetch[f].key[2]>>]
               /\ fetch' = [fetch EXCEPT ![f].buf = b, ![f].pc = pc]
          /\ UNCHANGED <<inflight, faults>>
       \/ /\ upstream # fetch[f].key[1]
          /\ Settle(f, Finished(f, "stale", "stale"))
          /\ UNCHANGED faults
       \/ /\ Fault
          /\ Settle(f, Finished(f, "error", "error"))
    /\ UNCHANGED <<upstream, blocks, lease>>

(* completeServe ahead of a remote write.                                     *)
Publish(f) ==
    /\ fetch[f].pc = "publish"
    /\ fetch' = [fetch EXCEPT ![f].serve = "ok", ![f].pc = "put"]
    /\ UNCHANGED <<upstream, blocks, inflight, pool, content, lease, faults>>

(* PutBlock and the end of the task.  A shed write serves the bytes but       *)
(* reports an error to those who wait for the cache.  A failed local write    *)
(* gives the buffer back and fails the serve too.                             *)
PutBlock(f) ==
    /\ fetch[f].pc = "put"
    /\ \/ /\ blocks' = blocks \cup {content[fetch[f].buf]}
          /\ Settle(f, Finished(f, "ok", "ok"))
          /\ UNCHANGED faults
       \/ /\ Fault
          /\ blocks' \in {blocks, blocks \cup {content[fetch[f].buf]}}
          /\ \/ Settle(f, Finished(f, "ok", "error"))
             \/ /\ fetch[f].serve = "open"
                /\ fetch' = [fetch EXCEPT ![f] = Retired(
                     [Finished(f, "error", "error") EXCEPT !.buf = None])]
                /\ pool' = pool \cup {fetch[f].buf}
                /\ content' = [content EXCEPT ![fetch[f].buf] = None]
                /\ inflight' = [inflight EXCEPT ![fetch[f].key] = None]
    /\ UNCHANGED <<upstream, lease>>

FetchTask(f) == ProbeFetch(f) \/ GetBlock(f) \/ Publish(f) \/ PutBlock(f)

(* The cache evicts blocks one by one, whatever the metadata says.            *)
EvictBlock(k) ==
    /\ k \in blocks /\ Fault
    /\ blocks' = blocks \ {k}
    /\ UNCHANGED <<upstream, inflight, fetch, pool, content, lease>>

-----------------------------------------------------------------------------
(* A buffer has one owner: the pool, or one fetch whose cache write or some   *)
(* consumer may still read it; a lease reads only a buffer of its own fetch.  *)
(* Buffers are not lost either.                                               *)
BuffersOwned ==
    /\ \A f \in Fetches : fetch[f].buf # None =>
         /\ fetch[f].buf \notin pool
         /\ \A g \in Fetches \ {f} : fetch[g].buf # fetch[f].buf
    /\ \A c \in Callers, i \in Blocks : lease[c][i].pc = "held" =>
         /\ lease[c][i].buf = fetch[lease[c][i].at].buf
         /\ content[lease[c][i].buf] = fetch[lease[c][i].at].key
    /\ pool = Bufs \ {fetch[f].buf : f \in Fetches}

(* At most one fetch of a block is under way, so concurrent requests for it   *)
(* cost one upstream request, also while a remote write is still pending; and *)
(* a fetch counts exactly the callers that have not released it.              *)
OneFlight ==
    /\ \A f, g \in Fetches : /\ fetch[f].cache = "open" /\ fetch[f].pc # "free"
                             /\ fetch[g].cache = "open" /\ fetch[f].key = fetch[g].key
                             => f = g
    /\ \A f \in Fetches : fetch[f].consumers =
         Cardinality({p \in Callers \X Blocks : lease[p[1]][p[2]].at = f})
=============================================================================
