# TAG in TLA+

TAG is a caching S3 proxy: GETs are answered from a cache embedded in the node
(ocache) or fetched from upstream and cached on the way; writes are forwarded and
invalidate the cache. This directory holds TLA+ models of its concurrent parts, the
TLC configurations that check them on small instances, and TLAPS proofs.

## 1. Inventory

| Part (source) | State | Operations | What makes it hard |
|---|---|---|---|
| Metadata coordination (`cache/coordinator.go`, `cache/cache.go`) | one mutable metadata key per object: visible or absent, a version; in legacy mode a tombstone with a stamp and a TTL | versioned read, preconditioned commit, fenced delete, guarded delete | populates and mutations of many requests and nodes race; store calls fail or fail after taking effect; clocks differ |
| Populate paths (`get_object.go`, `caching.go`, `revalidation.go`, `block_cache.go`, `block_cache_parquet.go`, `meta_on_write.go`, `write_through.go`) | decision-time token, fetched metadata, ETag-addressed content | read token, fetch, store content, commit | the token must precede what it protects; every early return |
| Mutating handlers (`service.go`, `delete_objects.go`) | progress of PUT, DELETE, COPY, CompleteMultipartUpload, DeleteObjects | invalidate, forward, converge | answers lost, invalidations that fail after upstream has applied the write |
| Streaming broadcast (`broadcast/broadcaster.go`, `manager.go`) | listeners with bounded channels, headers, terminal result, pooled buffers | subscribe, set headers, broadcast, complete, drain | consumers receive while the sender holds its lock; slow consumers; buffer ownership; late joiners |
| Cache listener relay (`caching.go`) | queue and pipe between listener and store | relay, store, finalize | three goroutines waiting on each other; contexts that end at different times |
| Populate admission (`service.go`) | bytes, pending warm demand, staging, count slots | acquire and release with two priorities | blocked warms, deadlines, partial acquisition, re-acquisition |
| Worker lifecycle and shutdown (`lifecycle.go`, `handlers/server.go`, `cmd/tag/main.go`) | admission flags, wait group, contexts, handler count | admit, begin, run, stop, join, close | work admitted while stopping; storage closed under it |
| Block fetch coordination (`block_cache.go`) | in-flight fetch per block, leases | lead, wait, cancel | leader fails or is cancelled with waiters attached |
| Block and range serving (`block_cache.go`, `get_object.go`, `revalidation.go`) | progress of a response | assemble, pipeline, recover, fall back | a block disappears after headers are sent |
| Tiered store and local store (`tiered.go`, `localstore.go`, `cache/completion.go`) | markers, re-tier registry, completion records | put, delete, re-tier, replay | two stores without a transaction; re-tier and clean-up against overwrite |
| Algorithms (`get_object.go`, `service.go`, `cache/object.go`, `chunked_reader.go`) | none | range and content-range parsing, block spans, TTLs, chunk decoding | boundaries |
| Authentication, forwarding, HTTP routing, configuration, metrics | small caches | | mostly computation and I/O |

How they meet: a GET miss starts or joins a broadcast; its fetch goroutine reads a
token, asks upstream, and feeds the clients and, if populate admission allows it, a
cache listener; that listener stores the content and commits the metadata under the
token. A mutation invalidates the metadata before and after it is forwarded. A
background fetch (warm-on-write, a range miss, a cancelled GET) does the same without a
broadcast. Every read looks at the metadata key first, so that key decides what is
visible.

`PROJECT.json` lists every component with its status, and every hazard with the line
where it bites and the properties that guard it.

## 2. Modules

| Module | Models | Correspondence |
|---|---|---|
| `CachedObject` | what the cache promises for one object | abstract: current upstream version, newest settled mutation, visible version |
| `MetaCoordination` | the metadata key under `casCoordinator`, all populate paths, the mutating handlers | `row` is the store's row and version, `pop[r]` a populate or repair with its token (`tok`) and what it fetched, `wr[w]` a mutating request, `content` the stored bodies and blocks, `settled` the newest upstream state whose converging invalidation succeeded |
| `MetaRefinement` | the mapping from `MetaCoordination` to `CachedObject` | |
| `MetaCoordinationProofs` | theorems about the two above | |
| `LegacyCoordination`, `LegacyProofs` | the same key under `legacyCoordinator`, the default mode | `tomb` is the tombstone and its expiry, `now` real time, `Clock` what `time.Now()` may return on some node; reading the clock and storing the tombstone are two steps; `newest` is the history of the latest stamp stored |
| `Broadcast`, `BroadcastProofs` | one `Broadcaster` with its listeners, the fetch goroutine and the consumers | `b`, `lis`, `prod`, `con` are the structs and the positions of the goroutines; `mem` and `free` the buffer pool; `left` clients that hung up, `gone` request contexts that have ended |
| `CacheWrite`, `CacheWriteProofs` | one populate's way into the store: `setupCacheListener` with its relay, queue, pipe and two writers, or `fetchAndCache` with its supervisor and direct writer | `up` is the body or the listener that carries it, `own` the relay or the supervisor, `queue`, `pw`, `pipe` and `wr` the way to the store, `ctx` the live contexts, `slot` the reservation, `committed` the outcome |
| `PopulateBudget`, `PopulateBudgetProofs` | `byteBudget`, `cacheSemaphore`, `enginePutSlots` and the sequences in which callers use them | `budget`, `sem`, `waiting` (senders blocked on the semaphore), `task[x]` one operation |
| `BlockFetch` | `blockFetchState` and its users: begin, run, finish, waiters for bytes and for the cache, leases on pooled buffers | one record per fetch in flight, the table, the buffers and who may read or fill them, the stored blocks, the upstream version |
| `BlockServe`, `BlockServeProofs` | extends `BlockFetch`: every way a block-cached GET is answered, block-mode populate, the splitting of a streamed body, promotion | `rd[c]` is a caller with its job, position and the bytes it sent; `entry` the metadata row; `drop[c]` the caller's invalidation of a stale row, a read and a guarded delete; two histories: `seen`, the blocks stored under the row, and `doomed`, the row a caller has found stale |
| `Tiered`, `TieredProofs` | one object in two tiers: `localstore.go`'s engine handlers and `tiered.go` | `row` the metadata key (`up` marks an upstream marker, `ref` names the body), `bodies` the local bodies, `upstream` the upstream object, `wr` and `rd` the requests, `task` and `retier` the background tasks they start, `backoff` the nodes' memory of mismatches; a write's claim on the key lasts while `wr` is at work; three histories: `gap`, reads that saw the object unservable, `kept`, bodies a row has named or a failed call has left, and `hit` in `wr`, whether upstream applied the request |
| `Shutdown`, `ShutdownProofs` | requests that coalesce on one object, the work they leave behind, and the process stopping | `adm` is `handlerState`, `reg` the manager's map, `svc` `serviceWorkers`, `main` the order of `main.go` |
| `MC...` | scenarios, jobs and symmetry sets for TLC | |

### Abstractions

All modules. One object: keys do not interact in this code. Each request runs once; a
history with more requests is an instance with more members. ETags, versions and bodies
are small values.

`MetaCoordination`, `LegacyCoordination`. The content of an object is an ETag and a number,
the position in upstream's history; two positions may carry the same ETag, as when equal
bytes are written again. The four mutating handlers have the same shape (invalidate, forward,
converge on a 2xx) and are one process; `op` tells deletes from writes. Everything that ends a
populate without publishing (an error, a 404, an uncacheable answer, a refused slot, a
deadline, the end of the node) is `Abandon`, since all of these leave the shared state alone.

`Broadcast`, `CacheWrite`. The bytes of a body are the numbers of its chunks. A response
that is cut ends in an EOF-shaped error (`short`) or in another one (`failed`), and its length
is declared or not, which is what the store's checks tell apart.

`BlockFetch`, `BlockServe`. Five bytes in three blocks, the last one short; a block's
content is the version it was fetched from. Whether a buffer or a budget is granted is nondeterministic. A task the stopping
service refuses is a fetch error. The token read of a full GET and the response it precedes
are one step, since `MetaCoordination` has their order. The two critical
sections of `finishBlockFetch` are one step: nothing between them is visible to others.

`Tiered`. `deleteMeta`'s loop is modelled by its applying attempt. If-None-Match is `*`.
Objects are not empty. Deleting a staged body is best effort, as in the code: it may fail,
applied or not, and what it leaves is an orphan until its TTL. A claim and the first read under it are one step, the read of a GET
and the registration of its re-tier are two. `MaxRetries` stands for the code's eight
attempts.

`Shutdown`. A broadcast has only a beginning and an end. With one object and one token there
is one background fetch at a time. A caller of `Service.Stop` beside `main` is there because
`Stop` may be called twice. A client may be dropped as a slow consumer; while it receives
chunks its handler does not look at its context.

External parts are modelled by what their callers rely on: ocache (a per-key version
that moves with every committed write and fenced delete, `DeleteIfVersion(0)` fencing an
absent key, TTL, eviction, an inline probe that ends at EOF or unexpected EOF), upstream
(conditional requests, 206 answers under If-Match) and net/http (a request's context ends when
its connection closes and when its handler returns; `Shutdown` returns when no connection is
active; a handler whose stream was reset may still run).

Atomicity. A store call, an upstream answer, and a section under one mutex are single
steps. In `Broadcast` each send is a step of its own although the loop holds
`Broadcaster.mu`, because receives do not take it.

## 3. Runs

| Run | Instance | Shows |
|---|---|---|
| `MetaTokenFirst` | 2 requests, 2 writers, 2 ETags; GET, footer warm and teed PUT (populates that stream a body, fetch blocks, or start over as a warm); store faults and lost answers; 1,445,116 states | no settled write is undone (`ReadAfterWrite`, `SettledMatches`), no downgrade, the ordering behind it (`TokensOrdered`), and refinement of `CachedObject` |
| `MetaAllPaths` | the same size, all nine paths, evictions, no faults; 800,490 states | a guarded removal never hits the replacement |
| `MetaSettles` | fairness, no symmetry, one ETag, a store that answers | the entry finally agrees with upstream, for good |
| `LegacyGate` | 2 requests, 2 writers, time up to 3, faults; 1,221,105 states | with agreeing clocks the tombstone gate refuses every populate a settled mutation has overtaken, unless an older tombstone has landed over a newer one |
| `Broadcast` | a fetching client, a joining client and in one setup the cache, channels of 1 chunk; pooled reads of up to 2 chunks, reads too large for the pool of up to 3; clients that leave; fairness; 288,588 states | order, whole successes, single ownership of buffers up to the hand-over, everyone gets an outcome |
| `CacheWrite` | inline and background populates, whole-body and block-mode, declared length or not, bodies shorter and longer than the buffers, cut in every way but the one below; fairness | what is committed is whole, the reservation is held as long as buffers are, every goroutine ends |
| `Budget` | a miss, 2 warms, an engine PUT, a block serve, 1 slot, budget 4, block sizes 2 (fits beside a writer) and 4 (never does), deadlines, fairness; 89,621 states | nothing leaked or released twice; every warm is admitted, or declined if its deadline passes or its weight can never fit |
| `Blocks` | one GET over the combinations of stored, certified and complete blocks; two and three callers sharing a fetch or an entry; an overwrite upstream, an eviction or a fault, but for two different ranges at once, where only the overwrite and the interleaving vary; 409,284 states | a success has exactly the bytes asked for, of one version (`ServedExactly`); no buffer is reused under a reader, no block fetched twice at once; a request that found its version stale ends with that row removed, unless a store call failed; a promotion says what is stored |
| `Tiered` | 2 clients of 8 kinds, a reader with its re-tier, 2 nodes, 2 ETags (one small enough for the local tier), 1 fault or lost answer; 644,341 states | acknowledged is visible and what it displaced is not, conditional writes lose no update, bodies are reclaimed when and only when unreferenced, a miss is true, background tasks never remove a local copy, revert an overwrite or bring back a deleted object |
| `Shutdown` | 3 requests without background work; 2 of which one leaves and one is slow; 2 with populate, warm, a slow client and upstream failures; 1 that may leave or lag, with the same and another stopper; fairness; 167,393 states | storage outlives its users, both joins hold, nobody waits on, or finds on the map, a broadcast without an end, the process stops |

Two runs show where the code and what is written about it disagree:

- `MetaRevalidation`: `handleRevalidation200` reads its token after upstream answered.
  A PUT that invalidates, is applied and converges in between is invisible to that
  token; the older object is then published. `populateBlockMode` has the same order: its
  metadata comes from the 206 that was answered earlier, and the ETag check of its block
  fetches does not help when the blocks are already stored.
- `CacheWriteChunked`: the direct writer of a background fetch passes an unexpected EOF
  on to the store, whose inline probe takes it for the end of a short value; with a chunked
  response there is no length to compare, and the truncated body is committed. The
  inline relay wraps such errors for this reason.

Limits the code accepts, which the models have and no run asserts:

- Legacy mode: the tombstone gate and the Put behind it are two store calls and a whole
  mutation fits between them; stamps from nodes whose clocks differ are compared, so
  `GateBlocksStale` is checked and proved for `Skew = 0` only. The stamp of a tombstone is
  read before its Put, which is unconditional: a delayed Put can replace a newer tombstone by
  an older one, which then no longer stops a populate stamped between the two.
- The fetch runs under the fetching client's request context. If that client is dropped
  as a slow consumer, its handler returns, its context ends and with it the fetch; the cache
  write is detached, but the body it is fed ends there. The comment at
  `proxy/get_object.go:358-361` expects the write to finish "on the live ctx", which holds
  only if the fetch was over.
- Proxy modes: a converging invalidation that fails twice leaves the entry to its TTL.
- In tiered mode a marker can advertise an object that a concurrent DELETE has removed
  upstream; a GET through it gets upstream's 404. The clean-up of a displaced copy does the
  same to a write of equal bytes whose marker commits after the clean-up's last look.
- A staged body whose deletion fails, and one whose commit ended without a verdict, stay until
  their TTL. A bulk delete past its deadline leaves the entry to its TTL.

Bounds. `MetaCoordination` starts with the object cached, so that two requests suffice
for a removal that meets a replacement; `Evicts` is off in the runs whose properties do not
depend on what is stored, and `MetaAllPaths` has it on. Two writers and two requests give a
populate that is overtaken, one that overtakes it, and a write that races another; the
theorems cover every size. In `LegacyGate` a populate takes at most 1 (`FetchMax`) and a tombstone lives for 2, so that
`MaxNow` = 3 lets a populate take its longest and a tombstone expire while another populate is
running. Channels of one chunk
make every listener slow at some point; two chunks are enough for a displaced, skipped
or overwritten one to show, and eight buffers are more than can be in use at once. The
budget instances leave room for some but not all operations. In `CacheWrite` the queue holds
one chunk and the channel two, so that a body of three fits and one of four does not; `Inline`
separates bodies the store buffers from those it streams. In `Blocks` a fan-out, an inline
threshold and a window of one or two blocks make each of the serving strategies, and both
sides of their limits, happen with three blocks; two versions are one overwrite, so a caller may
hold the older of the two, and `MaxVer` bounds the invalidations other requests cause. In `Tiered` two clients and a re-tier give the races the code
comments on: a write between a background task's look and its effect, with a second one before
or after. In `Shutdown` three requests are needed for a broadcast to be replaced on the map and
then taken off it by its predecessor; `MaxInflight` = 2 refuses one.

Fairness. `MetaCoordination`: what has been started goes on (goroutines run, store and
upstream calls end by answer or timeout); nobody need send another request. `Broadcast`:
the fetch goroutine and consumers run; reads and writes end, in an error or timeout if
need be. `CacheWrite`: goroutines run, deadlines pass, `AfterFunc`s fire and a cancelled
upstream read returns; upstream owes nothing else. `PopulateBudget`: admitted work
ends (writes have deadlines, serves end with their response); arrivals are not fair, and
nothing says that a deadline passes, so the admission itself must be what prevents starvation.
`Shutdown`: goroutines run, timers fire, cancelled requests and store calls return; upstream and
clients may stall for ever. All of it is weak fairness.

Deadlock is checked in every run but those of `CacheWrite`, where a populate simply ends;
`PopulateEnds` says there that nothing hangs. Elsewhere `Quiescent`, `Finished` and the like are
the states in which all the given work is over.

## 4. Proofs

`MetaCoordinationProofs` (any sets of requests, writers, ETags; faults allowed):

- `TypeCorrect`, `RemovalIsGuarded`: for every combination of paths. The inductive
  invariant `SafeInv` adds to the types that no token runs ahead of the key's version,
  that a request about to remove has seen a row of that version with the stale
  ETag (if the version has not moved and the row is live, it is still that row), and
  that a request with content names an ETag.
- `TokensDecide`, `ReadAfterWriteHolds`, `SettledMatchesHolds`, `DowngradeImpossible`, `Implementation`:
  for configurations without the two late-token paths (`TokenFirst`). `ReadAfterWrite` is
  not inductive: nothing in it says why a commit in flight is harmless. `OrderInv`
  supplies the reason: a token read first and still equal to the key's version means that
  no fence has moved since the fetch, so no mutation the populate missed can have settled
  (`TokensOrdered`, `EarlyToken`); the visible row and the writers carry only states of
  upstream's history (`RowCurrent`, `WritersCurrent`). Each action preserves it by
  either leaving the version alone or raising it, which disarms every older token.

`LegacyProofs`: `GateHolds`, for clocks that agree (`Skew = 0`) and any durations. `GateInv`
relates each populate to the tombstones: if a mutation newer than what it fetched has
settled, a tombstone at or after its stamp was stored, so `newest` is at or after it too; and a
tombstone with that stamp outlives the populate's deadline, because it is stored no earlier
than it is stamped and its TTL is the longest populate plus a positive margin. What
remains is a tombstone older than `newest`, which the property names. `LegacyTypes` holds
whatever the clocks show.

`ShutdownProofs` (any number of requests, any limit, any number of callers of
`Service.Stop`): `JoinsAreFinal`, `StorageIsLast`, `NobodyStranded`, `TypesHold`. `JoinsHold` says
what is true after a join but not why the join waited for enough, so `IInv` adds that the
counters count: `handlerState` the requests inside a handler (`HandlersCounted`), the wait
group the running tasks (`TasksCounted`, which needs that a request has no fetch before it
starts one). A join taken at zero has then seen an empty set, and its seal keeps the set
empty: a later request is `late`, a later task is refused (`HandlersJoin`, `TasksJoin`).
`MainOrdered` carries both to the close of the storage. `Attended` strengthens
`NobodyWaitsAlone`: the broadcast on the map is its creator's, has an end in sight, and leaves
the map before its creator leaves.

`CacheWriteProofs` (any job, any capacity of channel and queue, any inline threshold):
`TypesHold`, `SlotOutlivesBuffers`, `OnlyWholeBodiesCommit`. That a committed body is whole
depends on every chunk between the listener and the store, so `Inv` counts them: `Carried` is
never more than was sent, and exactly what was sent while no goroutine of the relay has met an
error (`RelayFaithful`). `RelayStages` and `DirectStages` say which of the other goroutines can
be running when their owner is at each of its places, which is also why the slot given back last
covers them. `OnlyWholeBodiesCommit` assumes `Declared`: no background fetch of a response of
undeclared length that is cut with an EOF-shaped error, which is the case the run
`CacheWriteChunked` shows to fail.

`PopulateBudgetProofs` (any number of operations, any budget, weights, block sizes and slots):
`LimitersInRange`, `NothingLeaks`. Sums over the operations are cardinalities of sets of units,
so that one operation's share can be taken out of a sum and put back (`SumSplit`). `Inv`
adds to `Accounted` what each operation holds at each of its places (`Stage`) and that the queue for
the semaphore names each blocked warm once. A step is a trade of one operation with the budget (`Trade`)
or with the slots (`Exchange`); the others at most wake up (`Keeps`).

`BlockServeProofs` (any object and block size, any number of callers, fetches and buffers; it
covers `BlockFetch`, which `BlockServe` extends): `NoBufferIsShared`, `OneFetchPerBlock`,
`StaleEntryGoes`, `PromotionIsHonest`. `FetchInv` says that the table lists exactly the
fetches whose task has not ended (`Listed`), that each buffer is in the pool or with one fetch
(`Owned`), that a lease holds the buffer of its own fetch (`LeaseOK`), and that a fetch counts
the callers that have not released it (`Counted`); without the last, a buffer could
return to the pool under a reader. The facts about cardinality it needs are a conjunct
(`Counting`), so that the steps do not carry the theorems on finite sets. `ReaderInv` adds where a
request can hold a lease (`Seat`), which strategy leads where (`Control`) and, for promotion,
that as long as the row has the version of the request's token, every block the request has
found, fetched or streamed is one that was stored since that row was established (`Tracks`).
`StaleEntryGoes` is about requests that are over, so `DropInv` follows them there: while the row
a request has doomed is live (`Going`), the request is on its way to remove it (`Threat`). It
holds the stale answer, is about to read the row, has read it and will delete that very version,
or a store call of its own has failed.

`BroadcastProofs` (any number of clients, buffers and chunks, any channel capacity):
`BroadcastTypes`, `ConsumersReadInOrder`, `SuccessIsTheWholeBody`, `OneOwnerPerBuffer`. `InOrder` speaks of
what was written, but a chunk passes through a shared buffer and a channel first. `Stream`
therefore numbers all three: what a listener wrote, holds and has queued are the chunks from
the first on, up to the one being handed around if the loop has served it (`Due`). `Roll` and `Loop`
describe `broadcastOwnedLocked` while consumers receive: those the loop has passed are kept
or closed, the owner is open and keeps its room, and the list put together at the end has
each listener once. `Sole` gives each buffer one place, which is why writing the next
chunk into a fresh buffer changes nothing that is queued.

`TieredProofs` (any number of clients, readers and nodes, any contents, retries and
faults): `TieredTypes`, `NoBodyIsLost`, `MissesAreTrue`, `TheOnlyCopySurvives`,
`BackgroundNeverReverts`, `AcknowledgedWritesShow`, `ConditionalWritesAreAtomic`. All of it rests
on what a token still equal to the key's version says: for a client that the row is the one it decided on, or that this
row has expired (`Decided`); for a background task that the row is the marker it looked at
(`TaskOK`, `RetierOK`); for a reader that the row names the body it was routed to (`ReadOK`).
`Staged` follows a body from its staging, under a name no row and no reader has, to the commit
that publishes it or the refusal that reclaims it. `NoBodyIsLost` adds `Reclaimable`: a stored
body is its owner's, which is still at work, or in `kept`; each step either leaves both alone or is
the owner's last, which deletes the body or fails to (`Accounts`). Every step is either that of one client, which
may touch only its own body, or one behind the clients' backs, which changes the row
only from such a token (`EveryStep`).

Assumptions: the named `ASSUME`s of the modules, which say what the constants are:
`Gone` is no ETag, `NoEntry` no number and `None` no key, buffer or request; the margin, the capacities and the
limits are positive; there are finitely many requests, callers, blocks and operations; the roles of
`PopulateBudget` and the requests of `Tiered` have different names (a body is named after the
request that stages it, as a `BodyRef` is unique to its write); the blocks are those of the
object's size; scenarios, setups and jobs are of their types. Theorems with a hypothesis of
their own are those under `TokenFirst`, `Skew = 0` and `Declared`, explained above.

TLC evaluates the inductive invariants too: each holds in every reachable state of its
component's run (`OrderInv` and `SafeInv` on `MetaTokenFirst`).

Checked by TLC only:

- `EventuallyFresh`, `EveryoneAnswered`, `WarmNotStarved`, `PopulateEnds`, `StopReturns`: liveness,
  which needs fairness and `ENABLED`.
- `TypeOK` and `ServedExactly` of `BlockServe`: both are about the bytes of a response, which
  `Assembled` concatenates block by block and `Wanted` selects, two recursions over data. What such a
  recursion yields for every length is an induction the provers have no rule for. The rest of the
  state is typed by the proofs (`FetchTypes`, `Outside`, `RecordOf`).

## 5. Not modelled

- Signatures, request signing, header handling, routing, configuration and metrics:
  computation or I/O without interleaved state. The authorization and derived-key
  caches are expiring maps, each behind one lock.
- Multipart completion records: a per-upload record that replays an answer and that no
  other state depends on.
- AWS chunked decoding and the XML of bulk deletes: sequential parsers of one body.
- Which blocks a Parquet footer names: it decides only what is fetched early.
- Listing and the operations the local store refuses.
- Public and private visibility of entries: it decides whether a request counts as a
  miss, which is nondeterministic in the metadata models.
- `lengthBoundedWriter` and the conditional headers of a revalidated answer.

## 6. Plan

1. An abstract specification of a block fetch ("each waiter gets the block or an error, of
   its own version") that `BlockFetch` implements.
2. `parseContentRange` and `TombstoneTTLSeconds` against reference definitions.
