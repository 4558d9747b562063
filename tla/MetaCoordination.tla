-------------------------- MODULE MetaCoordination --------------------------
(* The life of one object's metadata key in proxy mode under the CAS          *)
(* coordinator (cache/coordinator.go, casCoordinator).                        *)
(*                                                                            *)
(* The metadata key is the visibility gate: a GET or HEAD is a hit exactly    *)
(* when the key is live.  Everything that orders the writers of that key is   *)
(* here: the decision-time tokens of the populates, the fenced invalidations  *)
(* of the mutating handlers and the guarded removals of the read paths.       *)
(* Each member of Requests is one populate or repair (an inline cache         *)
(* listener, a background task, a revalidating GET) and each member of        *)
(* Writers one mutating request; they may run on different nodes, since all   *)
(* of them meet only at the store and at upstream.                            *)
EXTENDS Naturals

CONSTANTS
    Requests,       \* populates and repairs
    Writers,        \* PUT, DELETE, COPY and CompleteMultipartUpload requests
    ETags,          \* content identities; equal bytes have equal ETags
    Gone,           \* upstream has no such object
    Paths,          \* which populate paths the configuration enables
    Evicts,         \* TRUE: stored bodies and blocks may be evicted
    Faults          \* TRUE: store calls may fail, upstream responses may be lost

TokenFirstPaths == {"get", "warm", "rewarm", "tee", "meta", "footer"}

LateTokenPaths == {"reval", "range"}

AllPaths == TokenFirstPaths \cup LateTokenPaths \cup {"heal"}

ASSUME CoordinationAssumption ==
    /\ Gone \notin ETags
    /\ Paths \subseteq AllPaths
    /\ Evicts \in BOOLEAN /\ Faults \in BOOLEAN

VARIABLES
    upstream,       \* [n, etag]: the n-th state of the object and its content
    row,            \* [live, ver, n, etag]: the metadata key in the store
    content,        \* ETags whose ETag-addressed body or blocks are stored
    pop,            \* the populates and repairs
    wr,             \* the mutating requests
    settled         \* newest upstream state whose invalidation has succeeded

vars == <<upstream, row, content, pop, wr, settled>>

PopSteps == {"idle", "fetch", "gate", "token", "content", "recheck", "commit",
             "observe", "remove", "done"}

WriterSteps == {"idle", "pre", "forward", "converge", "done"}

PopRecords == [pc: PopSteps, path: AllPaths, tok: Nat, n: Nat,
               etag: ETags \cup {Gone}, stale: ETags \cup {Gone}]

WriterRecords == [pc: WriterSteps, op: {"put", "delete"}, exp: Nat, n: Nat,
                  etag: ETags \cup {Gone}, retried: BOOLEAN, ok: BOOLEAN]

(* Type invariant of the store, upstream, the populates and the writers.      *)
TypeOK ==
    /\ upstream \in [n: Nat, etag: ETags \cup {Gone}]
    /\ row \in [live: BOOLEAN, ver: Nat, n: Nat, etag: ETags \cup {Gone}]
    /\ content \subseteq ETags
    /\ pop \in [Requests -> PopRecords]
    /\ wr \in [Writers -> WriterRecords]
    /\ settled \in Nat

(* A request before it starts or after it has returned holds nothing.         *)
NoTask(pc) == [pc |-> pc, path |-> "heal", tok |-> 0, n |-> 0,
               etag |-> Gone, stale |-> Gone]

NoWrite(pc) == [pc |-> pc, op |-> "put", exp |-> 0, n |-> 0, etag |-> Gone,
                retried |-> FALSE, ok |-> FALSE]

(* r goes on at step pc; a request that is done keeps nothing.                *)
Goto(r, pc) ==
    pop' = [pop EXCEPT ![r] = IF pc = "done" THEN NoTask("done")
                              ELSE [pop[r] EXCEPT !.pc = pc]]

AbsentRow(ver) == [live |-> FALSE, ver |-> ver, n |-> 0, etag |-> Gone]

LiveRow(ver, n, etag) == [live |-> TRUE, ver |-> ver, n |-> n, etag |-> etag]

(* The object is cached, or there is none: a cold cache is what ExpireMeta    *)
(* and EvictContent leave.                                                    *)
Init ==
    /\ upstream \in [n: {0}, etag: ETags \cup {Gone}]
    /\ row = IF upstream.etag = Gone THEN AbsentRow(1)
             ELSE LiveRow(1, 0, upstream.etag)
    /\ content = {upstream.etag} \ {Gone}
    /\ pop = [r \in Requests |-> NoTask("idle")]
    /\ wr = [w \in Writers |-> NoWrite("idle")]
    /\ settled = 0

-----------------------------------------------------------------------------
(* The store (ocache), as its callers use it.  The key's version moves with   *)
(* every committed write and every fenced delete, so one number serves as the *)
(* version of a live row and as the token of an absent one.                   *)

PutUnconditionally(expected, n, etag) == row' = LiveRow(row.ver + 1, n, etag)

PutIfVersion(expected, n, etag) ==
    row' = IF expected = row.ver THEN LiveRow(row.ver + 1, n, etag) ELSE row

FencedRow == AbsentRow(row.ver + 1)

(* DeleteIfVersion(0) fences an absent key; any other expected version        *)
(* removes the live row that carries it.                                      *)
DeleteApplies(expected) ==
    IF row.live THEN expected = row.ver ELSE expected = 0

(* The current version a refused DeleteIfVersion reports.                     *)
ReportedVersion == IF row.live THEN row.ver ELSE 0

ExpireMeta ==
    /\ row.live
    /\ row' = AbsentRow(row.ver)
    /\ UNCHANGED <<upstream, content, pop, wr, settled>>

EvictContent(e) ==
    /\ Evicts
    /\ e \in content
    /\ content' = content \ {e}
    /\ UNCHANGED <<upstream, row, pop, wr, settled>>

-----------------------------------------------------------------------------
(* The mutating handlers: invalidate, forward, invalidate again on a 2xx.     *)

PreForwardInvalidate(w, op) ==
    /\ wr[w].pc = "idle"
    /\ wr' = [wr EXCEPT ![w].pc = "pre", ![w].op = op]
    /\ UNCHANGED <<upstream, row, content, pop, settled>>

(* What the rest of the system can tell of a mutation that has returned:      *)
(* whether upstream confirmed it, and the ETag it reported.                   *)
Returned(w) == [NoWrite("done") EXCEPT !.ok = wr[w].ok, !.etag = wr[w].etag]

(* One DeleteIfVersion of the deleteMeta loop; a refusal is retried with the  *)
(* version it reports.                                                        *)
DeleteMeta(w) ==
    /\ wr[w].pc \in {"pre", "converge"}
    /\ IF DeleteApplies(wr[w].exp)
         THEN /\ row' = FencedRow
              /\ wr' = [wr EXCEPT ![w] =
                          IF wr[w].pc = "pre"
                            THEN [wr[w] EXCEPT !.pc = "forward", !.exp = 0]
                            ELSE Returned(w)]
              /\ settled' = IF wr[w].pc = "converge" /\ wr[w].n > settled
                              THEN wr[w].n ELSE settled
         ELSE /\ wr' = [wr EXCEPT ![w].exp = ReportedVersion]
              /\ UNCHANGED <<row, settled>>
    /\ UNCHANGED <<upstream, content, pop>>

(* deleteMeta returns an error, whether or not the store applied the delete:  *)
(* the pre-forward call ignores it, the converging call is retried once and   *)
(* then given up.                                                             *)
ConvergeInvalidationFails(w) ==
    /\ Faults
    /\ wr[w].pc \in {"pre", "converge"}
    /\ wr' = [wr EXCEPT ![w] =
                IF wr[w].pc = "pre"
                  THEN [wr[w] EXCEPT !.pc = "forward", !.exp = 0]
                ELSE IF wr[w].retried THEN Returned(w)
                ELSE [wr[w] EXCEPT !.retried = TRUE, !.exp = 0]]
    /\ row' \in {row} \cup (IF DeleteApplies(wr[w].exp) THEN {FencedRow} ELSE {})
    /\ UNCHANGED <<upstream, content, pop, settled>>

(* Upstream applies the mutation and the handler sees its 2xx.                *)
ForwardApplied(w, e) ==
    /\ wr[w].pc = "forward"
    /\ (wr[w].op = "delete") = (e = Gone)
    /\ upstream' = [n |-> upstream.n + 1, etag |-> e]
    /\ wr' = [wr EXCEPT ![w].pc = "converge", ![w].n = upstream.n + 1,
                        ![w].etag = e, ![w].ok = TRUE]
    /\ UNCHANGED <<row, content, pop, settled>>

(* Upstream applies the mutation but no 2xx reaches the handler, which then   *)
(* does not converge.                                                         *)
ForwardResponseLost(w, e) ==
    /\ Faults
    /\ wr[w].pc = "forward"
    /\ (wr[w].op = "delete") = (e = Gone)
    /\ upstream' = [n |-> upstream.n + 1, etag |-> e]
    /\ wr' = [wr EXCEPT ![w] = NoWrite("done")]
    /\ UNCHANGED <<row, content, pop, settled>>

ForwardRejected(w) ==
    /\ wr[w].pc = "forward"
    /\ wr' = [wr EXCEPT ![w] = NoWrite("done")]
    /\ UNCHANGED <<upstream, row, content, pop, settled>>

WriterNext(w) ==
    \/ \E op \in {"put", "delete"}: PreForwardInvalidate(w, op)
    \/ DeleteMeta(w)
    \/ ConvergeInvalidationFails(w)
    \/ \E e \in ETags \cup {Gone}:
         ForwardApplied(w, e) \/ ForwardResponseLost(w, e)
    \/ ForwardRejected(w)

-----------------------------------------------------------------------------
(* Where a populate starts: its decision-time token is the key's version.     *)

Begin(r, path, pc, tok, stale) ==
    /\ path \in Paths
    /\ pop[r].pc = "idle"
    /\ pop' = [pop EXCEPT ![r].path = path, ![r].pc = pc,
                          ![r].tok = tok, ![r].stale = stale]
    /\ UNCHANGED <<upstream, row, content, wr, settled>>

(* A successful PUT has converged (or given up converging).                   *)
Written(e) ==
    \E w \in Writers: wr[w].pc = "done" /\ wr[w].ok /\ wr[w].etag = e

(* GET miss: the token is read before the upstream request, whatever it is    *)
(* that makes the request a miss (absence, forced revalidation, a non-public  *)
(* entry for an anonymous reader).                                            *)
StreamFromUpstreamToken(r) == Begin(r, "get", "fetch", row.ver, Gone)

(* Warm after a successful write: the token repairs exactly what the write's  *)
(* invalidation left.                                                         *)
WarmToken(r) ==
    /\ \E e \in ETags: Written(e)
    /\ Begin(r, "warm", "fetch", row.ver, Gone)

(* Background refetch after a canceled GET or a range miss: only while the    *)
(* entry is absent.                                                           *)
RewarmToken(r) == ~row.live /\ Begin(r, "rewarm", "fetch", row.ver, Gone)

(* Write-through of a teed PUT body.                                          *)
TeeToken(r, e) == Written(e) /\ Begin(r, "tee", "fetch", row.ver, e)

(* Block-mode metadata of a completed multipart upload, from a HEAD.          *)
MetaOnWriteToken(r, e) ==
    Written(e) /\ ~row.live /\ Begin(r, "meta", "fetch", row.ver, e)

(* Footer warm of a written parquet object; a visible entry is never          *)
(* rewritten by it.                                                           *)
FooterToken(r) ==
    /\ ~row.live
    /\ \E e \in ETags: Written(e)
    /\ Begin(r, "footer", "fetch", row.ver, Gone)

(* Forced revalidation of a hit: the conditional GET names the hit's ETag.    *)
RevalidateStart(r) ==
    row.live /\ Begin(r, "reval", "fetch", 0, row.etag)

(* Range miss: forwarded at once, no token yet.                               *)
RangeStart(r) == Begin(r, "range", "fetch", 0, Gone)

(* A reader drops the entry it holds: its body or a block is gone, or the     *)
(* client forced the revalidation of a block-mode entry.                      *)
HealStart(r) == row.live /\ Begin(r, "heal", "observe", 0, row.etag)

-----------------------------------------------------------------------------
(* Upstream answers.  A 404, an error or an uncacheable answer is Abandon.    *)

(* The status of the answer is not looked at.                                 *)
FetchedAnyStatus(r, next) ==
    /\ pop[r].pc = "fetch"
    /\ pop' = [pop EXCEPT ![r].pc = next, ![r].n = upstream.n,
                          ![r].etag = upstream.etag]
    /\ UNCHANGED <<upstream, row, content, wr, settled>>

Fetched(r, next) ==
    /\ pop[r].pc = "fetch"
    /\ upstream.etag # Gone
    /\ pop' = [pop EXCEPT ![r].pc = next, ![r].n = upstream.n,
                          ![r].etag = upstream.etag]
    /\ UNCHANGED <<upstream, row, content, wr, settled>>

StreamFromUpstreamFetch(r) == pop[r].path = "get" /\ Fetched(r, "content")

FetchFullObjectToCache(r) ==
    pop[r].path \in {"warm", "rewarm"} /\ Fetched(r, "content")

(* The HEAD must still describe the version that was teed.                    *)
CacheTeedBodyFromHead(r) ==
    /\ pop[r].path = "tee"
    /\ upstream.etag = pop[r].stale
    /\ Fetched(r, "content")

(* Anything that keeps the teed body from being cached falls back to a warm   *)
(* with a token of its own.                                                   *)
TeeFallbackWarm(r) ==
    /\ pop[r].path = "tee"
    /\ \/ pop[r].pc = "fetch" /\ upstream.etag # pop[r].stale
       \/ pop[r].pc = "commit" /\ pop[r].tok # row.ver
       \/ Faults /\ pop[r].pc \in {"fetch", "content", "commit"}
    /\ pop' = [pop EXCEPT ![r].path = "warm", ![r].pc = "fetch",
                          ![r].tok = row.ver]
    /\ UNCHANGED <<upstream, row, content, wr, settled>>

EstablishBlockMetaFromHead(r) ==
    /\ pop[r].path = "meta"
    /\ upstream.etag = pop[r].stale
    /\ Fetched(r, "recheck")

ReadParquetTrailer(r) == pop[r].path = "footer" /\ Fetched(r, "content")

(* Another ETag: a 200, and the stale entry is removed before the             *)
(* replacement's token is read.  A 304 is served from the cache (Abandon).    *)
RevalidationAnswer(r) ==
    /\ pop[r].path = "reval"
    /\ upstream.etag # pop[r].stale
    /\ Fetched(r, "observe")

HandleRange(r) == pop[r].path = "range" /\ Fetched(r, "gate")

-----------------------------------------------------------------------------
(* Guarded removal (deleteMetaIfETag): read, compare, delete that version.    *)

AfterRemoval(r) == IF pop[r].path = "reval" THEN "token" ELSE "done"

ObserveStale(r) ==
    /\ pop[r].pc = "observe"
    /\ IF row.live /\ row.etag = pop[r].stale
         THEN pop' = [pop EXCEPT ![r].tok = row.ver, ![r].pc = "remove"]
         ELSE Goto(r, AfterRemoval(r))
    /\ UNCHANGED <<upstream, row, content, wr, settled>>

DeleteMetaIfETagUnguarded(r) ==
    /\ pop[r].pc = "remove"
    /\ row' = IF row.live THEN FencedRow ELSE row
    /\ Goto(r, AfterRemoval(r))
    /\ UNCHANGED <<upstream, content, wr, settled>>

DeleteMetaIfETag(r) ==
    /\ pop[r].pc = "remove"
    /\ row' = IF row.live /\ row.ver = pop[r].tok THEN FencedRow ELSE row
    /\ Goto(r, AfterRemoval(r))
    /\ UNCHANGED <<upstream, content, wr, settled>>

(* The removal is best effort: after a store error the caller goes on.        *)
InvalidateStaleMetaFails(r) ==
    /\ Faults
    /\ pop[r].pc \in {"observe", "remove"}
    /\ Goto(r, AfterRemoval(r))
    /\ UNCHANGED <<upstream, row, content, wr, settled>>

-----------------------------------------------------------------------------
(* The two paths that read their token after upstream has answered.           *)

RevalidationExpectedVersion(r) ==
    /\ pop[r].path = "reval" /\ pop[r].pc = "token"
    /\ IF row.live /\ row.etag # pop[r].stale
         THEN Goto(r, "done")
         ELSE pop' = [pop EXCEPT ![r].pc = "content", ![r].tok = row.ver]
    /\ UNCHANGED <<upstream, row, content, wr, settled>>

(* A failed look counts as absence.                                           *)
RangeAbsenceGate(r) ==
    /\ pop[r].pc = "gate"
    /\ \/ row.live /\ Goto(r, "done")
       \/ (~row.live \/ Faults) /\ Goto(r, "token")
    /\ UNCHANGED <<upstream, row, content, wr, settled>>

PopulateBlockModeToken(r) ==
    /\ pop[r].path = "range" /\ pop[r].pc = "token"
    /\ pop' = [pop EXCEPT ![r].pc = "content", ![r].tok = row.ver]
    /\ UNCHANGED <<upstream, row, content, wr, settled>>

-----------------------------------------------------------------------------
(* Content first, metadata last.                                              *)

(* The token is read only now that the body is stored.                        *)
PutBodyStreamThenToken(r) ==
    /\ pop[r].pc = "content"
    /\ pop[r].path \in {"get", "warm", "rewarm", "tee", "reval"}
    /\ content' = content \cup {pop[r].etag}
    /\ pop' = [pop EXCEPT ![r].pc = "commit", ![r].tok = row.ver]
    /\ UNCHANGED <<upstream, row, wr, settled>>

(* The body (or every block of it) is streamed into the store under its ETag. *)
PutBodyStream(r) ==
    /\ pop[r].pc = "content"
    /\ pop[r].path \in {"get", "warm", "rewarm", "tee", "reval"}
    /\ content' = content \cup {pop[r].etag}
    /\ Goto(r, "commit")
    /\ UNCHANGED <<upstream, row, wr, settled>>

(* The touched blocks, each present already or fetched with its ETag checked; *)
(* a block that is present is not checked against upstream.  An answer for    *)
(* another version is a stale signal.                                         *)
FetchBlocksToCache(r) ==
    /\ pop[r].pc = "content"
    /\ pop[r].path \in {"range", "footer"}
    /\ IF pop[r].etag \in content \/ upstream.etag = pop[r].etag
         THEN /\ content' = content \cup {pop[r].etag}
              /\ Goto(r, "recheck")
         ELSE /\ pop' = [pop EXCEPT ![r].pc = "observe",
                                    ![r].stale = pop[r].etag]
              /\ UNCHANGED content
    /\ UNCHANGED <<upstream, row, wr, settled>>

(* finalizeBlockModeMeta backs off in favour of any visible entry; a failed   *)
(* look leaves it to the token.                                               *)
FinalizeBlockModeMeta(r) ==
    /\ pop[r].pc = "recheck"
    /\ \/ row.live /\ Goto(r, "done")
       \/ (~row.live \/ Faults) /\ Goto(r, "commit")
    /\ UNCHANGED <<upstream, row, content, wr, settled>>

(* The commit under the token; a lost precondition leaves the newer state.    *)
PutMetaIfVersion(r) ==
    /\ pop[r].pc = "commit"
    /\ PutIfVersion(pop[r].tok, pop[r].n, pop[r].etag)
    /\ Goto(r, "done")
    /\ UNCHANGED <<upstream, content, wr, settled>>

(* Every early return that publishes nothing: an upstream error or 404, an    *)
(* uncacheable answer, a refused slot or task, a short body, a shed, a        *)
(* deadline, the end of the node.                                             *)
Abandon(r) ==
    /\ pop[r].pc \notin {"idle", "done"}
    /\ Goto(r, "done")
    /\ UNCHANGED <<upstream, row, content, wr, settled>>

RequestNext(r) ==
    \/ StreamFromUpstreamToken(r) \/ WarmToken(r) \/ RewarmToken(r)
    \/ \E e \in ETags: TeeToken(r, e) \/ MetaOnWriteToken(r, e)
    \/ FooterToken(r) \/ RevalidateStart(r) \/ RangeStart(r) \/ HealStart(r)
    \/ StreamFromUpstreamFetch(r) \/ FetchFullObjectToCache(r)
    \/ CacheTeedBodyFromHead(r) \/ TeeFallbackWarm(r)
    \/ EstablishBlockMetaFromHead(r) \/ ReadParquetTrailer(r)
    \/ RevalidationAnswer(r) \/ HandleRange(r)
    \/ ObserveStale(r) \/ DeleteMetaIfETag(r) \/ InvalidateStaleMetaFails(r)
    \/ RevalidationExpectedVersion(r)
    \/ RangeAbsenceGate(r) \/ PopulateBlockModeToken(r)
    \/ PutBodyStream(r) \/ FetchBlocksToCache(r) \/ FinalizeBlockModeMeta(r)
    \/ PutMetaIfVersion(r) \/ Abandon(r)

(* No request is in flight: the proxy waits for the next one.                 *)
Quiescent ==
    /\ \A r \in Requests: pop[r].pc \in {"idle", "done"}
    /\ \A w \in Writers: wr[w].pc \in {"idle", "done"}
    /\ UNCHANGED vars

Next ==
    \/ \E w \in Writers: WriterNext(w)
    \/ \E r \in Requests: RequestNext(r)
    \/ ExpireMeta
    \/ \E e \in ETags: EvictContent(e)
    \/ Quiescent

Spec == Init /\ [][Next]_vars

(* What has been started runs on: goroutines are scheduled, upstream and the  *)
(* store answer or time out.  Nobody has to send another request.             *)
Fairness ==
    /\ \A r \in Requests: WF_vars(pop[r].pc # "idle" /\ RequestNext(r))
    /\ \A w \in Writers: WF_vars(wr[w].pc # "idle" /\ WriterNext(w))

FairSpec == Spec /\ Fairness

-----------------------------------------------------------------------------
(* Properties                                                                 *)

(* Once the invalidation that follows a mutation's 2xx has succeeded          *)
(* (convergeInvalidation), no entry older than that mutation is visible or    *)
(* becomes visible again: every populate that fetched before it loses its     *)
(* commit.                                                                    *)
ReadAfterWrite == row.live => row.n >= settled

(* Once the racing writes have settled, the visible entry is exactly what     *)
(* upstream holds: neither an older version nor a deleted object resurrected  *)
(* by an earlier request's populate.                                          *)
SettledMatches ==
    row.live /\ settled = upstream.n => row.etag = upstream.etag

(* Why the token decides: it never runs ahead of the key's version, and a     *)
(* populate that has fetched and whose token is still the key's version has   *)
(* fetched a state that no settled mutation and no visible entry is newer     *)
(* than (GetMetaWithVersion before the fetch, PutMetaIfVersion after it).     *)
PopulateOrdered(p) ==
    /\ p.tok <= row.ver
    /\ p.pc \in {"content", "recheck", "commit"} =>
         /\ p.n <= upstream.n
         /\ p.n = upstream.n => p.etag = upstream.etag
         /\ p.tok = row.ver =>
              settled <= p.n /\ (row.live => row.n <= p.n)

TokensOrdered == \A r \in Requests: PopulateOrdered(pop[r])

(* A commit (putMeta under a decision-time token) never replaces a visible    *)
(* entry by an older one.                                                     *)
NeverDowngrades ==
    [][row.live /\ row'.live => row'.n >= row.n]_vars

(* A guarded removal (invalidateStaleMeta) takes away only an entry with the  *)
(* ETag its caller saw as stale, never one that replaced it between the       *)
(* compare and the delete.                                                    *)
GuardedRemoval ==
    [][\A r \in Requests:
         /\ pop[r].pc = "remove"
         /\ pop'[r].pc # "remove"
         /\ row.live /\ ~row'.live
         => row.etag = pop[r].stale]_vars

(* When the racing writes have settled the entry, if there is one, is exactly *)
(* what upstream holds, and stays so (no store faults, no lost responses).    *)
EventuallyFresh == <>[](row.live => row.n = upstream.n)
=============================================================================
