----------------------------- MODULE BlockServe -----------------------------
(* GET requests served from a block-mode cache entry (proxy/block_cache.go),  *)
(* over the coalesced block fetches of BlockFetch.                            *)
(*                                                                            *)
(* An entry is metadata (an ETag, a layout, two hints) over blocks that the   *)
(* cache evicts independently.  A request picks one of five ways to serve:    *)
(* assemble a short range in memory, stage a certified span, stage the first  *)
(* slice of a complete entry, or probe and fetch what is missing, the last    *)
(* two then streaming.  Before the headers are committed a failure leaves the *)
(* request to the caller, which forwards it; after that only the remainder    *)
(* of the same version may complete the body.  Entries are established by     *)
(* the two populate paths, blocks first and metadata last.                    *)
EXTENDS BlockFetch, Sequences

CONSTANTS
    Size,           \* the object's length in bytes, of every version
    BlockSize,      \* cache.block_size
    Jobs,           \* GETs and populates: [job, full, parts, touched]
    Scenarios,      \* initial states: [work, faults, etag, live, complete,
                    \* span, cached], with a job or None for each caller
    MaxVer,         \* bound: invalidations for other reasons stop here
    Fanout,         \* maxRangeBlockFanout
    InlineFetches,  \* maxInlineFetchesPerServe
    Window,         \* maxBlockServePrefetch
    Absent          \* a block the cache reported absent

VARIABLES
    entry,          \* the metadata row
    drop,           \* the invalidateStaleMeta each of the requests makes
    rd,             \* the requests and populates, one per caller of BlockFetch
    seen,           \* history: blocks cached at some time under the live row
    doomed          \* history: version of the row each request knows has to go

vars == <<fetchVars, entry, drop, rd, seen, doomed>>

Nil == -1

ASSUME BlockServeAssumption ==
    /\ Size \in Nat /\ BlockSize \in 1..Size
    /\ Blocks = 0..((Size - 1) \div BlockSize)
    /\ {Fanout, InlineFetches, Window, MaxVer} \subseteq Nat
    /\ Versions \subseteq Nat /\ 1 \in Versions
    /\ Absent \notin Keys /\ Absent # None /\ None \notin Jobs
    /\ Jobs \subseteq [job: {"get", "populate", "split"}, full: BOOLEAN,
          parts: Seq([from: Nat \cup {Nil}, to: Nat \cup {Nil}]),
          touched: SUBSET Blocks]
    /\ Scenarios \subseteq [work: [Callers -> Jobs \cup {None}],
          faults: 0..MaxFaults, etag: Versions, live: BOOLEAN,
          complete: BOOLEAN, span: SUBSET Blocks, cached: SUBSET Blocks]

-----------------------------------------------------------------------------
(* Block and range arithmetic, with the language's min and max.               *)

min(a, b) == IF a <= b THEN a ELSE b

max(a, b) == IF a >= b THEN a ELSE b

BlockStart(i) == i * BlockSize

(* blockBounds clamps the last block to the object's end.                     *)
BlockEnd(i) == min(BlockStart(i) + BlockSize - 1, Size - 1)

coveringBlocks(s, e) == (s \div BlockSize)..(e \div BlockSize)

(* Mutant: the offsets are not made relative to the block's start.            *)
ObjectRange(i, s, e) == [from |-> max(s, BlockStart(i)), to |-> min(e, BlockEnd(i))]

(* The part of object bytes s..e in block i, as offsets into the block.       *)
blockLocalRange(i, s, e) ==
    [from |-> max(s, BlockStart(i)) - BlockStart(i),
     to   |-> min(e, BlockEnd(i)) - BlockStart(i)]

(* The bytes at these offsets of a buffer with the content of block k: each   *)
(* is the version it belongs to and its place in the object.                  *)
Slice(k, local) ==
    [n \in 1..(local.to - local.from + 1) |->
        <<k[1], BlockStart(k[2]) + local.from + n - 1>>]

(* One part of a Range header: "from-to", "from-" or "-to".                   *)
ParsePart(p) ==
    [start |-> IF p.from = Nil THEN max(0, Size - p.to) ELSE p.from,
     end   |-> IF p.from = Nil \/ p.to = Nil THEN Size - 1
               ELSE min(p.to, Size - 1)]

(* parseRangeHeader: the ranges, or none if any part is out of bounds.        *)
parseRangeHeader(parts) ==
    LET ranges == [n \in 1..Len(parts) |-> ParsePart(parts[n])]
        Invalid(b) == b.start < 0 \/ b.start >= Size \/ b.start > b.end IN
    IF \E n \in 1..Len(parts) : Invalid(ranges[n]) THEN <<>> ELSE ranges

(* blockSpanForRange: the hint a range leaves, of at most Fanout blocks.      *)
blockSpanForRange(touched) ==
    IF Cardinality(touched) <= Fanout THEN touched ELSE {}

certifiedRangeBlockSpanCovers(span, needed) == needed \subseteq span

-----------------------------------------------------------------------------
Entries == [live: BOOLEAN, ver: Nat, etag: Versions, complete: BOOLEAN,
            span: SUBSET Blocks]

Readers == Callers

NoJob == [job |-> "none", full |-> FALSE, parts |-> <<>>, touched |-> {}]

(* token is the version a later metadata write is conditioned on; got is what *)
(* the request holds of each block: its bytes, a miss, or nothing yet.        *)
ReadRecords ==
    [pc: {"idle", "token", "scan", "fetch", "copy", "first", "stream", "recover",
          "refetch", "remainder", "giveup", "split", "publish", "done"},
     path: {"assemble", "certified", "first", "probe", "populate", "split"},
     piped: BOOLEAN, req: Jobs \cup {NoJob}, start: Nat, end: Nat, etag: Versions,
     complete: BOOLEAN, token: Nat, i: Nat,
     got: [Blocks -> Keys \cup {None, Absent}], left: Nat, mostly: BOOLEAN,
     sent: Seq(Versions \X Nat),
     answer: {"none", "ok", "416", "upstream", "truncated"}]

(* ver is the version the row was read with; "failed" after a store error.    *)
DropRecords == [pc: {"none", "read", "delete", "failed"}, ver: Nat]

NoDrop == [pc |-> "none", ver |-> 0]

Nothing == [i \in Blocks |-> None]

Idle(q) == [pc |-> IF q = None THEN "done" ELSE "idle", path |-> "probe",
            piped |-> FALSE, req |-> IF q = None THEN NoJob ELSE q,
            start |-> 0, end |-> 0, etag |-> 1, complete |-> FALSE, token |-> 0,
            i |-> 0, got |-> Nothing, left |-> 0, mostly |-> FALSE,
            sent |-> <<>>, answer |-> "none"]

(* An entry of the current version, of which the cache has kept some blocks,  *)
(* or none.                                                                   *)
Init ==
    /\ FetchInit
    /\ \E sc \in Scenarios :
         /\ faults = sc.faults
         /\ upstream = sc.etag
         /\ blocks = {sc.etag} \X sc.cached
         /\ entry = [live |-> sc.live, ver |-> 1, etag |-> sc.etag,
                     complete |-> sc.complete, span |-> sc.span]
         /\ drop = [r \in Readers |-> NoDrop] /\ doomed = [r \in Readers |-> 0]
         /\ rd = [r \in Readers |-> Idle(sc.work[r])]
         /\ seen = IF sc.complete THEN Blocks ELSE IF sc.live THEN sc.cached ELSE {}

-----------------------------------------------------------------------------
Needed(r) == coveringBlocks(rd[r].start, rd[r].end)

Missing(r) == {i \in Needed(r) : rd[r].got[i] = Absent}

Cached(r, i) == <<rd[r].etag, i>> \in blocks

(* What the request takes from a buffer with the content of block k.          *)
Part(r, k, i) == Slice(k, blockLocalRange(i, rd[r].start, rd[r].end))

(* The covering blocks' slices put together in order.                         *)
Assembled(r, got) ==
    LET body[n \in 0..Cardinality(Needed(r))] ==
          IF n = 0 THEN <<>>
          ELSE LET i == rd[r].start \div BlockSize + n - 1
               IN  body[n - 1] \o Part(r, got[i], i)
    IN  body[Cardinality(Needed(r))]

Become(r, rec) == rd' = [rd EXCEPT ![r] = rec]

(* What is left of a request that is over.  A promotion may still be pending  *)
(* if the blocks of a full GET were all made present.                         *)
Ended(r, answer) ==
    [Idle(rd[r].req) EXCEPT !.pc = "done", !.etag = rd[r].etag,
         !.sent = rd[r].sent, !.answer = answer,
         !.token = IF answer = "upstream" THEN 0 ELSE rd[r].token]

End(r, answer) == Become(r, Ended(r, answer))

(* invalidateStaleMeta: DeleteIfETag reads the row, and deletes it under the  *)
(* version it read if it has the stale ETag.  The request waits for it.       *)
invalidateStaleMeta(r) ==
    /\ drop' = [drop EXCEPT ![r].pc = "read"]
    /\ UNCHANGED entry

DropRead(r) ==
    /\ drop[r].pc = "read"
    /\ \/ /\ drop' = [drop EXCEPT ![r] =
                IF entry.live /\ entry.etag = rd[r].etag
                  THEN [pc |-> "delete", ver |-> entry.ver] ELSE NoDrop]
          /\ UNCHANGED faults
       \/ Fault /\ drop' = [drop EXCEPT ![r].pc = "failed"]
    /\ UNCHANGED <<upstream, blocks, inflight, fetch, pool, content, lease, entry, rd>>

(* A row that was promoted or replaced since the read stays.                  *)
DropDelete(r) ==
    /\ drop[r].pc = "delete"
    /\ LET gone == IF entry.live /\ entry.ver = drop[r].ver
                     THEN [entry EXCEPT !.live = FALSE, !.ver = @ + 1] ELSE entry IN
       \/ entry' = gone /\ drop' = [drop EXCEPT ![r] = NoDrop] /\ UNCHANGED faults
       \/ /\ Fault /\ entry' \in {entry, gone}
          /\ drop' = [drop EXCEPT ![r].pc = "failed"]
    /\ UNCHANGED <<upstream, blocks, inflight, fetch, pool, content, lease, rd>>

(* Whether n blocks are streamed through the prefetch window: only several    *)
(* are, and only if the staging budget has room.                              *)
Pipelined(n) == {FALSE, n > 1}

(* The ways to serve bytes s..e the code tries in order; each but the last    *)
(* needs a staging reservation, which may be declined.                        *)
Paths(full, s, e) ==
    LET short == ~full /\ e - s + 1 <= BlockSize
        needed == coveringBlocks(s, e) IN
    {p \in {"assemble", "certified", "first", "probe"} :
       /\ p = "assemble" => short
       /\ p = "certified" => /\ ~full /\ ~short /\ Cardinality(needed) > 1
                             /\ certifiedRangeBlockSpanCovers(entry.span, needed)
       /\ p = "first" => ~short /\ entry.complete}

(* Where a path starts.  A full GET of an entry not known complete first      *)
(* reads the token of its promotion.                                          *)
Enter(r, rec, path) ==
    \E piped \in Pipelined(Cardinality(coveringBlocks(rec.start, rec.end))
                            - IF path = "first" THEN 1 ELSE 0) :
      Become(r, [rec EXCEPT
        !.path = path, !.got = Nothing, !.left = InlineFetches,
        !.piped = piped /\ path \in {"first", "probe"},
        !.i = rec.start \div BlockSize,
        !.pc = IF path = "first" THEN "first"
               ELSE IF rec.req.full /\ ~rec.complete THEN "token" ELSE "scan"])

(* serveRangeFromBlockCache and serveFullObjectFromBlockCache.                *)
Route(r) ==
    /\ rd[r].pc = "idle" /\ rd[r].req.job = "get" /\ entry.live
    /\ LET q == rd[r].req
           ranges == IF q.full THEN <<[start |-> 0, end |-> Size - 1]>>
                     ELSE parseRangeHeader(q.parts)
           b == ranges[1] IN
       IF Len(ranges) # 1
         THEN End(r, "416")
         ELSE \E path \in Paths(q.full, b.start, b.end) :
                Enter(r, [rd[r] EXCEPT !.start = b.start, !.end = b.end,
                            !.etag = entry.etag, !.complete = entry.complete], path)
    /\ UNCHANGED <<fetchVars, entry, drop>>

(* The decision-time token of a promotion, if its own row is the one served,  *)
(* or of a populate.                                                          *)
ReadToken(r) ==
    /\ rd[r].pc = "token"
    /\ IF rd[r].path = "populate"
         THEN Become(r, [rd[r] EXCEPT !.pc = "fetch", !.token = entry.ver])
         ELSE Become(r, [rd[r] EXCEPT !.pc = "scan", !.token =
                IF entry.live /\ entry.etag = rd[r].etag THEN entry.ver ELSE 0])
    /\ UNCHANGED <<fetchVars, entry, drop>>

-----------------------------------------------------------------------------
(* The pre-commit pass over the covering blocks: reads for an assembled or    *)
(* certified range, probes otherwise.                                         *)

(* ensureBlocksCached gives up where fetching block by block would amplify:   *)
(* most blocks of a full GET are absent, or more than Fanout of a range.      *)
Amplifies(r, got, last) ==
    LET missing == Cardinality({i \in Needed(r) : got[i] = Absent}) IN
    /\ rd[r].path = "probe"
    /\ IF rd[r].req.full THEN last /\ 2 * missing > Cardinality(Needed(r))
       ELSE missing > Fanout

(* A certified range abandoned: the complete or the probe path takes over.    *)
Retry(r) ==
    \E path \in {"probe"} \cup (IF rd[r].complete THEN {"first"} ELSE {}) :
      Enter(r, rd[r], path)

(* The pass is over.                                                          *)
AfterScan(r, got) ==
    IF \E i \in Needed(r) : got[i] = Absent
      THEN Become(r, [rd[r] EXCEPT !.got = got, !.pc = "fetch"])
    ELSE IF rd[r].path = "probe"
      THEN Become(r, [rd[r] EXCEPT !.pc = "stream", !.got = Nothing])
    ELSE Become(r, [Ended(r, "ok") EXCEPT !.sent = Assembled(r, got)])

(* One block of the pass, in order but for the concurrent reads of a          *)
(* certified range.  A transient error is never taken for absence.            *)
Scan(r, i) ==
    /\ rd[r].pc = "scan" /\ i \in Needed(r) /\ rd[r].got[i] = None
    /\ \/ rd[r].path = "certified"
       \/ \A j \in Needed(r) : j < i => rd[r].got[j] # None
    /\ LET got == [rd[r].got EXCEPT ![i] =
                     IF Cached(r, i) THEN <<rd[r].etag, i>> ELSE Absent]
           last == \A j \in Needed(r) : got[j] # None IN
       \/ /\ Amplifies(r, got, last)
          /\ End(r, "upstream")
          /\ IF rd[r].req.full THEN invalidateStaleMeta(r)
             ELSE UNCHANGED <<entry, drop>>
          /\ UNCHANGED faults
       \/ /\ ~Amplifies(r, got, last)
          /\ IF rd[r].path = "certified" /\ got[i] = Absent THEN Retry(r)
             ELSE IF last THEN AfterScan(r, got)
             ELSE Become(r, [rd[r] EXCEPT !.got = got])
          /\ UNCHANGED <<entry, drop, faults>>
       \/ /\ Fault /\ UNCHANGED <<entry, drop>>
          /\ \/ End(r, "upstream")
             \/ rd[r].path = "certified" /\ i # rd[r].i /\ Retry(r)
    /\ UNCHANGED <<upstream, blocks, inflight, fetch, pool, content, lease>>

-----------------------------------------------------------------------------
(* fetchBlocksForAssembly and fetchBlocksToCache.                             *)

Answers(r) == {lease[r][i].pc : i \in Missing(r)}

FetchMissing(r, i) ==
    /\ rd[r].pc = "fetch" /\ i \in Missing(r)
    /\ IF rd[r].path = "assemble"
         THEN beginBlockFetch(r, rd[r].etag, i, "serve", TRUE)
         ELSE beginBlockFetch(r, rd[r].etag, i, "cache", FALSE)
    /\ UNCHANGED <<entry, drop, rd>>

(* Mutant: any error hides the stale signal of another block.                 *)
StaleIfAlone(answers) == "stale" \in answers /\ answers \cap {"error", "canceled"} = {}

(* A stale signal goes before every other error.                              *)
IsStale(answers) == "stale" \in answers

(* All fetches have answered; a stale signal invalidates the entry.           *)
FetchesDone(r) ==
    /\ rd[r].pc = "fetch" /\ Answers(r) \cap {"out", "serve", "cache"} = {}
    /\ IF IsStale(Answers(r)) THEN invalidateStaleMeta(r)
       ELSE UNCHANGED <<entry, drop>>
    /\ Become(r, [rd[r] EXCEPT !.pc =
          IF Answers(r) \cap {"stale", "error", "canceled"} # {} THEN "giveup"
          ELSE IF rd[r].path = "assemble" THEN "copy"
          ELSE IF rd[r].path = "populate" THEN "publish" ELSE "stream",
          !.got = IF rd[r].path = "probe" THEN Nothing ELSE @])
    /\ lease' = IF rd[r].path = "assemble" THEN lease
                ELSE [lease EXCEPT ![r] = [i \in Blocks |-> NoLease]]
    /\ UNCHANGED <<upstream, blocks, inflight, fetch, pool, content, faults>>

(* The deferred releases, and the request is left to its caller.              *)
GiveUp(r) ==
    /\ rd[r].pc = "giveup" /\ drop[r].pc \notin {"read", "delete"}
    /\ \/ /\ \E i \in Blocks : lease[r][i].pc = "held" /\ Release(r, i, "error")
          /\ UNCHANGED rd
       \/ /\ \A i \in Blocks : lease[r][i].pc # "held"
          /\ lease' = [lease EXCEPT ![r] = [i \in Blocks |-> NoLease]]
          /\ End(r, "upstream")
          /\ UNCHANGED <<inflight, fetch, pool, content>>
    /\ UNCHANGED <<upstream, blocks, faults, entry, drop>>

(* One missing block of an assembled range: copied from its lease, which is   *)
(* released, or read again if another writer had stored it.                   *)
CopyBlock(r, i) ==
    /\ rd[r].pc = "copy" /\ i \in Missing(r)
    /\ \/ /\ lease[r][i].pc = "held"
          /\ Become(r, [rd[r] EXCEPT !.got[i] = content[lease[r][i].buf]])
          /\ Release(r, i, "out")
          /\ UNCHANGED faults
       \/ /\ lease[r][i].pc = "ok" /\ Cached(r, i)
          /\ Become(r, [rd[r] EXCEPT !.got[i] = <<rd[r].etag, i>>])
          /\ lease' = [lease EXCEPT ![r][i] = NoLease]
          /\ UNCHANGED <<fetch, pool, content, inflight, faults>>
       \/ /\ lease[r][i].pc = "ok"
          /\ IF Cached(r, i) THEN Fault ELSE UNCHANGED faults
          /\ Become(r, [rd[r] EXCEPT !.pc = "giveup"])
          /\ UNCHANGED <<fetch, pool, content, inflight, lease>>
    /\ UNCHANGED <<upstream, blocks, entry, drop>>

(* The assembled range is complete: headers and body in one write.            *)
CommitAssembled(r) ==
    /\ rd[r].pc = "copy" /\ Missing(r) = {}
    /\ Become(r, [Ended(r, "ok") EXCEPT !.sent = Assembled(r, rd[r].got)])
    /\ UNCHANGED <<fetchVars, entry, drop>>

-----------------------------------------------------------------------------
(* Streaming.                                                                 *)

(* Nothing is committed while serveCompleteFromBlocks gets its first slice.   *)
Committed(r) == rd[r].path = "probe" \/ rd[r].sent # <<>>

(* Block i's slice goes to the client.                                        *)
Send(r) ==
    LET i == rd[r].i
        sent == rd[r].sent \o Part(r, <<rd[r].etag, i>>, i) IN
    IF i + 1 \in Needed(r)
      THEN Become(r, [rd[r] EXCEPT !.pc = "stream", !.sent = sent, !.i = i + 1,
                                   !.got[i] = None])
      ELSE Become(r, [Ended(r, "ok") EXCEPT !.sent = sent])

(* errBlockStreamDegraded: the rest can come from upstream, or the whole if   *)
(* nothing is committed.  A direct read may have sent n bytes before.         *)
Degrade(r, mostly, n) ==
    IF Committed(r)
      THEN Become(r, [rd[r] EXCEPT !.pc = "remainder", !.mostly = mostly,
             !.sent = @ \o SubSeq(Part(r, <<rd[r].etag, rd[r].i>>, rd[r].i), 1, n)])
      ELSE End(r, "upstream")

(* A cache read that fails, for a reason other than absence.                  *)
ReadFails(r) ==
    /\ Fault
    /\ \E n \in 0..(IF rd[r].piped THEN 0 ELSE BlockSize - 1) :
         /\ n < Len(Part(r, <<rd[r].etag, rd[r].i>>, rd[r].i))
         /\ Degrade(r, FALSE, n)

(* The read of the first slice, ahead of the headers.                         *)
FirstSlice(r) ==
    /\ rd[r].pc = "first"
    /\ \/ Cached(r, rd[r].i) /\ Send(r) /\ UNCHANGED faults
       \/ /\ ~Cached(r, rd[r].i)
          /\ Become(r, [rd[r] EXCEPT !.pc = "recover"])
          /\ UNCHANGED faults
       \/ ReadFails(r)
    /\ UNCHANGED <<upstream, blocks, inflight, fetch, pool, content, lease, entry, drop>>

(* A prefetch worker of the pipelined stream reads a block of the window.     *)
Prefetch(r, j) ==
    /\ rd[r].pc \in {"stream", "recover", "refetch"} /\ rd[r].piped /\ Committed(r)
    /\ j \in Needed(r) /\ j >= rd[r].i /\ j < rd[r].i + Window
    /\ rd[r].got[j] = None
    /\ Become(r, [rd[r] EXCEPT !.got[j] = IF Cached(r, j) THEN <<rd[r].etag, j>>
                                          ELSE Absent])
    /\ UNCHANGED <<fetchVars, entry, drop>>

(* The ordered writer: block i was prefetched, or is read straight into the   *)
(* response.                                                                  *)
StreamBlock(r) ==
    /\ rd[r].pc = "stream"
    /\ LET i == rd[r].i IN
       \/ /\ IF rd[r].piped THEN rd[r].got[i] \in Keys ELSE Cached(r, i)
          /\ Send(r)
          /\ UNCHANGED faults
       \/ /\ IF rd[r].piped THEN rd[r].got[i] = Absent ELSE ~Cached(r, i)
          /\ Become(r, [rd[r] EXCEPT !.pc = "recover"])
          /\ UNCHANGED faults
       \/ ReadFails(r)
    /\ UNCHANGED <<upstream, blocks, inflight, fetch, pool, content, lease, entry, drop>>

(* The read that a buffered slice takes before its recovery.                  *)
Rereads(r) == rd[r].piped \/ ~Committed(r)

(* recoverMissingBlockSlice: read again, then charge the allowance and fetch. *)
(* The first slice has no allowance; the direct stream does not read again.   *)
Recover(r) ==
    /\ rd[r].pc = "recover"
    /\ \/ /\ Rereads(r) /\ Cached(r, rd[r].i)
          /\ Send(r)
          /\ UNCHANGED fetchVars
       \/ /\ Rereads(r) /\ ReadFails(r)
          /\ UNCHANGED <<upstream, blocks, inflight, fetch, pool, content, lease>>
       \/ /\ Rereads(r) => ~Cached(r, rd[r].i)
          /\ IF Committed(r) /\ rd[r].left = 0
               THEN Degrade(r, TRUE, 0) /\ UNCHANGED fetchVars
               ELSE /\ Become(r, [rd[r] EXCEPT !.pc = "refetch",
                                 !.left = IF Committed(r) THEN @ - 1 ELSE @])
                    /\ beginBlockFetch(r, rd[r].etag, rd[r].i, "cache", FALSE)
    /\ UNCHANGED <<entry, drop>>

(* The fetch answered: read the block; a stale signal invalidates the entry   *)
(* and truncates; a request that is gone is not salvaged.                     *)
Refetched(r) ==
    /\ rd[r].pc = "refetch"
    /\ LET answer == lease[r][rd[r].i].pc IN
       /\ answer \in {"ok", "error", "stale", "canceled"}
       /\ \/ /\ answer = "ok" /\ Cached(r, rd[r].i)
             /\ \/ Send(r) /\ UNCHANGED faults
                \/ ReadFails(r)
          \/ /\ answer = "error" \/ (answer = "ok" /\ ~Cached(r, rd[r].i))
             /\ Degrade(r, FALSE, 0) /\ UNCHANGED faults
          \/ /\ answer \in {"stale", "canceled"}
             /\ End(r, IF Committed(r) THEN "truncated" ELSE "upstream")
             /\ UNCHANGED faults
       /\ IF IsStale({answer}) THEN invalidateStaleMeta(r)
          ELSE UNCHANGED <<entry, drop>>
    /\ lease' = [lease EXCEPT ![r] = [i \in Blocks |-> NoLease]]
    /\ UNCHANGED <<upstream, blocks, inflight, fetch, pool, content>>

(* The remainder starts after the bytes written.                              *)
RemainderStart(r) == rd[r].start + Len(rd[r].sent)

(* streamRemainderFromUpstream: one range GET, which must be of the same      *)
(* version; another one, or none, invalidates the entry and truncates.  An    *)
(* entry that had lost too many blocks is dropped once the rest is sent.      *)
Remainder(r) ==
    /\ rd[r].pc = "remainder"
    /\ LET from == RemainderStart(r)
           rest == [n \in 1..(rd[r].end - from + 1) |-> <<upstream, from + n - 1>>] IN
       \/ /\ upstream = rd[r].etag
          /\ Become(r, [Ended(r, "ok") EXCEPT !.sent = rd[r].sent \o rest])
          /\ IF rd[r].mostly THEN invalidateStaleMeta(r)
             ELSE UNCHANGED <<entry, drop>>
          /\ UNCHANGED faults
       \/ /\ upstream # rd[r].etag
          /\ End(r, "truncated") /\ invalidateStaleMeta(r)
          /\ UNCHANGED faults
       \/ /\ Fault /\ UNCHANGED <<entry, drop>>
          /\ \E n \in 0..(IF upstream = rd[r].etag THEN Len(rest) - 1 ELSE 0) :
               Become(r, [Ended(r, "truncated") EXCEPT
                            !.sent = rd[r].sent \o SubSeq(rest, 1, n)])
    /\ UNCHANGED <<upstream, blocks, inflight, fetch, pool, content, lease>>

(* Mutant: the token is read when the promotion commits.                      *)
PromoteLate(r) ==
    /\ rd[r].token # 0
    /\ rd[r].pc \in {"stream", "recover", "refetch", "remainder", "done"}
    /\ entry' = IF entry.live /\ entry.etag = rd[r].etag
                  THEN [entry EXCEPT !.complete = TRUE, !.ver = @ + 1] ELSE entry
    /\ Become(r, [rd[r] EXCEPT !.token = 0])
    /\ UNCHANGED <<fetchVars, drop>>

(* The promotion once every block was made present, under the token read      *)
(* before that; it may run at any time after.                                 *)
Promote(r) ==
    /\ rd[r].token # 0
    /\ rd[r].pc \in {"stream", "recover", "refetch", "remainder", "done"}
    /\ entry' = IF /\ entry.live /\ entry.etag = rd[r].etag /\ ~entry.complete
                   /\ entry.ver = rd[r].token
                  THEN [entry EXCEPT !.complete = TRUE, !.ver = @ + 1] ELSE entry
    /\ Become(r, [rd[r] EXCEPT !.token = 0])
    /\ UNCHANGED <<fetchVars, drop>>

-----------------------------------------------------------------------------
(* Entries are established after a miss.                                      *)

(* populateBlockMode, for the blocks touched by a range that missed.          *)
StartPopulate(r) ==
    /\ rd[r].pc = "idle" /\ rd[r].req.job = "populate" /\ ~entry.live
    /\ upstream # None /\ Cardinality(rd[r].req.touched) <= Fanout
    /\ Become(r, [rd[r] EXCEPT !.pc = "token", !.path = "populate",
                 !.etag = upstream, !.end = Size - 1, !.got =
                 [i \in Blocks |-> IF i \in rd[r].req.touched THEN Absent ELSE None]])
    /\ UNCHANGED <<fetchVars, entry, drop>>

(* putBlocksFromStream, over the body of a full GET that missed and had read  *)
(* its token before it was sent.                                              *)
StartSplit(r) ==
    /\ rd[r].pc = "idle" /\ rd[r].req.job = "split" /\ ~entry.live
    /\ upstream # None
    /\ Become(r, [rd[r] EXCEPT !.pc = "split", !.path = "split",
                               !.etag = upstream, !.token = entry.ver])
    /\ UNCHANGED <<fetchVars, entry, drop>>

(* Mutant: the number of blocks is taken for the index of the last.           *)
BlockCount == (Size + BlockSize - 1) \div BlockSize

LastBlock == (Size - 1) \div BlockSize

(* Each block is written once its exact length has arrived.                   *)
SplitBlock(r) ==
    /\ rd[r].pc = "split"
    /\ \/ /\ blocks' = blocks \cup {<<rd[r].etag, rd[r].i>>}
          /\ Become(r, IF rd[r].i < LastBlock THEN [rd[r] EXCEPT !.i = @ + 1]
                       ELSE [rd[r] EXCEPT !.pc = "publish"])
          /\ UNCHANGED faults
       \/ /\ Fault
          /\ End(r, "upstream")
          /\ UNCHANGED blocks
    /\ UNCHANGED <<upstream, inflight, fetch, pool, content, lease, entry, drop>>

(* The metadata goes last, if nothing changed it since the token was read.    *)
PublishEntry(r) ==
    /\ rd[r].pc = "publish"
    /\ entry' = IF ~entry.live /\ entry.ver = rd[r].token
                  THEN [live |-> TRUE, ver |-> entry.ver + 1, etag |-> rd[r].etag,
                        complete |-> rd[r].path = "split",
                        span |-> IF rd[r].path = "split" THEN {}
                                 ELSE blockSpanForRange(Missing(r))]
                  ELSE entry
    /\ End(r, "upstream")
    /\ UNCHANGED <<fetchVars, drop>>

(* A write through the proxy invalidates the entry; one that is not, and the  *)
(* expiry of the entry, are seen on one side only.                            *)
Overwrite(v) ==
    /\ upstream # None /\ (v = None \/ v = upstream + 1)
    /\ upstream' = v
    /\ entry' \in {entry, [entry EXCEPT !.live = FALSE, !.ver = @ + 1]}
    /\ UNCHANGED <<blocks, inflight, fetch, pool, content, lease, faults, drop, rd>>

Invalidate ==
    /\ entry.live /\ entry.ver < MaxVer
    /\ entry' = [entry EXCEPT !.live = FALSE, !.ver = @ + 1]
    /\ UNCHANGED <<fetchVars, drop, rd>>

-----------------------------------------------------------------------------
ReaderStep(r) ==
    \/ ReadToken(r)
    \/ \E i \in Blocks : Scan(r, i) \/ FetchMissing(r, i) \/ CopyBlock(r, i)
    \/ FetchesDone(r) \/ GiveUp(r) \/ CommitAssembled(r)
    \/ FirstSlice(r) \/ StreamBlock(r) \/ Recover(r) \/ Refetched(r)
    \/ Remainder(r) \/ Promote(r) \/ SplitBlock(r) \/ PublishEntry(r)
    \/ DropRead(r) \/ DropDelete(r)
    \/ \E j \in Blocks : Prefetch(r, j)

CallerStep(r) ==
    \E i \in Blocks : (TakeLease(r, i) \/ AwaitCache(r, i)) /\ UNCHANGED <<entry, drop, rd>>

TaskStep(f) == FetchTask(f) /\ UNCHANGED <<entry, drop, rd>>

Environment ==
    \/ \E r \in Readers : Route(r) \/ StartPopulate(r) \/ StartSplit(r)
    \/ \E r \in Readers, i \in Blocks : StopWaiting(r, i) /\ UNCHANGED <<entry, drop, rd>>
    \/ \E k \in Keys : EvictBlock(k) /\ UNCHANGED <<entry, drop, rd>>
    \/ \E v \in Versions \cup {None} : Overwrite(v)
    \/ Invalidate

(* Nothing is in flight: the proxy waits for requests.                        *)
Quiet ==
    /\ \A r \in Readers : /\ rd[r].pc \in {"idle", "done"} /\ rd[r].token = 0
                          /\ drop[r].pc \in {"none", "failed"}
    /\ \A f \in Fetches : fetch[f].pc = "free"
    /\ UNCHANGED <<fetchVars, entry, drop, rd>>

Step ==
    \/ \E r \in Readers : ReaderStep(r) \/ CallerStep(r)
    \/ \E f \in Fetches : TaskStep(f)
    \/ Environment
    \/ Quiet

(* seen starts anew with each row.  A request dooms the row of its version    *)
(* when a fetch answers that the version is stale, or when it sets out to     *)
(* invalidate it.                                                             *)
Next ==
    /\ Step
    /\ seen' = IF ~entry'.live THEN {}
               ELSE {i \in Blocks : <<entry'.etag, i>> \in blocks'}
                    \cup (IF entry.live THEN seen ELSE {})
    /\ doomed' = [r \in Readers |->
                    IF /\ doomed[r] = 0 /\ entry'.live /\ entry'.etag = rd'[r].etag
                       /\ \/ drop'[r].pc = "read"
                          \/ /\ rd'[r].pc \in {"fetch", "refetch"}
                             /\ \E i \in Blocks : lease'[r][i].pc = "stale"
                      THEN entry'.ver ELSE doomed[r]]

Spec == Init /\ [][Next]_vars

-----------------------------------------------------------------------------
(* Type invariant of the entry, the requests and the fetches they share.      *)
TypeOK ==
    /\ FetchTypeOK
    /\ entry \in Entries
    /\ drop \in [Readers -> DropRecords]
    /\ rd \in [Readers -> ReadRecords]
    /\ seen \subseteq Blocks /\ doomed \in [Readers -> Nat]

(* What the request is entitled to, from the definition of byte ranges: the   *)
(* bytes of one version, in order, that its single range selects.             *)
Selects(p, o) ==
    IF p.from = Nil THEN o >= Size - p.to
    ELSE o >= p.from /\ (p.to = Nil \/ o <= p.to)

WantedOffsets(q) ==
    IF q.full THEN 0..(Size - 1)
    ELSE IF Len(q.parts) # 1 THEN {}
    ELSE {o \in 0..(Size - 1) : Selects(q.parts[1], o)}

IsPrefix(s, t) == Len(s) <= Len(t) /\ s = SubSeq(t, 1, Len(s))

Wanted(r) ==
    SelectSeq([n \in 1..Size |-> <<rd[r].etag, n - 1>>],
              LAMBDA x : x[2] \in WantedOffsets(rd[r].req))

(* A request answered from the cache receives exactly the bytes it asked for, *)
(* in order and of one version, however blocks were evicted, fetched, shared  *)
(* or salvaged meanwhile.  A truncated body is a proper prefix of that; a     *)
(* request left to its caller has received nothing; 416 is answered if and    *)
(* only if no single range is satisfiable.                                    *)
ServedExactly ==
    \A r \in Readers : rd[r].req.job = "get" =>
      /\ rd[r].answer # "416" => IsPrefix(rd[r].sent, Wanted(r))
      /\ rd[r].answer = "ok" => rd[r].sent = Wanted(r)
      /\ rd[r].answer = "truncated" => Len(rd[r].sent) < Len(Wanted(r))
      /\ rd[r].answer = "upstream" => rd[r].sent = <<>>
      /\ rd[r].pc # "idle" =>
           ((rd[r].answer = "416") <=> (WantedOffsets(rd[r].req) = {}))

(* A request that was told its version is stale, by any of the fetches it     *)
(* waited for and whatever errors the others met, or that found too many of   *)
(* its blocks gone, ends with that row removed: the row survives only if a    *)
(* store call of the invalidation failed, or if it was rewritten meanwhile.   *)
StaleInvalidates ==
    \A r \in Readers :
      /\ rd[r].pc = "done" /\ drop[r].pc = "none" /\ doomed[r] # 0
      => ~(entry.live /\ entry.ver = doomed[r])

(* A live row turns complete only if each of its blocks was in the cache at   *)
(* some time since it was established: an assembly that was overtaken by an   *)
(* invalidation does not promote the row that replaced its own.               *)
PromotionHonest ==
    [][entry.live /\ entry'.live /\ entry'.complete /\ ~entry.complete
         => seen' = Blocks]_vars
=============================================================================
