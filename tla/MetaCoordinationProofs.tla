----------------------- MODULE MetaCoordinationProofs -----------------------
(* Proofs about MetaCoordination for every number of requests and writers,    *)
(* every set of ETags, with and without faults.                               *)
EXTENDS MetaRefinement, TLAPS

(* A request about to remove version tok of the entry saw that very version   *)
(* with the stale ETag.                                                       *)
RemovalArmed(p) ==
    p.pc = "remove" /\ row.live /\ row.ver = p.tok => row.etag = p.stale

(* What a request fetched was an object.                                      *)
ContentNamed(p) ==
    \/ p.pc \in {"gate", "token", "content"}
    \/ p.path = "reval" /\ p.pc \in {"observe", "remove"}
    => p.etag \in ETags

RequestSafe(p) == p.tok <= row.ver /\ RemovalArmed(p) /\ ContentNamed(p)

(* What holds whatever paths are enabled.                                     *)
SafeInv == TypeOK /\ \A r \in Requests: RequestSafe(pop[r])

-----------------------------------------------------------------------------
(* Steps that change only pop[r] and the stored content.                      *)
LocalTo(r) ==
    /\ UNCHANGED <<upstream, row, wr, settled>>
    /\ content' \subseteq ETags
    /\ pop' \in [Requests -> PopRecords]
    /\ \A q \in Requests \ {r}: pop'[q] = pop[q]

(* A local step keeps SafeInv if the record it leaves is safe.                *)
LEMMA LocalStepSafe ==
    ASSUME SafeInv, NEW r \in Requests, LocalTo(r), RequestSafe(pop'[r])
    PROVE  SafeInv'
<1>1. TypeOK'
  BY DEF SafeInv, TypeOK, LocalTo
<1>2. ASSUME NEW q \in Requests PROVE RequestSafe(pop[q])'
  <2>1. CASE q = r
    BY <2>1 DEF LocalTo, RequestSafe, RemovalArmed, ContentNamed
  <2>2. CASE q # r
    BY <2>2 DEF SafeInv, LocalTo, RequestSafe, RemovalArmed, ContentNamed
  <2>3. QED BY <2>1, <2>2
<1>3. QED BY <1>1, <1>2 DEF SafeInv

(* The request goes on at step pc and keeps the rest of its record.           *)
StepOnly(r, pc) ==
    /\ pop'[r].pc = pc
    /\ pop'[r].path = pop[r].path /\ pop'[r].tok = pop[r].tok
    /\ pop'[r].n = pop[r].n /\ pop'[r].etag = pop[r].etag
    /\ pop'[r].stale = pop[r].stale

(* Goto changes one record: its step, or everything when the request ends.    *)
LEMMA GotoStep ==
    ASSUME TypeOK, NEW r \in Requests, NEW pc \in PopSteps, Goto(r, pc)
    PROVE  /\ pop' \in [Requests -> PopRecords]
           /\ \A q \in Requests \ {r}: pop'[q] = pop[q]
           /\ pc = "done" => pop'[r] = NoTask("done")
           /\ pc # "done" => StepOnly(r, pc)
<1> DEFINE new == IF pc = "done" THEN NoTask("done") ELSE [pop[r] EXCEPT !.pc = pc]
<1>1. new \in PopRecords
  BY DEF TypeOK, PopRecords, PopSteps, NoTask, AllPaths
<1>2. pop' = [pop EXCEPT ![r] = new]
  BY DEF Goto
<1>3. pc # "done" => StepOnly(r, pc)
  BY <1>2 DEF TypeOK, PopRecords, StepOnly
<1>4. QED BY <1>1, <1>2, <1>3 DEF TypeOK

\* A request that starts a populate changes only its own record, to one of the right type.
LEMMA BeginStep ==
    ASSUME TypeOK, NEW r \in Requests, NEW path \in AllPaths, NEW pc \in PopSteps,
           NEW tok \in Nat, NEW stale \in ETags \cup {Gone},
           Begin(r, path, pc, tok, stale)
    PROVE  /\ LocalTo(r)
           /\ pop'[r].path = path /\ pop'[r].pc = pc /\ pop'[r].tok = tok
<1> DEFINE new == [pop[r] EXCEPT !.path = path, !.pc = pc, !.tok = tok,
                                 !.stale = stale]
<1>1. new \in PopRecords
  BY Zenon DEF TypeOK, PopRecords
<1>2. pop' = [pop EXCEPT ![r] = new]
  BY Zenon DEF Begin, TypeOK
<1>3. pop'[r].path = path /\ pop'[r].pc = pc /\ pop'[r].tok = tok
  BY <1>2 DEF TypeOK, PopRecords
<1>4. QED BY <1>1, <1>2, <1>3 DEF TypeOK, LocalTo, Begin

\* So does a request that receives an upstream response.
LEMMA FetchedStep ==
    ASSUME TypeOK, NEW r \in Requests, NEW next \in PopSteps, Fetched(r, next)
    PROVE  /\ LocalTo(r)
           /\ pop'[r].pc = next
           /\ pop'[r].n = upstream.n /\ pop'[r].etag = upstream.etag
           /\ pop'[r].path = pop[r].path /\ pop'[r].tok = pop[r].tok
<1> DEFINE new == [pop[r] EXCEPT !.pc = next, !.n = upstream.n,
                                 !.etag = upstream.etag]
<1>1. new \in PopRecords
  BY ZenonT(60) DEF TypeOK, PopRecords, Fetched
<1>2. pop' = [pop EXCEPT ![r] = new]
  BY Zenon DEF Fetched, TypeOK
<1>3. /\ pop'[r].pc = next
      /\ pop'[r].n = upstream.n /\ pop'[r].etag = upstream.etag
      /\ pop'[r].path = pop[r].path /\ pop'[r].tok = pop[r].tok
  BY <1>2 DEF TypeOK, PopRecords
<1>4. QED BY <1>1, <1>2, <1>3 DEF TypeOK, LocalTo, Fetched

(* What a request action may do to the store: nothing, remove the version it  *)
(* is armed with, or commit under its token.                                  *)
Removes(r) ==
    /\ pop[r].pc = "remove"
    /\ row' = IF row.live /\ row.ver = pop[r].tok THEN FencedRow ELSE row

Commits(r) ==
    /\ pop[r].pc = "commit"
    /\ PutIfVersion(pop[r].tok, pop[r].n, pop[r].etag)

StoreStep(r) ==
    /\ Removes(r) \/ Commits(r)
    /\ pop' \in [Requests -> PopRecords]
    /\ \A q \in Requests \ {r}: pop'[q] = pop[q]
    /\ \/ pop'[r] = NoTask("done")
       \/ pop[r].path = "reval" /\ pop[r].pc = "remove" /\ StepOnly(r, "token")
    /\ UNCHANGED <<upstream, content, wr, settled>>

USE DEF PopSteps

-----------------------------------------------------------------------------
(* The forms a local request step can take.                                   *)
Starts(r) ==
    /\ pop[r].pc = "idle"
    /\ pop'[r].pc \in {"fetch", "observe"}
    /\ pop'[r].tok \in {0, row.ver}
    /\ pop'[r].path \in Paths
    /\ pop'[r].pc = "observe" => pop'[r].path = "heal"

FetchesTo(r, next) ==
    /\ pop[r].pc = "fetch"
    /\ next = "observe" => pop[r].path = "reval"
    /\ next = "gate" => pop[r].path = "range"
    /\ upstream.etag # Gone
    /\ pop'[r].pc = next
    /\ pop'[r].n = upstream.n /\ pop'[r].etag = upstream.etag
    /\ pop'[r].path = pop[r].path /\ pop'[r].tok = pop[r].tok

Fetches(r) ==
    \E next \in {"content", "recheck", "observe", "gate"}: FetchesTo(r, next)

(* A teed body that cannot be cached becomes a warm with a fresh token.       *)
StartsOver(r) ==
    /\ pop'[r].pc = "fetch" /\ pop'[r].path = "warm" /\ pop'[r].tok = row.ver
    /\ pop[r].path = "tee"

Arms(r) ==
    /\ pop[r].pc = "observe" /\ pop'[r].pc = "remove"
    /\ pop'[r].tok = row.ver /\ pop'[r].etag = pop[r].etag
    /\ pop'[r].stale = row.etag /\ pop'[r].path = pop[r].path

(* Blocks of another version: the footprint is observed as stale.             *)
FindsStale(r) ==
    /\ pop[r].path # "reval"
    /\ pop'[r].pc = "observe" /\ pop'[r].path = pop[r].path
    /\ pop'[r].tok = pop[r].tok

ReadsLateToken(r) ==
    /\ pop[r].pc = "token" /\ pop'[r].pc = "content"
    /\ pop'[r].tok = row.ver /\ pop'[r].path = pop[r].path
    /\ pop'[r].etag = pop[r].etag

(* The pairs of steps between which only the program counter moves.           *)
Advances(r) ==
    \/ /\ pop[r].path = "reval" /\ pop[r].pc \in {"observe", "remove"}
       /\ StepOnly(r, "token")
    \/ pop[r].pc = "gate" /\ StepOnly(r, "token")
    \/ pop[r].pc = "content" /\ StepOnly(r, "recheck")
    \/ pop[r].pc \in {"content", "recheck"} /\ StepOnly(r, "commit")

LocalForm(r) ==
    \/ pop'[r] = NoTask("done")
    \/ Starts(r) \/ Fetches(r) \/ StartsOver(r) \/ Arms(r) \/ FindsStale(r)
    \/ ReadsLateToken(r) \/ Advances(r)

\* Every action that starts a request, with or without a decision-time token, is such a step.
LEMMA StartSteps ==
    ASSUME TypeOK, NEW r \in Requests,
           \/ StreamFromUpstreamToken(r) \/ WarmToken(r) \/ RewarmToken(r)
           \/ \E e \in ETags: TeeToken(r, e) \/ MetaOnWriteToken(r, e)
           \/ FooterToken(r) \/ RevalidateStart(r) \/ RangeStart(r) \/ HealStart(r)
    PROVE  LocalTo(r) /\ Starts(r)
<1> USE DEF TokenFirstPaths, LateTokenPaths, AllPaths
<1>0. /\ pop[r] \in PopRecords /\ row.ver \in Nat /\ 0 \in Nat
      /\ row.etag \in ETags \cup {Gone}
  BY DEF TypeOK
<1>1. ASSUME NEW path \in AllPaths, NEW pc \in {"fetch", "observe"},
             NEW tok \in {0, row.ver}, NEW stale \in ETags \cup {Gone},
             Begin(r, path, pc, tok, stale), pc = "observe" => path = "heal"
      PROVE  LocalTo(r) /\ Starts(r)
  <2>1. tok \in Nat /\ pc \in PopSteps
    BY <1>0
  <2>2. /\ LocalTo(r)
        /\ pop'[r].path = path /\ pop'[r].pc = pc /\ pop'[r].tok = tok
    BY <1>1, <2>1, BeginStep
  <2>3. path \in Paths /\ pop[r].pc = "idle"
    BY <1>1 DEF Begin
  <2>4. QED BY <1>1, <2>2, <2>3 DEF Starts
<1>2. CASE StreamFromUpstreamToken(r)
  BY <1>0, <1>1, <1>2 DEF StreamFromUpstreamToken
<1>3. CASE WarmToken(r)
  BY <1>0, <1>1, <1>3 DEF WarmToken
<1>4. CASE RewarmToken(r)
  BY <1>0, <1>1, <1>4 DEF RewarmToken
<1>5. CASE \E e \in ETags: TeeToken(r, e) \/ MetaOnWriteToken(r, e)
  BY <1>0, <1>1, <1>5 DEF TeeToken, MetaOnWriteToken
<1>6. CASE FooterToken(r)
  BY <1>0, <1>1, <1>6 DEF FooterToken
<1>7. CASE RevalidateStart(r)
  BY <1>0, <1>1, <1>7 DEF RevalidateStart
<1>8. CASE RangeStart(r)
  BY <1>0, <1>1, <1>8 DEF RangeStart
<1>9. CASE HealStart(r)
  BY <1>0, <1>1, <1>9 DEF HealStart
<1>10. QED BY <1>2, <1>3, <1>4, <1>5, <1>6, <1>7, <1>8, <1>9

\* Every action that records an upstream response is such a step.
LEMMA FetchSteps ==
    ASSUME TypeOK, NEW r \in Requests,
           \/ StreamFromUpstreamFetch(r) \/ FetchFullObjectToCache(r)
           \/ CacheTeedBodyFromHead(r) \/ EstablishBlockMetaFromHead(r)
           \/ ReadParquetTrailer(r) \/ RevalidationAnswer(r) \/ HandleRange(r)
    PROVE  LocalTo(r) /\ Fetches(r)
<1>1. PICK next \in {"content", "recheck", "observe", "gate"}:
        /\ Fetched(r, next)
        /\ next = "observe" => pop[r].path = "reval"
        /\ next = "gate" => pop[r].path = "range"
  BY DEF StreamFromUpstreamFetch, FetchFullObjectToCache,
         CacheTeedBodyFromHead, EstablishBlockMetaFromHead,
         ReadParquetTrailer, RevalidationAnswer, HandleRange
<1>2. pop[r].pc = "fetch" /\ upstream.etag # Gone
  BY <1>1 DEF Fetched
<1>3. LocalTo(r) /\ FetchesTo(r, next)
  BY <1>1, <1>2, FetchedStep DEF FetchesTo
<1>4. QED BY <1>3 DEF Fetches

(* A local step by Goto ends the request or advances it.                      *)
LEMMA GotoLocal ==
    ASSUME TypeOK, NEW r \in Requests, NEW pc \in PopSteps, Goto(r, pc),
           UNCHANGED <<upstream, row, wr, settled>>, content' \subseteq ETags
    PROVE  /\ LocalTo(r)
           /\ pc = "done" => pop'[r] = NoTask("done")
           /\ pc # "done" => StepOnly(r, pc)
<1>1. /\ pop' \in [Requests -> PopRecords]
      /\ \A q \in Requests \ {r}: pop'[q] = pop[q]
      /\ pc = "done" => pop'[r] = NoTask("done")
      /\ pc # "done" => StepOnly(r, pc)
  BY GotoStep
<1>2. QED BY <1>1 DEF LocalTo

\* The tee that falls back to a warm reads a token of its own before it fetches again.
LEMMA TeeFallbackStep ==
    ASSUME TypeOK, NEW r \in Requests, TeeFallbackWarm(r)
    PROVE  LocalTo(r) /\ StartsOver(r)
<1> DEFINE new == [pop[r] EXCEPT !.path = "warm", !.pc = "fetch", !.tok = row.ver]
<1>0. "warm" \in AllPaths
  BY DEF AllPaths, TokenFirstPaths
<1>1. new \in PopRecords
  <2>1. pop[r] \in PopRecords /\ row.ver \in Nat
    BY DEF TypeOK
  <2>2. QED BY <1>0, <2>1, Zenon DEF PopRecords
<1>2. pop' = [pop EXCEPT ![r] = new]
  BY Zenon DEF TeeFallbackWarm, TypeOK
<1>3. StartsOver(r)
  BY <1>2 DEF TypeOK, PopRecords, StartsOver, TeeFallbackWarm
<1>4. QED BY <1>1, <1>2, <1>3 DEF TypeOK, LocalTo, TeeFallbackWarm

\* A reader that observes a stale entry remembers only what it saw.
LEMMA ObserveStaleStep ==
    ASSUME TypeOK, NEW r \in Requests, ObserveStale(r)
    PROVE  LocalTo(r) /\ LocalForm(r)
<1>1. CASE row.live /\ row.etag = pop[r].stale
  <2> DEFINE new == [pop[r] EXCEPT !.tok = row.ver, !.pc = "remove"]
  <2>1. new \in PopRecords
    <3>1. pop[r] \in PopRecords /\ row.ver \in Nat
      BY DEF TypeOK
    <3>2. QED BY <3>1, Zenon DEF PopRecords
  <2>2. pop' = [pop EXCEPT ![r] = new]
    BY <1>1, Zenon DEF ObserveStale, TypeOK
  <2>3. Arms(r)
    BY <1>1, <2>2 DEF TypeOK, PopRecords, Arms, ObserveStale
  <2>4. LocalTo(r)
    BY <2>1, <2>2 DEF TypeOK, LocalTo, ObserveStale
  <2>5. QED BY <2>3, <2>4 DEF LocalForm
<1>2. CASE ~(row.live /\ row.etag = pop[r].stale)
  <2>1. /\ Goto(r, AfterRemoval(r))
        /\ UNCHANGED <<upstream, row, wr, settled>> /\ content' \subseteq ETags
    BY <1>2 DEF ObserveStale, TypeOK
  <2>2. CASE pop[r].path = "reval"
    BY <2>1, <2>2, GotoLocal DEF ObserveStale, AfterRemoval, LocalForm, Advances
  <2>3. CASE pop[r].path # "reval"
    BY <2>1, <2>3, GotoLocal DEF AfterRemoval, LocalForm
  <2>4. QED BY <2>2, <2>3
<1>3. QED BY <1>1, <1>2

\* Storing blocks leaves the metadata row alone.
LEMMA FetchBlocksStep ==
    ASSUME TypeOK, NEW r \in Requests, FetchBlocksToCache(r),
           pop[r].etag \in ETags
    PROVE  LocalTo(r) /\ LocalForm(r)
<1>1. CASE pop[r].etag \in content \/ upstream.etag = pop[r].etag
  <2>1. content' \subseteq ETags
    BY <1>1 DEF FetchBlocksToCache, TypeOK
  <2>2. QED BY <1>1, <2>1, GotoLocal DEF FetchBlocksToCache, LocalForm, Advances
<1>2. CASE ~(pop[r].etag \in content \/ upstream.etag = pop[r].etag)
  <2> DEFINE new == [pop[r] EXCEPT !.pc = "observe", !.stale = pop[r].etag]
  <2>1. new \in PopRecords
    <3>1. pop[r] \in PopRecords
      BY DEF TypeOK
    <3>2. QED BY <3>1, Zenon DEF PopRecords
  <2>2. pop' = [pop EXCEPT ![r] = new]
    BY <1>2, Zenon DEF FetchBlocksToCache, TypeOK
  <2>3. FindsStale(r)
    BY <2>2 DEF TypeOK, PopRecords, FindsStale, FetchBlocksToCache
  <2>4. LocalTo(r)
    BY <1>2, <2>1, <2>2 DEF TypeOK, LocalTo, FetchBlocksToCache
  <2>5. QED BY <2>3, <2>4 DEF LocalForm
<1>3. QED BY <1>1, <1>2

\* Revalidation and range populates read their token after the response.
LEMMA LateTokenStep ==
    ASSUME TypeOK, NEW r \in Requests,
           RevalidationExpectedVersion(r) \/ PopulateBlockModeToken(r)
    PROVE  LocalTo(r) /\ LocalForm(r)
<1> DEFINE new == [pop[r] EXCEPT !.pc = "content", !.tok = row.ver]
<1>1. new \in PopRecords
  <2>1. pop[r] \in PopRecords /\ row.ver \in Nat
    BY DEF TypeOK
  <2>2. QED BY <2>1, ZenonT(60) DEF PopRecords
<1>2. ASSUME pop' = [pop EXCEPT ![r].pc = "content", ![r].tok = row.ver],
             pop[r].pc = "token", UNCHANGED <<upstream, row, content, wr, settled>>
      PROVE  LocalTo(r) /\ LocalForm(r)
  <2>1. pop' = [pop EXCEPT ![r] = new]
    BY <1>2, Zenon DEF TypeOK
  <2>2. ReadsLateToken(r)
    BY <1>2, <2>1 DEF TypeOK, PopRecords, ReadsLateToken
  <2>3. LocalTo(r)
    BY <1>1, <1>2, <2>1 DEF TypeOK, LocalTo
  <2>4. QED BY <2>2, <2>3 DEF LocalForm
<1>3. CASE PopulateBlockModeToken(r)
  BY <1>2, <1>3 DEF PopulateBlockModeToken
<1>4. CASE RevalidationExpectedVersion(r) /\ row.live /\ row.etag # pop[r].stale
  <2>1. /\ Goto(r, "done") /\ content' \subseteq ETags
        /\ UNCHANGED <<upstream, row, wr, settled>>
    BY <1>4 DEF RevalidationExpectedVersion, TypeOK
  <2>2. QED BY <2>1, GotoLocal DEF LocalForm
<1>5. CASE RevalidationExpectedVersion(r) /\ ~(row.live /\ row.etag # pop[r].stale)
  BY <1>2, <1>5 DEF RevalidationExpectedVersion
<1>6. QED BY <1>3, <1>4, <1>5

\* The remaining request actions only advance the program counter.
LEMMA GotoForms ==
    ASSUME TypeOK, NEW r \in Requests,
           pop[r].pc = "content" => pop[r].etag \in ETags,
           \/ InvalidateStaleMetaFails(r) \/ RangeAbsenceGate(r)
           \/ PutBodyStream(r) \/ FinalizeBlockModeMeta(r) \/ Abandon(r)
    PROVE  LocalTo(r) /\ LocalForm(r)
<1>1. CASE InvalidateStaleMetaFails(r)
  <2>1. /\ Goto(r, AfterRemoval(r)) /\ pop[r].pc \in {"observe", "remove"}
        /\ UNCHANGED <<upstream, row, wr, settled>> /\ content' \subseteq ETags
    BY <1>1 DEF InvalidateStaleMetaFails, TypeOK
  <2>2. CASE pop[r].path = "reval"
    BY <2>1, <2>2, GotoLocal DEF AfterRemoval, LocalForm, Advances
  <2>3. CASE pop[r].path # "reval"
    BY <2>1, <2>3, GotoLocal DEF AfterRemoval, LocalForm
  <2>4. QED BY <2>2, <2>3
<1>2. CASE RangeAbsenceGate(r)
  <2>1. /\ Goto(r, "done") \/ Goto(r, "token")
        /\ pop[r].pc = "gate"
        /\ UNCHANGED <<upstream, row, wr, settled>> /\ content' \subseteq ETags
    BY <1>2 DEF RangeAbsenceGate, TypeOK
  <2>2. QED BY <2>1, GotoLocal DEF LocalForm, Advances
<1>3. CASE PutBodyStream(r)
  <2>1. /\ Goto(r, "commit") /\ pop[r].pc = "content"
        /\ UNCHANGED <<upstream, row, wr, settled>> /\ content' \subseteq ETags
    BY <1>3 DEF PutBodyStream, TypeOK
  <2>2. QED BY <2>1, GotoLocal DEF LocalForm, Advances
<1>4. CASE FinalizeBlockModeMeta(r)
  <2>1. /\ Goto(r, "done") \/ Goto(r, "commit")
        /\ pop[r].pc = "recheck"
        /\ UNCHANGED <<upstream, row, wr, settled>> /\ content' \subseteq ETags
    BY <1>4 DEF FinalizeBlockModeMeta, TypeOK
  <2>2. QED BY <2>1, GotoLocal DEF LocalForm, Advances
<1>5. CASE Abandon(r)
  <2>1. /\ Goto(r, "done")
        /\ UNCHANGED <<upstream, row, wr, settled>> /\ content' \subseteq ETags
    BY <1>5 DEF Abandon, TypeOK
  <2>2. QED BY <2>1, GotoLocal DEF LocalForm
<1>6. QED BY <1>1, <1>2, <1>3, <1>4, <1>5

\* The request actions that touch the store: guarded removal and preconditioned commit.
LEMMA StoreSteps ==
    ASSUME TypeOK, NEW r \in Requests, DeleteMetaIfETag(r) \/ PutMetaIfVersion(r)
    PROVE  StoreStep(r)
<1>1. CASE DeleteMetaIfETag(r)
  <2>1. Removes(r) /\ UNCHANGED <<upstream, content, wr, settled>>
    BY <1>1 DEF DeleteMetaIfETag, Removes
  <2>2. Goto(r, AfterRemoval(r))
    BY <1>1 DEF DeleteMetaIfETag
  <2>3. CASE pop[r].path = "reval"
    <3>1. Goto(r, "token")
      BY <2>2, <2>3 DEF AfterRemoval
    <3>2. QED BY <2>1, <2>3, <3>1, GotoStep DEF StoreStep, Removes
  <2>4. CASE pop[r].path # "reval"
    <3>1. Goto(r, "done")
      BY <2>2, <2>4 DEF AfterRemoval
    <3>2. QED BY <2>1, <3>1, GotoStep DEF StoreStep
  <2>5. QED BY <2>3, <2>4
<1>2. CASE PutMetaIfVersion(r)
  <2>1. Commits(r) /\ Goto(r, "done") /\ UNCHANGED <<upstream, content, wr, settled>>
    BY <1>2 DEF PutMetaIfVersion, Commits
  <2>2. QED BY <2>1, GotoStep DEF StoreStep
<1>3. QED BY <1>1, <1>2

(* Every request action is a local step of one of the forms or a store step.  *)
LEMMA RequestForms ==
    ASSUME SafeInv, NEW r \in Requests, RequestNext(r)
    PROVE  (LocalTo(r) /\ LocalForm(r)) \/ StoreStep(r)
<1>1. TypeOK /\ (pop[r].pc = "content" => pop[r].etag \in ETags)
  BY DEF SafeInv, RequestSafe, ContentNamed
<1>2. CASE \/ StreamFromUpstreamToken(r) \/ WarmToken(r) \/ RewarmToken(r)
           \/ \E e \in ETags: TeeToken(r, e) \/ MetaOnWriteToken(r, e)
           \/ FooterToken(r) \/ RevalidateStart(r) \/ RangeStart(r) \/ HealStart(r)
  BY <1>1, <1>2, StartSteps DEF LocalForm
<1>3. CASE \/ StreamFromUpstreamFetch(r) \/ FetchFullObjectToCache(r)
           \/ CacheTeedBodyFromHead(r) \/ EstablishBlockMetaFromHead(r)
           \/ ReadParquetTrailer(r) \/ RevalidationAnswer(r) \/ HandleRange(r)
  BY <1>1, <1>3, FetchSteps DEF LocalForm
<1>4. CASE TeeFallbackWarm(r)
  BY <1>1, <1>4, TeeFallbackStep DEF LocalForm
<1>5. CASE ObserveStale(r)
  BY <1>1, <1>5, ObserveStaleStep
<1>6. CASE FetchBlocksToCache(r)
  <2>1. pop[r].pc = "content"
    BY <1>6 DEF FetchBlocksToCache
  <2>2. QED BY <1>1, <1>6, <2>1, FetchBlocksStep
<1>7. CASE RevalidationExpectedVersion(r) \/ PopulateBlockModeToken(r)
  BY <1>1, <1>7, LateTokenStep
<1>8. CASE \/ InvalidateStaleMetaFails(r) \/ RangeAbsenceGate(r)
           \/ PutBodyStream(r) \/ FinalizeBlockModeMeta(r) \/ Abandon(r)
  BY <1>1, <1>8, GotoForms
<1>9. CASE DeleteMetaIfETag(r) \/ PutMetaIfVersion(r)
  BY <1>1, <1>9, StoreSteps
<1>10. QED BY <1>2, <1>3, <1>4, <1>5, <1>6, <1>7, <1>8, <1>9 DEF RequestNext

-----------------------------------------------------------------------------
(* A writer's record alone changes; a converging writer keeps its version.    *)
WriterTo(w) ==
    /\ UNCHANGED <<content, pop>>
    /\ wr' \in [Writers -> WriterRecords]
    /\ \A v \in Writers \ {w}: wr'[v] = wr[v]

KeepsVersion(w) ==
    wr'[w].pc = "converge" => wr[w].pc = "converge" /\ wr'[w].n = wr[w].n

(* A writer step leaves the store alone, fences the key (settling its         *)
(* mutation if that was the converging invalidation), or mutates upstream.    *)
Leaves(w) == UNCHANGED <<upstream, row, settled>> /\ KeepsVersion(w)

Fences(w) ==
    /\ row' = FencedRow /\ upstream' = upstream /\ KeepsVersion(w)
    /\ \/ settled' = settled
       \/ wr[w].pc = "converge" /\ wr[w].n > settled /\ settled' = wr[w].n

Mutates(w) ==
    /\ UNCHANGED <<row, settled>>
    /\ upstream' \in [n: {upstream.n + 1}, etag: ETags \cup {Gone}]
    /\ wr'[w].pc = "converge" => wr'[w].n = upstream.n + 1

\* deleteMeta leaves the row fenced at a later version, or the writer where it was.
LEMMA DeleteMetaStep ==
    ASSUME TypeOK, NEW w \in Writers, DeleteMeta(w)
    PROVE  WriterTo(w) /\ (Leaves(w) \/ Fences(w))
<1>0. wr[w] \in WriterRecords /\ row.ver \in Nat
  BY DEF TypeOK
<1>1. CASE DeleteApplies(wr[w].exp)
  <2> DEFINE new == IF wr[w].pc = "pre"
                      THEN [wr[w] EXCEPT !.pc = "forward", !.exp = 0]
                      ELSE Returned(w)
  <2>1. new \in WriterRecords /\ new.pc # "converge"
    BY <1>0, Zenon DEF WriterRecords, WriterSteps, Returned, NoWrite
  <2>2. wr' = [wr EXCEPT ![w] = new]
    BY <1>1 DEF DeleteMeta
  <2>3. WriterTo(w) /\ KeepsVersion(w)
    BY <2>1, <2>2 DEF WriterTo, KeepsVersion, TypeOK, DeleteMeta
  <2>4. Fences(w)
    BY <1>1, <2>3 DEF Fences, DeleteMeta
  <2>5. QED BY <2>3, <2>4
<1>2. CASE ~DeleteApplies(wr[w].exp)
  <2> DEFINE new == [wr[w] EXCEPT !.exp = ReportedVersion]
  <2>1. new \in WriterRecords /\ new.pc = wr[w].pc /\ new.n = wr[w].n
    BY <1>0 DEF WriterRecords, ReportedVersion
  <2>2. wr' = [wr EXCEPT ![w] = new]
    BY <1>2 DEF DeleteMeta, TypeOK
  <2>3. WriterTo(w) /\ KeepsVersion(w)
    BY <2>1, <2>2 DEF WriterTo, KeepsVersion, TypeOK, DeleteMeta
  <2>4. Leaves(w)
    BY <1>2, <2>3 DEF Leaves, DeleteMeta
  <2>5. QED BY <2>3, <2>4
<1>3. QED BY <1>1, <1>2

\* A failed converge may or may not have applied its delete.
LEMMA ConvergeFailsStep ==
    ASSUME TypeOK, NEW w \in Writers, ConvergeInvalidationFails(w)
    PROVE  WriterTo(w) /\ (Leaves(w) \/ Fences(w))
<1> DEFINE new == IF wr[w].pc = "pre"
                    THEN [wr[w] EXCEPT !.pc = "forward", !.exp = 0]
                  ELSE IF wr[w].retried THEN Returned(w)
                  ELSE [wr[w] EXCEPT !.retried = TRUE, !.exp = 0]
<1>0. wr[w] \in WriterRecords
  BY DEF TypeOK
<1>1. /\ new \in WriterRecords
      /\ new.pc = "converge" => wr[w].pc = "converge" /\ new.n = wr[w].n
  BY <1>0, Zenon DEF WriterRecords, WriterSteps, Returned, NoWrite
<1>2. wr' = [wr EXCEPT ![w] = new]
  BY DEF ConvergeInvalidationFails
<1>3. WriterTo(w) /\ KeepsVersion(w)
  BY <1>1, <1>2 DEF WriterTo, KeepsVersion, TypeOK, ConvergeInvalidationFails
<1>4. UNCHANGED <<upstream, settled>> /\ row' \in {row, FencedRow}
  BY DEF ConvergeInvalidationFails
<1>5. QED BY <1>3, <1>4 DEF Leaves, Fences

\* Forwarding advances upstream by one mutation, or not at all.
LEMMA ForwardSteps ==
    ASSUME TypeOK, NEW w \in Writers,
           \/ \E op \in {"put", "delete"}: PreForwardInvalidate(w, op)
           \/ \E e \in ETags \cup {Gone}:
                ForwardApplied(w, e) \/ ForwardResponseLost(w, e)
           \/ ForwardRejected(w)
    PROVE  WriterTo(w) /\ (Leaves(w) \/ Mutates(w))
<1>0. wr[w] \in WriterRecords /\ upstream.n \in Nat /\ upstream.n + 1 \in Nat
  BY DEF TypeOK
<1>n. NoWrite("done") \in WriterRecords /\ NoWrite("done").pc = "done"
  BY DEF NoWrite, WriterRecords, WriterSteps
<1>1. CASE \E op \in {"put", "delete"}: PreForwardInvalidate(w, op)
  <2>1. PICK op \in {"put", "delete"}: PreForwardInvalidate(w, op)
    BY <1>1
  <2> DEFINE new == [wr[w] EXCEPT !.pc = "pre", !.op = op]
  <2>2. new \in WriterRecords /\ new.pc = "pre"
    BY <1>0, Zenon DEF WriterRecords, WriterSteps
  <2>3. wr' = [wr EXCEPT ![w] = new]
    BY <2>1, Zenon DEF PreForwardInvalidate, TypeOK
  <2>4. QED BY <2>1, <2>2, <2>3
            DEF PreForwardInvalidate, TypeOK, WriterTo, Leaves, KeepsVersion
<1>2. CASE \E e \in ETags \cup {Gone}: ForwardApplied(w, e)
  <2>1. PICK e \in ETags \cup {Gone}: ForwardApplied(w, e)
    BY <1>2
  <2> DEFINE new == [wr[w] EXCEPT !.pc = "converge", !.n = upstream.n + 1,
                                  !.etag = e, !.ok = TRUE]
  <2>2. new \in WriterRecords /\ new.n = upstream.n + 1
    <3>1. new \in WriterRecords
      BY <1>0, ZenonT(60) DEF WriterRecords, WriterSteps
    <3>2. new.n = upstream.n + 1
      BY <1>0, SMTT(30) DEF WriterRecords
    <3>3. QED BY <3>1, <3>2
  <2>3. wr' = [wr EXCEPT ![w] = new]
    BY <2>1, ZenonT(60) DEF ForwardApplied, TypeOK
  <2>4. UNCHANGED <<content, pop, row, settled>>
        /\ upstream' = [n |-> upstream.n + 1, etag |-> e]
    BY <2>1, Zenon DEF ForwardApplied
  <2> HIDE DEF new
  <2>5. WriterTo(w) /\ wr'[w].n = upstream.n + 1
    BY <2>2, <2>3, <2>4 DEF TypeOK, WriterTo
  <2>6. QED BY <2>4, <2>5 DEF Mutates
<1>3. CASE \E e \in ETags \cup {Gone}: ForwardResponseLost(w, e)
  BY <1>n, <1>3 DEF ForwardResponseLost, TypeOK, WriterTo, Mutates
<1>4. CASE ForwardRejected(w)
  BY <1>n, <1>4 DEF ForwardRejected, TypeOK, WriterTo, Leaves, KeepsVersion
<1>5. QED BY <1>1, <1>2, <1>3, <1>4

\* Every writer action has one of the writer forms.
LEMMA WriterForms ==
    ASSUME TypeOK, NEW w \in Writers, WriterNext(w)
    PROVE  WriterTo(w) /\ (Leaves(w) \/ Fences(w) \/ Mutates(w))
BY DeleteMetaStep, ConvergeFailsStep, ForwardSteps DEF WriterNext

-----------------------------------------------------------------------------
RowType == [live: BOOLEAN, ver: Nat, n: Nat, etag: ETags \cup {Gone}]

\* The fields of an absent row.
LEMMA AbsentRowFacts ==
    ASSUME NEW v \in Nat
    PROVE  AbsentRow(v) \in RowType /\ ~AbsentRow(v).live /\ AbsentRow(v).ver = v
BY DEF AbsentRow, RowType

(* Each kind of step preserves SafeInv.                                       *)
LEMMA WriterStepSafe ==
    ASSUME SafeInv, NEW w \in Writers, WriterTo(w),
           Leaves(w) \/ Fences(w) \/ Mutates(w)
    PROVE  SafeInv'
<1>0. row \in RowType /\ row.ver \in Nat /\ row.ver + 1 \in Nat
  BY DEF SafeInv, TypeOK, RowType
<1>1. /\ row' \in RowType
      /\ row.ver <= row'.ver
      /\ row' = row \/ ~row'.live
  BY <1>0, AbsentRowFacts DEF Leaves, Fences, Mutates, FencedRow
<1>2. upstream' \in [n: Nat, etag: ETags \cup {Gone}] /\ settled' \in Nat
  <2>1. wr[w].n \in Nat /\ settled \in Nat /\ upstream.n + 1 \in Nat
    BY DEF SafeInv, TypeOK, WriterRecords
  <2>2. QED BY <2>1 DEF SafeInv, TypeOK, Leaves, Fences, Mutates
<1>3. TypeOK'
  BY <1>1, <1>2 DEF SafeInv, TypeOK, WriterTo, RowType
<1>4. ASSUME NEW q \in Requests PROVE RequestSafe(pop[q])'
  <2>1. pop'[q] = pop[q] /\ pop[q].tok \in Nat /\ row.ver \in Nat /\ row'.ver \in Nat
    BY <1>1 DEF WriterTo, SafeInv, TypeOK, PopRecords, RowType
  <2>2. RequestSafe(pop[q])
    BY DEF SafeInv
  <2>3. QED BY <1>1, <2>1, <2>2 DEF RequestSafe, RemovalArmed, ContentNamed
<1>5. QED BY <1>3, <1>4 DEF SafeInv

\* Expiry and eviction preserve SafeInv.
LEMMA EnvironmentSafe ==
    ASSUME SafeInv, ExpireMeta \/ (\E e \in ETags: EvictContent(e)) \/ UNCHANGED vars
    PROVE  SafeInv'
<1>1. /\ row' = row \/ row' = AbsentRow(row.ver)
      /\ content' \subseteq ETags
      /\ UNCHANGED <<upstream, pop, wr, settled>>
  BY DEF ExpireMeta, EvictContent, vars, SafeInv, TypeOK
<1>2. row' \in RowType /\ row'.ver = row.ver /\ (row' = row \/ ~row'.live)
  <2>1. row \in RowType /\ row.ver \in Nat
    BY DEF SafeInv, TypeOK, RowType
  <2>2. QED BY <1>1, <2>1, AbsentRowFacts
<1>3. QED BY <1>1, <1>2 DEF RowType, SafeInv, TypeOK, RequestSafe, RemovalArmed, ContentNamed

\* A request step that touches the store preserves SafeInv.
LEMMA StoreStepSafe ==
    ASSUME SafeInv, NEW r \in Requests, StoreStep(r)
    PROVE  SafeInv'
<1>1. pop[r] \in PopRecords /\ pop[r].tok \in Nat /\ row.ver \in Nat
  BY DEF SafeInv, TypeOK, PopRecords
<1>2. row' \in RowType /\ (row' = row \/ row'.ver = row.ver + 1)
  <2>0. row \in RowType /\ row.ver + 1 \in Nat
    BY <1>1 DEF SafeInv, TypeOK, RowType
  <2>1. CASE Removes(r)
    BY <2>0, <2>1, AbsentRowFacts DEF Removes, FencedRow
  <2>2. CASE Commits(r)
    BY <1>1, <2>0, <2>2 DEF Commits, PutIfVersion, LiveRow, PopRecords, RowType
  <2>3. QED BY <2>1, <2>2 DEF StoreStep
<1>3. TypeOK'
  BY <1>2 DEF SafeInv, TypeOK, StoreStep, RowType
<1>4. ASSUME NEW q \in Requests, q # r PROVE RequestSafe(pop[q])'
  <2>1. pop'[q] = pop[q] /\ pop[q].tok \in Nat
    BY <1>4 DEF StoreStep, SafeInv, TypeOK, PopRecords
  <2>2. RequestSafe(pop[q])
    BY DEF SafeInv
  <2>3. QED BY <1>1, <1>2, <2>1, <2>2 DEF RequestSafe, RemovalArmed, ContentNamed
<1>5. RequestSafe(pop[r])'
  <2>1. CASE pop'[r] = NoTask("done")
    BY <1>1, <1>2, <2>1 DEF NoTask, RequestSafe, RemovalArmed, ContentNamed
  <2>2. CASE pop[r].path = "reval" /\ pop[r].pc = "remove" /\ StepOnly(r, "token")
    <3>1. pop[r].etag \in ETags
      BY <2>2 DEF SafeInv, RequestSafe, ContentNamed
    <3>2. QED BY <1>1, <1>2, <2>2, <3>1
              DEF StepOnly, RequestSafe, RemovalArmed, ContentNamed, SafeInv
  <2>3. QED BY <2>1, <2>2 DEF StoreStep
<1>6. QED BY <1>3, <1>4, <1>5 DEF SafeInv

\* A request step that changes only its own record preserves SafeInv.
LEMMA LocalFormSafe ==
    ASSUME SafeInv, NEW r \in Requests, LocalTo(r), LocalForm(r)
    PROVE  SafeInv'
<1>1. RequestSafe(pop'[r])
  <2>0. /\ pop[r] \in PopRecords /\ pop'[r] \in PopRecords
        /\ row.ver \in Nat /\ pop[r].tok \in Nat
        /\ upstream.etag # Gone => upstream.etag \in ETags
        /\ RequestSafe(pop[r])
    BY DEF SafeInv, TypeOK, LocalTo, PopRecords
  <2>1. CASE pop'[r] = NoTask("done")
    BY <2>0, <2>1 DEF NoTask, RequestSafe, RemovalArmed, ContentNamed
  <2>2. CASE Starts(r)
    BY <2>0, <2>2 DEF Starts, RequestSafe, RemovalArmed, ContentNamed
  <2>3. CASE Fetches(r)
    BY <2>0, <2>3 DEF Fetches, FetchesTo, RequestSafe, RemovalArmed, ContentNamed
  <2>4. CASE StartsOver(r)
    BY <2>0, <2>4 DEF StartsOver, RequestSafe, RemovalArmed, ContentNamed
  <2>5. CASE Arms(r)
    BY <2>0, <2>5 DEF Arms, RequestSafe, RemovalArmed, ContentNamed
  <2>6. CASE FindsStale(r)
    BY <2>0, <2>6 DEF FindsStale, RequestSafe, RemovalArmed, ContentNamed
  <2>7. CASE ReadsLateToken(r)
    BY <2>0, <2>7 DEF ReadsLateToken, RequestSafe, RemovalArmed, ContentNamed
  <2>8. CASE Advances(r)
    BY <2>0, <2>8 DEF Advances, StepOnly, RequestSafe, RemovalArmed, ContentNamed
  <2>9. QED BY <2>1, <2>2, <2>3, <2>4, <2>5, <2>6, <2>7, <2>8 DEF LocalForm
<1>2. QED BY <1>1, LocalStepSafe

\* SafeInv holds initially.
LEMMA SafeInit == Init => SafeInv
<1> SUFFICES ASSUME Init PROVE SafeInv
  OBVIOUS
<1>1. /\ NoTask("idle") \in PopRecords /\ NoTask("idle").pc = "idle"
      /\ NoTask("idle").tok = 0
  BY DEF NoTask, PopRecords, AllPaths
<1>2. NoWrite("idle") \in WriterRecords
  BY DEF NoWrite, WriterRecords, WriterSteps
<1>3. row \in RowType /\ row.ver = 1
  BY AbsentRowFacts DEF Init, LiveRow, RowType
<1>4. TypeOK
  <2>1. upstream \in [n: Nat, etag: ETags \cup {Gone}]
    BY DEF Init
  <2>2. pop \in [Requests -> PopRecords]
    BY <1>1 DEF Init
  <2>3. wr \in [Writers -> WriterRecords]
    BY <1>2 DEF Init
  <2>4. content \subseteq ETags /\ settled \in Nat
    BY DEF Init
  <2>5. QED BY <1>3, <2>1, <2>2, <2>3, <2>4 DEF TypeOK, RowType
<1>5. \A r \in Requests: RequestSafe(pop[r])
  <2>1. \A r \in Requests: pop[r] = NoTask("idle")
    BY Zenon DEF Init
  <2>2. RequestSafe(NoTask("idle"))
    BY <1>1, <1>3 DEF RequestSafe, RemovalArmed, ContentNamed
  <2>3. QED BY <2>1, <2>2, Zenon
<1>6. QED BY <1>4, <1>5 DEF SafeInv

\* SafeInv is inductive: it needs no assumption on the order of token and fetch.
LEMMA SafeStep == SafeInv /\ [Next]_vars => SafeInv'
<1> SUFFICES ASSUME SafeInv, [Next]_vars PROVE SafeInv'
  OBVIOUS
<1>1. ASSUME NEW w \in Writers, WriterNext(w) PROVE SafeInv'
  BY <1>1, WriterForms, WriterStepSafe DEF SafeInv
<1>2. ASSUME NEW r \in Requests, RequestNext(r) PROVE SafeInv'
  BY <1>2, RequestForms, LocalFormSafe, StoreStepSafe
<1>3. CASE ExpireMeta \/ (\E e \in ETags: EvictContent(e)) \/ UNCHANGED vars
  BY <1>3, EnvironmentSafe
<1>4. QED BY <1>1, <1>2, <1>3 DEF Next, Quiescent

\* SafeInv is an invariant of every populate path of the CAS coordinator
\* (casCoordinator): types, and the versions held as tokens never exceed the row's.
THEOREM SafeInvariant == Spec => []SafeInv
BY SafeInit, SafeStep, PTL DEF Spec

(* Every reachable state is well typed, whatever paths are enabled and        *)
(* whatever fails: in particular content only ever holds real ETags.          *)
THEOREM TypeCorrect == Spec => []TypeOK
<1>1. SafeInv => TypeOK
  BY DEF SafeInv
<1>2. QED BY <1>1, SafeInvariant, PTL

(* A guarded removal takes only the entry its caller saw as stale             *)
(* (deleteMetaIfETag), for every enabled path and every interleaving.         *)
THEOREM RemovalIsGuarded == Spec => GuardedRemoval
<1> DEFINE Guarded == \A r \in Requests:
                        /\ pop[r].pc = "remove"
                        /\ pop'[r].pc # "remove"
                        /\ row.live /\ ~row'.live
                        => row.etag = pop[r].stale
<1>1. SafeInv /\ [Next]_vars => [Guarded]_vars
  <2> SUFFICES ASSUME SafeInv, Next, NEW r \in Requests,
                      pop[r].pc = "remove", pop'[r].pc # "remove",
                      row.live, ~row'.live
               PROVE  row.etag = pop[r].stale
    OBVIOUS
  <2>1. ASSUME NEW q \in Requests, RequestNext(q) PROVE row.etag = pop[r].stale
    <3>1. q = r
      BY <2>1, RequestForms DEF LocalTo, StoreStep
    <3>2. StoreStep(r)
      BY <2>1, <3>1, RequestForms DEF LocalTo
    <3>3. Removes(r)
      BY <3>2 DEF StoreStep, Commits
    <3>4. row.ver = pop[r].tok
      BY <3>3 DEF Removes
    <3>5. QED BY <3>4 DEF SafeInv, RequestSafe, RemovalArmed
  <2>2. ASSUME NEW w \in Writers, WriterNext(w) PROVE pop' = pop
    BY <2>2, WriterForms DEF SafeInv, WriterTo
  <2>3. CASE ExpireMeta \/ (\E e \in ETags: EvictContent(e)) \/ Quiescent
    BY <2>3 DEF ExpireMeta, EvictContent, Quiescent, vars
  <2>4. QED BY <2>1, <2>2, <2>3 DEF Next
<1>2. Spec => [][Guarded]_vars
  BY <1>1, SafeInvariant, PTL DEF Spec
<1>3. QED BY <1>2 DEF GuardedRemoval

-----------------------------------------------------------------------------
(* The order of tokens, fetches and fences when every enabled path reads its  *)
(* token before it fetches.                                                   *)
TokenFirst == Paths \cap LateTokenPaths = {}

EarlyToken(p) == p.path \notin LateTokenPaths /\ p.pc \notin {"gate", "token"}

RowCurrent ==
    row.live => /\ settled <= row.n /\ row.n <= upstream.n
                /\ row.n = upstream.n => row.etag = upstream.etag

WritersCurrent ==
    \A w \in Writers: wr[w].pc = "converge" => wr[w].n <= upstream.n

OrderInv ==
    /\ SafeInv
    /\ \A r \in Requests: EarlyToken(pop[r])
    /\ TokensOrdered
    /\ settled <= upstream.n
    /\ RowCurrent
    /\ WritersCurrent

USE DEF RowType

\* The types of the records that OrderInv speaks of.
LEMMA OrderTypes ==
    ASSUME TypeOK
    PROVE  /\ row.ver \in Nat /\ row.n \in Nat /\ settled \in Nat
           /\ upstream.n \in Nat /\ row.live \in BOOLEAN
           /\ \A r \in Requests: pop[r].tok \in Nat /\ pop[r].n \in Nat
           /\ \A w \in Writers: wr[w].n \in Nat
BY DEF TypeOK, PopRecords, WriterRecords

\* OrderInv holds initially.
LEMMA OrderInit == Init => OrderInv
<1> SUFFICES ASSUME Init PROVE OrderInv
  OBVIOUS
<1>1. SafeInv
  BY SafeInit
<1>2. \A r \in Requests: pop[r] = NoTask("idle")
  BY Zenon DEF Init
<1>3. /\ row.ver = 1
      /\ row.live => row.n = upstream.n /\ row.etag = upstream.etag
  BY AbsentRowFacts DEF Init, LiveRow
<1>4. EarlyToken(NoTask("idle")) /\ PopulateOrdered(NoTask("idle"))
  BY <1>3 DEF EarlyToken, PopulateOrdered, NoTask, LateTokenPaths
<1>5. settled <= upstream.n
  BY DEF Init
<1>6. \A w \in Writers: wr[w] = NoWrite("idle")
  BY DEF Init
<1>7. WritersCurrent
  BY <1>6 DEF WritersCurrent, NoWrite
<1>8. RowCurrent
  <2>1. upstream.n \in Nat
    BY DEF Init
  <2>2. QED BY <1>3, <1>5, <2>1 DEF RowCurrent
<1>9. QED BY <1>1, <1>2, <1>4, <1>5, <1>7, <1>8 DEF OrderInv, TokensOrdered

\* A request step that changes only its own record preserves OrderInv.
LEMMA LocalStepOrder ==
    ASSUME TokenFirst, OrderInv, SafeInv', NEW r \in Requests,
           LocalTo(r), LocalForm(r)
    PROVE  OrderInv'
<1>0. TypeOK /\ EarlyToken(pop[r]) /\ PopulateOrdered(pop[r]) /\ TypeOK'
  BY SMTT(30) DEF OrderInv, SafeInv, TokensOrdered
<1>1. EarlyToken(pop'[r]) /\ PopulateOrdered(pop'[r])
  <2> USE DEF EarlyToken, PopulateOrdered
  <2>0. /\ row.ver \in Nat /\ row.n \in Nat /\ settled \in Nat
        /\ upstream.n \in Nat /\ pop[r].tok \in Nat /\ pop[r].n \in Nat
        /\ settled <= upstream.n /\ (row.live => row.n <= upstream.n)
    BY <1>0, OrderTypes DEF OrderInv, RowCurrent
  <2>1. CASE pop'[r] = NoTask("done")
    BY <2>0, <2>1 DEF NoTask, LateTokenPaths
  <2>2. CASE Starts(r)
    BY <2>0, <2>2, SMTT(30) DEF Starts, TokenFirst
  <2>3. CASE Fetches(r)
    <3>1. PICK next \in {"content", "recheck", "observe", "gate"}: FetchesTo(r, next)
      BY <2>3, SMTT(30) DEF Fetches
    <3>2. next \in {"content", "recheck"}
      BY <1>0, <3>1, SMTT(30) DEF FetchesTo, LateTokenPaths
    <3>3. QED BY <1>0, <2>0, <3>1, <3>2, SMTT(30) DEF FetchesTo
  <2>4. CASE StartsOver(r)
    BY <2>0, <2>4, SMTT(30) DEF StartsOver, LateTokenPaths
  <2>5. CASE Arms(r)
    BY <1>0, <2>0, <2>5, SMTT(30) DEF Arms
  <2>6. CASE FindsStale(r)
    BY <1>0, <2>0, <2>6 DEF FindsStale
  <2>7. CASE ReadsLateToken(r)
    BY <1>0, <2>7, SMTT(30) DEF ReadsLateToken
  <2>8. CASE Advances(r)
    <3>1. \/ pop[r].pc = "content" /\ StepOnly(r, "recheck")
          \/ pop[r].pc \in {"content", "recheck"} /\ StepOnly(r, "commit")
      BY <1>0, <2>8 DEF Advances, LateTokenPaths
    <3>2. QED BY <1>0, <2>0, <3>1, SMTT(30) DEF StepOnly
  <2>9. QED BY <2>1, <2>2, <2>3, <2>4, <2>5, <2>6, <2>7, <2>8, ZenonT(60) DEF LocalForm
<1>2. ASSUME NEW q \in Requests PROVE (EarlyToken(pop[q]) /\ PopulateOrdered(pop[q]))'
  <2>1. CASE q = r
    BY <1>1, <2>1, SMTT(30) DEF EarlyToken, PopulateOrdered, LocalTo
  <2>2. CASE q # r
    BY <2>2 DEF EarlyToken, PopulateOrdered, LocalTo, OrderInv, TokensOrdered
  <2>3. QED BY <2>1, <2>2
<1>3. (settled <= upstream.n /\ RowCurrent /\ WritersCurrent)'
  BY DEF OrderInv, RowCurrent, WritersCurrent, LocalTo
<1>4. QED BY <1>2, <1>3 DEF OrderInv, TokensOrdered

(* A store step by r: what the row becomes.                                   *)
LEMMA StoreStepRow ==
    ASSUME OrderInv, NEW r \in Requests, StoreStep(r)
    PROVE  /\ RowCurrent'
           /\ row' = row \/ row'.ver = row.ver + 1
           /\ row.live /\ row'.live => row.n <= row'.n
<1>0. TypeOK /\ PopulateOrdered(pop[r]) /\ RowCurrent
  BY DEF OrderInv, SafeInv, TokensOrdered
<1>1. /\ row.ver \in Nat /\ row.n \in Nat /\ settled \in Nat
      /\ upstream.n \in Nat /\ pop[r].tok \in Nat /\ pop[r].n \in Nat
      /\ row.ver + 1 \in Nat
  BY <1>0, OrderTypes
<1>2. settled' = settled /\ upstream' = upstream
  BY DEF StoreStep
<1>3. CASE row' = row
  BY <1>0, <1>1, <1>2, <1>3 DEF RowCurrent
<1>4. CASE row' = FencedRow
  BY <1>1, <1>4, AbsentRowFacts DEF FencedRow, RowCurrent
<1>5. CASE /\ pop[r].pc = "commit" /\ pop[r].tok = row.ver
           /\ row' = [live |-> TRUE, ver |-> row.ver + 1, n |-> pop[r].n,
                      etag |-> pop[r].etag]
  BY <1>0, <1>1, <1>2, <1>5, SMTT(30) DEF RowCurrent, PopulateOrdered
<1>6. QED BY <1>3, <1>4, <1>5 DEF StoreStep, Removes, Commits, PutIfVersion, LiveRow

\* Guarded removal and preconditioned commit preserve OrderInv.
LEMMA StoreStepOrder ==
    ASSUME OrderInv, SafeInv', NEW r \in Requests, StoreStep(r)
    PROVE  OrderInv'
<1>0. TypeOK /\ EarlyToken(pop[r])
  BY DEF OrderInv, SafeInv
<1>1. RowCurrent' /\ (row' = row \/ row'.ver = row.ver + 1)
  BY StoreStepRow
<1>2. UNCHANGED <<upstream, wr, settled>>
  BY DEF StoreStep
<1>3. pop'[r] = NoTask("done")
  BY <1>0 DEF StoreStep, EarlyToken, LateTokenPaths
<1>4. ASSUME NEW q \in Requests PROVE (EarlyToken(pop[q]) /\ PopulateOrdered(pop[q]))'
  <2>0. row.ver \in Nat /\ pop[q].tok \in Nat
    BY <1>0, OrderTypes
  <2>1. CASE q = r
    BY <1>1, <1>3, <2>0, <2>1, SMTT(30) DEF NoTask, EarlyToken, PopulateOrdered, LateTokenPaths
  <2>2. CASE q # r
    <3>1. pop'[q] = pop[q] /\ EarlyToken(pop[q]) /\ PopulateOrdered(pop[q])
      BY <2>2 DEF StoreStep, OrderInv, TokensOrdered
    <3>2. QED BY <1>1, <1>2, <2>0, <3>1, SMTT(30) DEF EarlyToken, PopulateOrdered
  <2>3. QED BY <2>1, <2>2
<1>5. (settled <= upstream.n /\ WritersCurrent)'
  BY <1>2 DEF OrderInv, WritersCurrent
<1>6. QED BY <1>1, <1>4, <1>5, SMTT(30) DEF OrderInv, TokensOrdered

(* A step that keeps every populate, and moves the row only to an absent one  *)
(* with a version no smaller, keeps the order.                                *)
LEMMA QuietStepOrder ==
    ASSUME OrderInv, SafeInv', pop' = pop,
           row' = row \/ (~row'.live /\ row'.ver >= row.ver),
           upstream' = upstream, WritersCurrent', settled' <= upstream.n,
           settled' = settled \/ row'.ver > row.ver
    PROVE  OrderInv'
<1>0. TypeOK /\ TypeOK'
  BY DEF OrderInv, SafeInv
<1>1. row.ver \in Nat /\ row'.ver \in Nat /\ settled \in Nat /\ settled' \in Nat
  BY <1>0 DEF TypeOK
<1>2. RowCurrent'
  <2>1. CASE row' = row
    BY <1>1, <2>1 DEF OrderInv, RowCurrent
  <2>2. CASE ~row'.live
    BY <2>2 DEF RowCurrent
  <2>3. QED BY <2>1, <2>2
<1>3. ASSUME NEW q \in Requests PROVE (EarlyToken(pop[q]) /\ PopulateOrdered(pop[q]))'
  <2>1. pop[q].tok \in Nat /\ EarlyToken(pop[q]) /\ PopulateOrdered(pop[q])
    BY <1>0, OrderTypes DEF OrderInv, TokensOrdered
  <2>2. QED BY <1>1, <2>1 DEF EarlyToken, PopulateOrdered
<1>4. QED BY <1>2, <1>3 DEF OrderInv, TokensOrdered

\* Writers preserve OrderInv: a fence moves the row past every older token.
LEMMA WriterStepOrder ==
    ASSUME OrderInv, SafeInv', NEW w \in Writers, WriterTo(w),
           Leaves(w) \/ Fences(w) \/ Mutates(w)
    PROVE  OrderInv'
<1>0. /\ TypeOK /\ row.ver \in Nat /\ row.ver + 1 \in Nat /\ row.n \in Nat
      /\ settled \in Nat /\ upstream.n \in Nat /\ settled <= upstream.n
      /\ WritersCurrent /\ pop' = pop
  BY OrderTypes DEF OrderInv, SafeInv, WriterTo
<1>1. CASE Leaves(w)
  <2>1. WritersCurrent'
    BY <1>0, <1>1 DEF WritersCurrent, WriterTo, Leaves, KeepsVersion
  <2>2. QED BY <1>0, <1>1, <2>1, QuietStepOrder DEF Leaves
<1>2. CASE Fences(w)
  <2>1. WritersCurrent'
    BY <1>0, <1>2, SMTT(30) DEF WritersCurrent, WriterTo, Fences, KeepsVersion
  <2>2. ~row'.live /\ row'.ver = row.ver + 1
    BY <1>0, <1>2, AbsentRowFacts DEF Fences, FencedRow
  <2>3. settled' <= upstream.n
    BY <1>0, <1>2 DEF Fences, WritersCurrent
  <2>4. QED BY <1>0, <1>2, <2>1, <2>2, <2>3, QuietStepOrder DEF Fences
<1>3. CASE Mutates(w)
  <2>1. row' = row /\ settled' = settled /\ upstream'.n = upstream.n + 1
    BY <1>3 DEF Mutates
  <2>2. ASSUME NEW v \in Writers, wr'[v].pc = "converge" PROVE wr'[v].n <= upstream'.n
    <3>1. CASE v = w
      BY <1>0, <1>3, <2>1, <2>2, <3>1, SMTT(30) DEF Mutates
    <3>2. CASE v # w
      <4>1. wr'[v] = wr[v] /\ wr[v].n \in Nat
        BY <1>0, <3>2, OrderTypes DEF WriterTo
      <4>2. QED BY <1>0, <2>1, <2>2, <4>1 DEF WritersCurrent
    <3>3. QED BY <3>1, <3>2
  <2>3. RowCurrent'
    BY <1>0, <2>1 DEF OrderInv, RowCurrent
  <2>4. ASSUME NEW q \in Requests PROVE (EarlyToken(pop[q]) /\ PopulateOrdered(pop[q]))'
    <3>1. pop[q].n \in Nat /\ EarlyToken(pop[q]) /\ PopulateOrdered(pop[q])
      BY <1>0, OrderTypes DEF OrderInv, TokensOrdered
    <3>2. QED BY <1>0, <2>1, <3>1, SMTT(30) DEF EarlyToken, PopulateOrdered
  <2>5. (settled <= upstream.n)'
    BY <1>0, <2>1
  <2>6. QED BY <2>2, <2>3, <2>4, <2>5 DEF OrderInv, TokensOrdered, WritersCurrent
<1>4. QED BY <1>1, <1>2, <1>3

\* Expiry and eviction preserve OrderInv.
LEMMA EnvironmentOrder ==
    ASSUME OrderInv, SafeInv',
           ExpireMeta \/ (\E e \in ETags: EvictContent(e)) \/ UNCHANGED vars
    PROVE  OrderInv'
<1>1. /\ row' = row \/ row' = AbsentRow(row.ver)
      /\ UNCHANGED <<upstream, pop, wr, settled>>
  BY DEF ExpireMeta, EvictContent, vars
<1>2. row.ver \in Nat /\ settled <= upstream.n /\ WritersCurrent
  BY OrderTypes DEF OrderInv, SafeInv
<1>3. WritersCurrent'
  BY <1>1, <1>2 DEF WritersCurrent
<1>4. row' = row \/ (~row'.live /\ row'.ver >= row.ver)
  BY <1>1, <1>2, AbsentRowFacts
<1>5. QED BY <1>1, <1>2, <1>3, <1>4, QuietStepOrder

\* OrderInv is inductive when every path reads its token first.
LEMMA OrderStep == TokenFirst /\ OrderInv /\ [Next]_vars => OrderInv'
<1> SUFFICES ASSUME TokenFirst, OrderInv, [Next]_vars PROVE OrderInv'
  OBVIOUS
<1>0. SafeInv /\ SafeInv'
  BY SafeStep DEF OrderInv
<1>1. ASSUME NEW w \in Writers, WriterNext(w) PROVE OrderInv'
  BY <1>0, <1>1, WriterForms, WriterStepOrder DEF SafeInv
<1>2. ASSUME NEW r \in Requests, RequestNext(r) PROVE OrderInv'
  BY <1>0, <1>2, RequestForms, LocalStepOrder, StoreStepOrder
<1>3. CASE ExpireMeta \/ (\E e \in ETags: EvictContent(e)) \/ UNCHANGED vars
  BY <1>0, <1>3, EnvironmentOrder
<1>4. QED BY <1>1, <1>2, <1>3 DEF Next, Quiescent

\* When every populate reads its token before it fetches (streamFromUpstream,
\* warmToken, forwardPutMaybeTee, cacheBlockMetaOnWrite), OrderInv is an invariant: a
\* token that still matches the row belongs to a response no settled write has overtaken.
THEOREM OrderInvariant == TokenFirst => (Spec => []OrderInv)
<1>1. SUFFICES ASSUME TokenFirst PROVE Spec => []OrderInv
  OBVIOUS
<1>2. OrderInv /\ [Next]_vars => OrderInv'
  BY <1>1, OrderStep
<1>3. QED BY <1>2, OrderInit, PTL DEF Spec

(* With token-first paths the token decides, for any number of populates and  *)
(* writers: one still equal to the key's version vouches that no settled      *)
(* mutation and no visible entry is newer than what the populate fetched      *)
(* (GetMetaWithVersion before the fetch, PutMetaIfVersion after it).          *)
THEOREM TokensDecide == TokenFirst => (Spec => []TokensOrdered)
<1>1. OrderInv => TokensOrdered
  BY DEF OrderInv
<1>2. QED BY <1>1, OrderInvariant, PTL

(* Read-after-write: when every populate reads its token before it fetches,   *)
(* no entry older than a settled mutation is ever visible, for any number of  *)
(* requests and writers, under store failures and lost responses.             *)
THEOREM ReadAfterWriteHolds == TokenFirst => (Spec => []ReadAfterWrite)
<1>1. OrderInv => ReadAfterWrite
  BY OrderTypes DEF OrderInv, SafeInv, RowCurrent, ReadAfterWrite
<1>2. QED BY <1>1, OrderInvariant, PTL

(* Once the last mutation has settled, a visible entry is what upstream       *)
(* holds.                                                                     *)
THEOREM SettledMatchesHolds == TokenFirst => (Spec => []SettledMatches)
<1>1. OrderInv => SettledMatches
  BY OrderTypes DEF OrderInv, SafeInv, RowCurrent, SettledMatches
<1>2. QED BY <1>1, OrderInvariant, PTL

(* No commit replaces a visible entry by an older one.                        *)
THEOREM DowngradeImpossible == TokenFirst => (Spec => NeverDowngrades)
<1> DEFINE Up == row.live /\ row'.live => row'.n >= row.n
<1>1. OrderInv /\ [Next]_vars => [Up]_vars
  <2> SUFFICES ASSUME OrderInv, Next, row.live, row'.live PROVE row'.n >= row.n
    OBVIOUS
  <2>0. row.n \in Nat /\ row.ver \in Nat /\ row.ver + 1 \in Nat /\ SafeInv
    BY OrderTypes DEF OrderInv, SafeInv
  <2>1. ASSUME NEW r \in Requests, RequestNext(r) PROVE row.n <= row'.n
    BY <2>0, <2>1, RequestForms, StoreStepRow DEF LocalTo
  <2>2. ASSUME NEW w \in Writers, WriterNext(w) PROVE row' = row
    BY <2>0, <2>2, WriterForms, AbsentRowFacts
       DEF SafeInv, Leaves, Fences, Mutates, FencedRow
  <2>3. CASE ExpireMeta \/ (\E e \in ETags: EvictContent(e)) \/ Quiescent
    BY <2>0, <2>3, AbsentRowFacts DEF ExpireMeta, EvictContent, Quiescent, vars
  <2>4. ASSUME row'.n \notin Nat PROVE FALSE
    BY <2>4, SafeStep, <2>0 DEF SafeInv, TypeOK
  <2>5. QED BY <2>0, <2>1, <2>2, <2>3, <2>4 DEF Next
<1>2. TokenFirst => (Spec => [][Up]_vars)
  BY <1>1, OrderInvariant, PTL DEF Spec
<1>3. QED BY <1>2 DEF NeverDowngrades

-----------------------------------------------------------------------------
(* Refinement.                                                                *)
Visible == IF row.live THEN row.n ELSE NoEntry

\* The abstract step under the refinement mapping, spelled out.
LEMMA AbsExpansion ==
    /\ Abs!AbsInit <=> upstream.n = 0 /\ settled = 0 /\ Visible \in {NoEntry, 0}
    /\ Abs!AbsMutate <=> /\ upstream'.n = upstream.n + 1
                         /\ settled' = settled /\ Visible' = Visible
    /\ Abs!AbsSettle <=> /\ settled' \in settled..upstream.n
                         /\ Visible' = NoEntry /\ upstream'.n = upstream.n
    /\ Abs!AbsFill <=> /\ Visible' \in settled..upstream.n
                       /\ Visible # NoEntry => Visible' >= Visible
                       /\ upstream'.n = upstream.n /\ settled' = settled
    /\ Abs!AbsDrop <=> /\ Visible' = NoEntry
                       /\ upstream'.n = upstream.n /\ settled' = settled
    /\ UNCHANGED Abs!absVars <=> /\ upstream'.n = upstream.n
                                 /\ settled' = settled /\ Visible' = Visible
BY DEF Abs!AbsInit, Abs!AbsMutate, Abs!AbsSettle, Abs!AbsFill, Abs!AbsDrop,
       Abs!absVars, Visible

\* Every concrete step is an abstract step or leaves the abstract state alone.
LEMMA AbsStep ==
    ASSUME OrderInv, OrderInv', [Next]_vars
    PROVE  [Abs!AbsNext]_(Abs!absVars)
<1> USE DEF Abs!AbsNext
<1>0. /\ TypeOK /\ TypeOK' /\ SafeInv
      /\ row.n \in Nat /\ row'.n \in Nat /\ settled \in Nat /\ settled' \in Nat
      /\ upstream.n \in Nat /\ upstream'.n \in Nat
      /\ row.ver \in Nat /\ row.ver + 1 \in Nat
      /\ row.live \in BOOLEAN /\ row'.live \in BOOLEAN
  BY DEF OrderInv, SafeInv, TypeOK
<1>1. ASSUME UNCHANGED <<upstream, row, settled>>
      PROVE  UNCHANGED Abs!absVars
  BY <1>1, AbsExpansion DEF Visible
<1>2. ASSUME ~row'.live, upstream' = upstream, settled' = settled
      PROVE  Abs!AbsDrop
  BY <1>2, AbsExpansion DEF Visible
<1>3. ASSUME NEW r \in Requests, RequestNext(r)
      PROVE  [Abs!AbsNext]_(Abs!absVars)
  <2>1. CASE LocalTo(r)
    BY <1>1, <2>1 DEF LocalTo
  <2>2. CASE StoreStep(r)
    <3>1. upstream' = upstream /\ settled' = settled
      BY <2>2 DEF StoreStep
    <3>2. CASE ~row'.live
      BY <1>2, <3>1, <3>2
    <3>3. CASE row'.live
      <4>1. /\ row'.n \in settled..upstream.n
            /\ row.live => row'.n >= row.n
        BY <1>0, <2>2, <3>1, <3>3, StoreStepRow DEF OrderInv, RowCurrent
      <4>2. Abs!AbsFill
        BY <1>0, <3>1, <3>3, <4>1, AbsExpansion, NoEntryAssumption DEF Visible
      <4>3. QED BY <4>2, SMTT(30)
    <3>4. QED BY <3>2, <3>3
  <2>3. QED BY <1>0, <1>3, <2>1, <2>2, RequestForms
<1>4. ASSUME NEW w \in Writers, WriterNext(w)
      PROVE  [Abs!AbsNext]_(Abs!absVars)
  <2>1. CASE Leaves(w)
    BY <1>1, <2>1 DEF Leaves
  <2>2. CASE Fences(w)
    <3>1. ~row'.live /\ upstream' = upstream /\ settled <= settled'
      BY <1>0, <2>2, AbsentRowFacts, OrderTypes DEF Fences, FencedRow
    <3>2. settled' \in settled..upstream.n
      BY <1>0, <3>1 DEF OrderInv
    <3>3. Abs!AbsSettle
      BY <3>1, <3>2, AbsExpansion DEF Visible
    <3>4. QED BY <3>3
  <2>3. CASE Mutates(w)
    <3>1. row' = row /\ settled' = settled /\ upstream'.n = upstream.n + 1
      BY <2>3 DEF Mutates
    <3>2. QED BY <3>1, AbsExpansion DEF Visible
  <2>4. QED BY <1>0, <1>4, <2>1, <2>2, <2>3, WriterForms
<1>5. CASE ExpireMeta
  <2>1. ~row'.live /\ upstream' = upstream /\ settled' = settled
    BY <1>0, <1>5, AbsentRowFacts DEF ExpireMeta
  <2>2. QED BY <1>2, <2>1
<1>6. CASE (\E e \in ETags: EvictContent(e)) \/ UNCHANGED vars
  BY <1>1, <1>6 DEF EvictContent, vars
<1>7. QED BY <1>3, <1>4, <1>5, <1>6, SMTT(30) DEF Next, Quiescent

(* The coordinator's tokens, fences and guarded removals implement the cache  *)
(* that never shows a version older than a settled mutation.                  *)
THEOREM Implementation == TokenFirst => (Spec => ImplementsCachedObject)
<1>1. Init => Abs!AbsInit
  BY AbsentRowFacts, AbsExpansion DEF Init, LiveRow, Visible
<1>2. TokenFirst => (Spec => [][Abs!AbsNext]_(Abs!absVars))
  BY AbsStep, OrderInvariant, PTL DEF Spec
<1>3. QED BY <1>1, <1>2, PTL DEF Spec, ImplementsCachedObject, Abs!AbsSpec
=============================================================================
