------------------------------- MODULE Tiered -------------------------------
(* One object in tiered mode (proxy/tiered.go over proxy/localstore.go).      *)
(*                                                                            *)
(* The metadata key is authoritative for existence.  A local-tier row names a *)
(* body stored under a per-write BodyRef, the only copy there is; an          *)
(* upstream-tier row (BodyUpstream) is a marker for a body held upstream.     *)
(* Clients run one mutating request each, on a node of their choice; Readers  *)
(* run one GET or HEAD.  A write claims the key on its own node only.  Behind *)
(* them run the background tasks: the re-tier a GET starts, the clean-up a    *)
(* small write starts, the upgrade a multipart completion starts.             *)
EXTENDS Naturals

CONSTANTS
    Clients,        \* mutating requests
    Readers,        \* GET and HEAD requests, each with the re-tier it may start
    Nodes,          \* processes; write claims and backoff are per process
    ETags,          \* content identities; equal bytes have equal ETags
    SmallETags,     \* contents within cache.size_threshold
    Kinds,          \* the kinds of request the instance makes
    MaxRetries,     \* the engine PUT's retries under a fresh token (8)
    MaxFaults,      \* bound: store and upstream failures in one behaviour
    Gone,           \* no such object upstream
    Nowhere,        \* the node of a request that is not running
    Seed            \* the writer of the initial object

LocalKinds == {"put", "ifmatch", "ifnone"}

MarkerKinds == {"upstream", "complete"}

DropKinds == {"delete", "bulk", "copy"}

ASSUME TieredAssumption ==
    /\ SmallETags \subseteq ETags /\ Gone \notin ETags
    /\ Kinds \subseteq LocalKinds \cup MarkerKinds \cup DropKinds
    /\ MaxRetries \in Nat /\ MaxFaults \in Nat
    /\ Clients \cap Readers = {} /\ Seed \notin Clients \cup Readers

VARIABLES
    upstream,       \* ETag of the object upstream, or Gone
    row,            \* the metadata key
    bodies,         \* BodyRefs whose body the local store holds
    evicted,        \* BodyRefs whose body the store has evicted
    wr,             \* the mutating requests
    task,           \* the background task each of them may start
    rd,             \* the reads
    retier,         \* the re-tier each of them may start
    backoff,        \* <<node, ETag>>: retierRecentMismatch
    gap,            \* reads that may answer a miss
    kept,           \* BodyRefs a row has named, or a failed call has left behind
    faults          \* failures so far

vars == <<upstream, row, bodies, evicted, wr, task, rd, retier, backoff, gap,
          kept, faults>>

Refs == Clients \cup Readers \cup {Seed}

Contents == ETags \cup {Gone}

(* known: the row states a content length; a completion's first marker does   *)
(* not.  ref is the row's BodyRef, by the request that wrote the object.      *)
Rows == [live: BOOLEAN, ver: Nat, etag: Contents, up: BOOLEAN, known: BOOLEAN,
         ref: Refs, by: Refs]

AbsentRow(ver) == [live |-> FALSE, ver |-> ver, etag |-> Gone, up |-> FALSE,
                   known |-> FALSE, ref |-> Seed, by |-> Seed]

LocalRow(e, ref, by) == [live |-> TRUE, ver |-> 0, etag |-> e, up |-> FALSE,
                         known |-> TRUE, ref |-> ref, by |-> by]

Marker(e, known, by) == [live |-> TRUE, ver |-> 0, etag |-> e, up |-> TRUE,
                         known |-> known, ref |-> Seed, by |-> by]

(* tok is the decision-time token, 0 when its read failed; prior the state it *)
(* was read with; seen the writer of that state.  hit: upstream has applied   *)
(* the request, or its answer left that open.                                 *)
WriteRecords == [pc: {"idle", "body", "commit", "token", "capture", "forward",
                      "sweep", "local", "converge", "again", "done"},
                 kind: LocalKinds \cup MarkerKinds \cup DropKinds,
                 node: Nodes \cup {Nowhere}, etag: Contents, tok: Nat,
                 prior: {"absent", "local", "up"}, old: Contents, seen: Refs,
                 tries: Nat, hit: BOOLEAN,
                 answer: {"none", "ok", "refused", "error"}]

TaskRecords == [pc: {"none", "check", "drop", "reread", "repair",
                     "head", "observe", "upgrade"},
                etag: Contents, tok: Nat, by: Refs]

ReadRecords == [pc: {"idle", "probe", "serve", "orphan", "done"},
                op: {"GET", "HEAD"}, ref: Refs, tok: Nat,
                answer: {"none", "hit", "miss", "error"}]

RetierRecords == [pc: {"none", "trigger", "verify", "fetch", "replaced", "vanished",
                       "body", "guard", "commit"},
                  node: Nodes \cup {Nowhere}, etag: Contents,
                  fresh: Contents, tok: Nat, by: Refs, canceled: BOOLEAN]

(* Type invariant of the store, upstream, the requests and their tasks.       *)
TypeOK ==
    /\ upstream \in Contents /\ row \in Rows
    /\ bodies \subseteq Refs /\ evicted \subseteq Refs
    /\ wr \in [Clients -> WriteRecords] /\ task \in [Clients -> TaskRecords]
    /\ rd \in [Readers -> ReadRecords] /\ retier \in [Readers -> RetierRecords]
    /\ backoff \subseteq Nodes \X ETags
    /\ gap \subseteq Readers /\ kept \subseteq Refs
    /\ faults \in 0..MaxFaults

Idle(pc, kind, answer) ==
    [pc |-> pc, kind |-> kind, node |-> Nowhere, etag |-> Gone, tok |-> 0,
     prior |-> "absent", old |-> Gone, seen |-> Seed, tries |-> 0,
     hit |-> FALSE, answer |-> answer]

Task(pc, e) == [pc |-> pc, etag |-> e, tok |-> 0, by |-> Seed]

NoTask == Task("none", Gone)

NoRead(pc, op, answer) ==
    [pc |-> pc, op |-> op, ref |-> Seed, tok |-> 0, answer |-> answer]

NoRetier == [pc |-> "none", node |-> Nowhere, etag |-> Gone, fresh |-> Gone,
             tok |-> 0, by |-> Seed, canceled |-> FALSE]

(* The object is in the local tier, in the upstream tier or absent.           *)
Init ==
    /\ \E e \in ETags :
          \/ /\ e \in SmallETags
             /\ row = [LocalRow(e, Seed, Seed) EXCEPT !.ver = 1]
             /\ bodies = {Seed} /\ upstream = Gone
          \/ /\ row = [Marker(e, TRUE, Seed) EXCEPT !.ver = 1]
             /\ bodies = {} /\ upstream = e
          \/ /\ row = AbsentRow(1)
             /\ bodies = {} /\ upstream = Gone
    /\ evicted = {} /\ backoff = {} /\ gap = {} /\ kept = bodies /\ faults = 0
    /\ wr = [c \in Clients |-> Idle("idle", "put", "none")]
    /\ task = [c \in Clients |-> NoTask]
    /\ rd = [r \in Readers |-> NoRead("idle", "GET", "none")]
    /\ retier = [r \in Readers |-> NoRetier]

-----------------------------------------------------------------------------
(* The store (ocache), as its callers use it.                                 *)

Fault == faults < MaxFaults /\ faults' = faults + 1

(* The row after PutIfVersion / DeleteIfVersion.                              *)
Put(expected, new) ==
    IF expected = row.ver THEN [new EXCEPT !.ver = row.ver + 1] ELSE row

Drop(expected) ==
    IF row.live /\ expected = row.ver THEN AbsentRow(row.ver + 1) ELSE row

Servable == row.live /\ (row.up \/ row.ref \in bodies)

(* An expired row is absent, under the version it had; what it said is kept    *)
(* as history.                                                                *)
Expired == [row EXCEPT !.live = FALSE]

ExpireMeta ==
    /\ row.live /\ Fault
    /\ row' = Expired
    /\ UNCHANGED <<upstream, bodies, evicted, wr, task, rd, retier, backoff>>

EvictBody(ref) ==
    /\ ref \in bodies /\ Fault
    /\ bodies' = bodies \ {ref} /\ evicted' = evicted \cup {ref}
    /\ UNCHANGED <<upstream, row, wr, task, rd, retier, backoff>>

(* DeleteBody of a staged body, best effort: the call may fail, applied or    *)
(* not, and leave an orphan to its TTL.                                       *)
DeleteBody(held, ref) ==
    \/ bodies' = held \ {ref} /\ UNCHANGED faults
    \/ Fault /\ bodies' \in {held, held \ {ref}}

-----------------------------------------------------------------------------
(* Claims.  A write is in progress on a node from its first step until it     *)
(* answers; taking the claim cancels the re-tiers registered there.           *)

Claimed(n) == \E c \in Clients : wr[c].pc \notin {"idle", "done"} /\ wr[c].node = n

Registered(n) ==
    {r \in Readers : retier[r].pc \notin {"none", "trigger"} /\ retier[r].node = n}

claimRetierWrite(n) ==
    retier' = [r \in Readers |->
                 IF r \in Registered(n)
                   THEN [retier[r] EXCEPT !.canceled = TRUE] ELSE retier[r]]

tryRegisterRetier(n) == ~Claimed(n) /\ Registered(n) = {}

(* The request answers and releases its claim.                                *)
Answer(c, answer) ==
    wr' = [wr EXCEPT ![c] = Idle("done", "put", answer)]

Goto(c, pc) == wr' = [wr EXCEPT ![c].pc = pc]

PriorOf(r) == IF ~r.live THEN "absent" ELSE IF r.up THEN "up" ELSE "local"

(* The request's snapshot: captureMarkerPrior, or the engine PUT's prior.     *)
Snapshot(c, kind, e, n, pc) ==
    wr' = [wr EXCEPT ![c] =
             [pc |-> pc, kind |-> kind, node |-> n, etag |-> e, tok |-> row.ver,
              prior |-> PriorOf(row), old |-> row.etag, seen |-> row.by,
              tries |-> 0, hit |-> FALSE, answer |-> "none"]]

-----------------------------------------------------------------------------
(* PUT into the local tier: handleTieredPut and the engine handleOriginlessPut. *)

(* The precondition on the snapshot, a star for If-None-Match.  A row whose   *)
(* body is gone does not exist for it; If-Match may name another ETag.        *)
Admits(kind) == kind = "put" \/ (kind = "ifmatch") = Servable

Refuses(kind) == kind = "ifmatch" \/ (kind = "ifnone" /\ Servable)

(* Claim, one metadata read, the tier decision and the precondition.  A       *)
(* conditional write over a marker goes upstream.                             *)
BeginLocal(c, kind, e, n) ==
    /\ wr[c].pc = "idle" /\ kind \in LocalKinds \cap Kinds /\ e \in SmallETags
    /\ claimRetierWrite(n)
    /\ \/ /\ Admits(kind)
          /\ kind = "put" \/ ~(row.live /\ row.up)
          /\ Snapshot(c, kind, e, n, "body")
          /\ UNCHANGED faults
       \/ /\ Refuses(kind)
          /\ ~(row.live /\ row.up)
          /\ wr' = [wr EXCEPT ![c] = Idle("done", "put", "refused")]
          /\ UNCHANGED faults
       \/ /\ kind # "put" /\ row.live /\ row.up
          /\ wr' = [wr EXCEPT ![c] = [Idle("capture", "upstream", "none")
                                       EXCEPT !.node = n, !.etag = e]]
          /\ UNCHANGED faults
       \/ /\ Fault
          /\ wr' = [wr EXCEPT ![c] = Idle("done", "put", "error")]
    /\ UNCHANGED <<upstream, row, bodies, evicted, task, rd, backoff>>

(* The body streams under a fresh BodyRef, then its length and digests are    *)
(* compared.  A body the store refused or the checks rejected is left to the  *)
(* deferred DeleteBody.                                                       *)
StageBody(c) ==
    /\ wr[c].pc = "body"
    /\ \/ /\ bodies' = bodies \cup {c} /\ Goto(c, "commit")
          /\ UNCHANGED faults
       \/ Answer(c, "refused") /\ DeleteBody(bodies \cup {c}, c)
    /\ UNCHANGED <<upstream, row, evicted, task, rd, retier, backoff>>

(* A small write over an upstream-tier version starts the clean-up of the     *)
(* upstream copy it displaced.                                                *)
deleteUpstreamObjectAsync(c) ==
    task' = IF wr[c].prior = "up"
              THEN [task EXCEPT ![c] = Task("check", wr[c].old)]
              ELSE task

(* Mutant: an error is taken for a definite failure and the body reclaimed.   *)
CommitErrorReclaims(c) ==
    /\ wr[c].pc = "commit" /\ wr[c].kind \in LocalKinds
    /\ Fault
    /\ row' \in {row, Put(wr[c].tok, LocalRow(wr[c].etag, c, c))}
    /\ Answer(c, "error") /\ bodies' = bodies \ {c}
    /\ UNCHANGED <<upstream, evicted, task, rd, retier, backoff>>

(* Mutant: a refused write is left to the racer and acknowledged.             *)
CommitAcksRefusal(c) ==
    /\ wr[c].pc = "commit" /\ wr[c].kind \in LocalKinds
    /\ row' = Put(wr[c].tok, LocalRow(wr[c].etag, c, c))
    /\ Answer(c, "ok") /\ deleteUpstreamObjectAsync(c)
    /\ UNCHANGED <<upstream, bodies, evicted, rd, retier, backoff, faults>>

(* Mutant: the commit takes a fresh token for a conditional write as well.    *)
CommitRetriesConditional(c) ==
    /\ wr[c].pc = "commit" /\ wr[c].kind \in LocalKinds
    /\ row' = Put(row.ver, LocalRow(wr[c].etag, c, c))
    /\ Answer(c, "ok") /\ deleteUpstreamObjectAsync(c)
    /\ UNCHANGED <<upstream, bodies, evicted, rd, retier, backoff, faults>>

(* The PutMetaIfVersion that makes the write visible.  A refused conditional  *)
(* write answers 412; a refused unconditional write goes for a fresh token,   *)
(* MaxRetries times.  A store error is ambiguous: the write may have been     *)
(* applied, so the staged body stays.                                         *)
Commit(c) ==
    /\ wr[c].pc = "commit" /\ wr[c].kind \in LocalKinds
    /\ LET new == LocalRow(wr[c].etag, c, c) IN
       \/ /\ wr[c].tok = row.ver
          /\ row' = Put(wr[c].tok, new)
          /\ Answer(c, "ok") /\ deleteUpstreamObjectAsync(c)
          /\ UNCHANGED <<bodies, faults>>
       \/ /\ wr[c].tok # row.ver
          /\ IF wr[c].kind = "put" /\ wr[c].tries < MaxRetries
               THEN Goto(c, "token") /\ UNCHANGED <<bodies, faults>>
               ELSE Answer(c, "refused") /\ DeleteBody(bodies, c)
          /\ UNCHANGED <<row, task>>
       \/ /\ Fault
          /\ row' \in {row, Put(wr[c].tok, new)}
          /\ Answer(c, "error")
          /\ UNCHANGED <<bodies, task>>
    /\ UNCHANGED <<upstream, evicted, rd, retier, backoff>>

(* The retry's fresh token; a canceled request or a failed read gives up.     *)
RetryToken(c) ==
    /\ wr[c].pc = "token"
    /\ \/ /\ wr' = [wr EXCEPT ![c].pc = "commit", ![c].tok = row.ver,
                              ![c].tries = @ + 1]
          /\ UNCHANGED <<bodies, faults>>
       \/ Answer(c, "refused") /\ DeleteBody(bodies, c)
    /\ UNCHANGED <<upstream, row, evicted, task, rd, retier, backoff>>

-----------------------------------------------------------------------------
(* PUT into the upstream tier and multipart completion.                       *)

(* Claim and captureMarkerPrior; a failed lookup leaves the prior unknown.    *)
BeginForward(c, kind, e, n) ==
    /\ wr[c].pc = "idle" /\ kind \in (MarkerKinds \cup {"bulk", "copy"}) \cap Kinds
    /\ (e = Gone) = (kind = "bulk")
    /\ claimRetierWrite(n)
    /\ \/ Snapshot(c, kind, e, n, "forward") /\ UNCHANGED faults
       \/ /\ Fault
          /\ wr' = [wr EXCEPT ![c] =
                      [Idle("forward", kind, "none") EXCEPT !.node = n, !.etag = e]]
    /\ UNCHANGED <<upstream, row, bodies, evicted, task, rd, backoff>>

(* The second read of a request that found it must go upstream.               *)
Capture(c) ==
    /\ wr[c].pc = "capture"
    /\ \/ Snapshot(c, wr[c].kind, wr[c].etag, wr[c].node, "forward")
          /\ UNCHANGED faults
       \/ Fault /\ Goto(c, "forward")
    /\ UNCHANGED <<upstream, row, bodies, evicted, task, rd, retier, backoff>>

(* The forwarded PUT or completion: upstream applies it and answers 2xx, with *)
(* or without an ETag; rejects it; or its answer is lost.                     *)
ForwardWrite(c) ==
    /\ wr[c].pc = "forward" /\ wr[c].kind \in MarkerKinds
    /\ \/ /\ upstream' = wr[c].etag
          /\ wr' = [wr EXCEPT ![c].pc = "commit", ![c].hit = TRUE]
          /\ UNCHANGED faults
       \/ /\ Fault /\ upstream' = wr[c].etag
          /\ \/ Answer(c, "error")
             \/ IF wr[c].prior = "absent" THEN Answer(c, "ok")
                ELSE wr' = [wr EXCEPT ![c].pc = "sweep", ![c].etag = Gone,
                                        ![c].hit = TRUE]
       \/ /\ Answer(c, "error") /\ UNCHANGED <<upstream, faults>>
    /\ UNCHANGED <<row, bodies, evicted, task, rd, retier, backoff>>

(* The request returns.  A completion that reported an ETag has its marker    *)
(* upgraded in the background, if the request's credentials validated.        *)
Stamped(c) ==
    /\ Answer(c, "ok")
    /\ \/ UNCHANGED task
       \/ /\ wr[c].kind = "complete" /\ wr[c].etag # Gone
          /\ task' = [task EXCEPT ![c] = Task("head", wr[c].etag)]

(* commitUpstreamMarker under the pre-forward token; a failed or refused      *)
(* commit sweeps the prior it displaced, if there was one.                    *)
CommitMarker(c) ==
    /\ wr[c].pc = "commit" /\ wr[c].kind \in MarkerKinds
    /\ LET new == Marker(wr[c].etag, wr[c].kind = "upstream", c)
           Displaced == IF wr[c].prior = "absent" THEN Stamped(c)
                        ELSE Goto(c, "sweep") /\ UNCHANGED task IN
       \/ /\ row' = Put(wr[c].tok, new)
          /\ IF wr[c].tok = row.ver THEN Stamped(c) ELSE Displaced
          /\ UNCHANGED faults
       \/ /\ wr[c].tok # 0 /\ Fault
          /\ row' \in {row, Put(wr[c].tok, new)} /\ Displaced
    /\ UNCHANGED <<upstream, bodies, evicted, rd, retier, backoff>>

(* invalidateDisplacedTieredMeta.                                             *)
Sweep(c) ==
    /\ wr[c].pc = "sweep"
    /\ \/ row' = Drop(wr[c].tok) /\ UNCHANGED faults
       \/ Fault /\ row' \in {row, Drop(wr[c].tok)}
    /\ Stamped(c)
    /\ UNCHANGED <<upstream, bodies, evicted, rd, retier, backoff>>

-----------------------------------------------------------------------------
(* DELETE, bulk DELETE and COPY.                                              *)

(* HandleDeleteObject: claim, handleTieredDeleteLocal's read; a validated      *)
(* request for a local-tier object is served here, any other is forwarded.    *)
BeginDelete(c, n) ==
    /\ wr[c].pc = "idle" /\ "delete" \in Kinds
    /\ claimRetierWrite(n)
    /\ \/ /\ \E pc \in {"capture"} \cup
                     (IF row.live /\ ~row.up THEN {"local"} ELSE {}) :
               wr' = [wr EXCEPT ![c] =
                        [Idle(pc, "delete", "none") EXCEPT !.node = n]]
          /\ UNCHANGED faults
       \/ /\ Fault /\ wr' = [wr EXCEPT ![c] = Idle("done", "put", "error")]
    /\ UNCHANGED <<upstream, row, bodies, evicted, task, rd, backoff>>

(* HandleOriginlessDelete: the fenced delete of whatever is live.  Its        *)
(* refused attempts change nothing; this is the one that applies.             *)
DeleteLocal(c) ==
    /\ wr[c].pc = "local"
    /\ \/ row' = AbsentRow(row.ver + 1) /\ Answer(c, "ok") /\ UNCHANGED faults
       \/ /\ Fault /\ row' \in {row, AbsentRow(row.ver + 1)} /\ Answer(c, "error")
    /\ UNCHANGED <<upstream, bodies, evicted, task, rd, retier, backoff>>

(* The bulk request's answer lists the entries that failed; a key is left     *)
(* alone only if all the entries requested for it did.                        *)
KeyUnchanged(parsed, requested, errored) == parsed /\ requested <= errored

Displaces(c, hit) == wr' = [wr EXCEPT ![c].pc = "converge", ![c].hit = hit]

Spares(c, hit) ==
    wr' = [wr EXCEPT ![c] = [Idle("done", "put", "ok") EXCEPT !.hit = hit]]

(* What the request leaves upstream, and whether its key is converged.        *)
ForwardDrop(c) ==
    /\ wr[c].pc = "forward" /\ wr[c].kind \in DropKinds
    /\ \/ /\ upstream' = IF wr[c].kind = "copy" THEN wr[c].etag ELSE Gone
          /\ IF wr[c].tok = 0 THEN Answer(c, "ok") ELSE Displaces(c, TRUE)
          /\ UNCHANGED faults
       \/ /\ wr[c].kind = "bulk"
          /\ \E parsed \in BOOLEAN, requested \in 1..2 : \E errored \in 0..requested :
               /\ upstream' = IF errored < requested THEN Gone ELSE upstream
               /\ LET hit == ~parsed \/ errored < requested IN
                  IF KeyUnchanged(parsed, requested, errored) \/ wr[c].tok = 0
                    THEN Spares(c, hit) ELSE Displaces(c, hit)
          /\ UNCHANGED faults
       \/ /\ Answer(c, "error")
          /\ UNCHANGED <<upstream, faults>>
       \/ /\ Fault /\ Answer(c, "error")
          /\ upstream' = IF wr[c].kind = "copy" THEN wr[c].etag ELSE Gone
    /\ UNCHANGED <<row, bodies, evicted, task, rd, retier, backoff>>

(* Mutant: proxy mode's unconditional invalidation.                           *)
ConvergeUnguarded(c) ==
    /\ wr[c].pc \in {"converge", "again"}
    /\ row' = AbsentRow(row.ver + 1) /\ Answer(c, "ok")
    /\ UNCHANGED <<upstream, bodies, evicted, task, rd, retier, backoff, faults>>

(* convergeTieredDelete: remove the state the request displaced, retrying     *)
(* once after an error.  A bulk request past its deadline skips the key.      *)
convergeTieredDelete(c) ==
    /\ wr[c].pc \in {"converge", "again"}
    /\ \/ row' = Drop(wr[c].tok) /\ Answer(c, "ok") /\ UNCHANGED faults
       \/ /\ Fault /\ row' \in {row, Drop(wr[c].tok)}
          /\ IF wr[c].pc = "converge" THEN Goto(c, "again") ELSE Answer(c, "ok")
       \/ /\ Fault /\ wr[c].pc = "converge" /\ wr[c].kind = "bulk"
          /\ UNCHANGED row /\ Answer(c, "ok")
    /\ UNCHANGED <<upstream, bodies, evicted, task, rd, retier, backoff>>

-----------------------------------------------------------------------------
(* The tasks behind a mutating request.                                       *)

EndTask(c) == task' = [task EXCEPT ![c] = NoTask]

MarkerFor(e) == row.live /\ row.up /\ row.etag = e

(* deleteUpstreamObjectAsync: skip an ETag the key advertises again; a failed *)
(* pre-check goes on.                                                         *)
CleanupCheck(c) ==
    /\ task[c].pc = "check"
    /\ \/ /\ IF MarkerFor(task[c].etag) THEN EndTask(c)
             ELSE task' = [task EXCEPT ![c].pc = "drop"]
          /\ UNCHANGED faults
       \/ Fault /\ task' = [task EXCEPT ![c].pc = "drop"]
    /\ UNCHANGED <<upstream, row, bodies, evicted, wr, rd, retier, backoff>>

(* The conditional DELETE; its failure, whether or not it was applied, ends   *)
(* the clean-up.                                                              *)
CleanupDelete(c) ==
    /\ task[c].pc = "drop"
    /\ LET hit == upstream = task[c].etag IN
       \/ /\ upstream' = IF hit THEN Gone ELSE upstream
          /\ IF hit THEN task' = [task EXCEPT ![c].pc = "reread"] ELSE EndTask(c)
          /\ UNCHANGED faults
       \/ /\ Fault /\ EndTask(c)
          /\ upstream' \in {upstream, IF hit THEN Gone ELSE upstream}
    /\ UNCHANGED <<row, bodies, evicted, wr, rd, retier, backoff>>

(* The repair looks at the key again, and removes the marker it found there.  *)
CleanupReread(c) ==
    /\ task[c].pc = "reread"
    /\ \/ /\ IF MarkerFor(task[c].etag)
               THEN task' = [task EXCEPT ![c].pc = "repair", ![c].tok = row.ver,
                                        ![c].by = row.by]
               ELSE EndTask(c)
          /\ UNCHANGED faults
       \/ Fault /\ EndTask(c)
    /\ UNCHANGED <<upstream, row, bodies, evicted, wr, rd, retier, backoff>>

CleanupRepair(c) ==
    /\ task[c].pc = "repair"
    /\ \/ row' = Drop(task[c].tok) /\ UNCHANGED faults
       \/ Fault /\ row' \in {row, Drop(task[c].tok)}
    /\ EndTask(c)
    /\ UNCHANGED <<upstream, bodies, evicted, wr, rd, retier, backoff>>

(* headObjectMeta: only for exactly the completed ETag.                       *)
UpgradeHead(c) ==
    /\ task[c].pc = "head"
    /\ \/ /\ IF upstream = task[c].etag
               THEN task' = [task EXCEPT ![c].pc = "observe"] ELSE EndTask(c)
          /\ UNCHANGED faults
       \/ Fault /\ EndTask(c)
    /\ UNCHANGED <<upstream, row, bodies, evicted, wr, rd, retier, backoff>>

UpgradeObserve(c) ==
    /\ task[c].pc = "observe"
    /\ \/ /\ IF MarkerFor(task[c].etag) /\ ~row.known
               THEN task' = [task EXCEPT ![c].pc = "upgrade", ![c].tok = row.ver,
                                        ![c].by = row.by]
               ELSE EndTask(c)
          /\ UNCHANGED faults
       \/ Fault /\ EndTask(c)
    /\ UNCHANGED <<upstream, row, bodies, evicted, wr, rd, retier, backoff>>

(* The marker of the completion, now with its length, under the version       *)
(* observed.                                                                  *)
UpgradeCommit(c) ==
    /\ task[c].pc = "upgrade"
    /\ LET new == Put(task[c].tok, Marker(task[c].etag, TRUE, task[c].by)) IN
       \/ row' = new /\ UNCHANGED faults
       \/ Fault /\ row' \in {row, new}
    /\ EndTask(c)
    /\ UNCHANGED <<upstream, bodies, evicted, wr, rd, retier, backoff>>

-----------------------------------------------------------------------------
(* GET and HEAD: handleTieredObject, serveOriginlessObject.                   *)

Reply(r, answer) == rd' = [rd EXCEPT ![r] = NoRead("done", rd[r].op, answer)]

EndRetier(r) == retier' = [retier EXCEPT ![r] = NoRetier]

(* One metadata read routes the request.  A GET of a marker is forwarded, and *)
(* a small marker may be healed behind it; a HEAD is answered from the marker. *)
handleTieredObject(r, op, n) ==
    /\ rd[r].pc = "idle"
    /\ \/ /\ row.live /\ row.up
          /\ rd' = [rd EXCEPT ![r] = NoRead("done", op, "hit")]
          /\ \/ UNCHANGED retier
             \/ /\ op = "GET" /\ row.known /\ row.etag \in SmallETags
                /\ retier' = [retier EXCEPT ![r] =
                     [NoRetier EXCEPT !.pc = "trigger", !.node = n, !.tok = row.ver,
                                      !.etag = row.etag, !.by = row.by]]
          /\ UNCHANGED faults
       \/ /\ ~(row.live /\ row.up)
          /\ rd' = [rd EXCEPT ![r] =
                IF row.live THEN [pc |-> "probe", op |-> op, ref |-> row.ref,
                                  tok |-> row.ver, answer |-> "none"]
                ELSE NoRead("done", op, "miss")]
          /\ UNCHANGED <<retier, faults>>
       \/ /\ Fault /\ rd' = [rd EXCEPT ![r] = NoRead("done", op, "error")]
          /\ UNCHANGED retier
    /\ UNCHANGED <<upstream, row, bodies, evicted, wr, task, backoff>>

(* Mutant: the gate reads the key again instead of using the routed row.      *)
ProbeRereads(r) ==
    /\ rd[r].pc = "probe"
    /\ Reply(r, IF row.live /\ ~row.up /\ row.ref \in bodies THEN "hit" ELSE "miss")
    /\ UNCHANGED <<upstream, row, bodies, evicted, wr, task, retier, backoff, faults>>

(* The existence gate: the body of the row the request read.                  *)
entryServable(r) ==
    /\ rd[r].pc = "probe"
    /\ \/ /\ IF rd[r].ref \notin bodies THEN Reply(r, "miss")
             ELSE IF rd[r].op = "HEAD" THEN Reply(r, "hit")
             ELSE rd' = [rd EXCEPT ![r].pc = "serve"]
          /\ UNCHANGED faults
       \/ Fault /\ Reply(r, "error")
    /\ UNCHANGED <<upstream, row, bodies, evicted, wr, task, retier, backoff>>

serveFromCache(r) ==
    /\ rd[r].pc = "serve"
    /\ \/ /\ IF rd[r].ref \in bodies THEN Reply(r, "hit")
             ELSE rd' = [rd EXCEPT ![r].pc = "orphan"]
          /\ UNCHANGED faults
       \/ Fault /\ Reply(r, "error")
    /\ UNCHANGED <<upstream, row, bodies, evicted, wr, task, retier, backoff>>

(* The body is gone under the row that was read: remove that row, and miss.   *)
finishServeBodyError(r) ==
    /\ rd[r].pc = "orphan"
    /\ \/ row' = Drop(rd[r].tok) /\ UNCHANGED faults
       \/ Fault /\ row' \in {row, Drop(rd[r].tok)}
    /\ Reply(r, "miss")
    /\ UNCHANGED <<upstream, bodies, evicted, wr, task, retier, backoff>>

-----------------------------------------------------------------------------
(* The re-tier worker.  A canceled context may end it at any call it makes;   *)
(* the check before its commit is sure to see it.                             *)

RetierStep(r, pc) == retier' = [retier EXCEPT ![r].pc = pc]

RetierFails(r) == Fault \/ (retier[r].canceled /\ UNCHANGED faults)

(* maybeRetierOnRead registers the marker its GET read: not after a recent    *)
(* mismatch, under a claim or beside another re-tier here.  Credentials, disk *)
(* budget, admission and the populate slot may refuse as well.                *)
maybeRetierOnRead(r) ==
    /\ retier[r].pc = "trigger"
    /\ \/ /\ <<retier[r].node, retier[r].etag>> \notin backoff
          /\ tryRegisterRetier(retier[r].node)
          /\ RetierStep(r, "verify")
       \/ EndRetier(r)
    /\ UNCHANGED <<upstream, row, bodies, evicted, wr, task, rd, backoff, faults>>

(* The marker the GET read must still be current before any upstream work.    *)
RetierVerify(r) ==
    /\ retier[r].pc = "verify"
    /\ \/ /\ IF row.ver = retier[r].tok /\ MarkerFor(retier[r].etag)
               THEN RetierStep(r, "fetch") ELSE EndRetier(r)
          /\ UNCHANGED faults
       \/ RetierFails(r) /\ EndRetier(r)
    /\ UNCHANGED <<upstream, row, bodies, evicted, wr, task, rd, backoff>>

(* Mutant: the mismatch is remembered under the ETag of the answer.           *)
FetchRemembersAnswer(r) ==
    /\ retier[r].pc = "fetch"
    /\ IF upstream = retier[r].etag
         THEN RetierStep(r, "body") /\ UNCHANGED backoff
         ELSE /\ EndRetier(r)
              /\ backoff' = backoff \cup {<<retier[r].node, upstream>>}
    /\ UNCHANGED <<upstream, row, bodies, evicted, wr, task, rd, faults>>

(* The fetch finds the marker's object, another one, or none; the latter two  *)
(* are remembered.                                                            *)
RetierFetch(r) ==
    /\ retier[r].pc = "fetch"
    /\ \/ /\ IF upstream = retier[r].etag
               THEN RetierStep(r, "body") /\ UNCHANGED backoff
               ELSE /\ retier' = [retier EXCEPT ![r].fresh = upstream,
                         ![r].pc = IF upstream = Gone THEN "vanished" ELSE "replaced"]
                    /\ backoff' = backoff \cup {<<retier[r].node, retier[r].etag>>}
          /\ UNCHANGED faults
       \/ RetierFails(r) /\ EndRetier(r) /\ UNCHANGED backoff
    /\ UNCHANGED <<upstream, row, bodies, evicted, wr, task, rd>>

(* The marker is wrong: rewrite it from the answer, or remove it.  The length *)
(* of an answer without Content-Length is known if its body could be drained. *)
RetierConverge(r) ==
    /\ retier[r].pc \in {"vanished", "replaced"}
    /\ \E known \in BOOLEAN :
       LET new == IF retier[r].pc = "vanished" THEN Drop(retier[r].tok)
                  ELSE Put(retier[r].tok, Marker(retier[r].fresh, known, retier[r].by)) IN
       \/ row' = new /\ UNCHANGED faults
       \/ RetierFails(r) /\ row' \in {row, new}
    /\ EndRetier(r)
    /\ UNCHANGED <<upstream, bodies, evicted, wr, task, rd, backoff>>

(* The body streams under a fresh BodyRef; a failed stream, or a length that  *)
(* contradicts the marker, discards it.                                       *)
RetierBody(r) ==
    /\ retier[r].pc = "body"
    /\ \/ /\ bodies' = bodies \cup {r} /\ RetierStep(r, "guard")
          /\ UNCHANGED <<backoff, faults>>
       \/ /\ EndRetier(r) /\ DeleteBody(bodies \cup {r}, r)
          /\ backoff' \in {backoff, backoff \cup {<<retier[r].node, retier[r].etag>>}}
    /\ UNCHANGED <<upstream, row, evicted, wr, task, rd>>

RetierGuard(r) ==
    /\ retier[r].pc = "guard"
    /\ \/ /\ MarkerFor(retier[r].etag) /\ ~retier[r].canceled
          /\ RetierStep(r, "commit") /\ UNCHANGED <<bodies, faults>>
       \/ /\ ~MarkerFor(retier[r].etag) \/ retier[r].canceled
          /\ EndRetier(r) /\ DeleteBody(bodies, r)
       \/ /\ Fault /\ EndRetier(r) /\ bodies' = bodies \ {r}
    /\ UNCHANGED <<upstream, row, evicted, wr, task, rd, backoff>>

(* Mutant: the commit takes the version current at its own time.              *)
RetierCommitUnbound(r) ==
    /\ retier[r].pc = "commit"
    /\ row' = Put(row.ver, LocalRow(retier[r].etag, r, retier[r].by))
    /\ EndRetier(r)
    /\ UNCHANGED <<upstream, bodies, evicted, wr, task, rd, backoff, faults>>

(* The commit is bound to the version the GET read.  Refused, the body is     *)
(* discarded; after an error it is kept.                                      *)
RetierCommit(r) ==
    /\ retier[r].pc = "commit"
    /\ LET new == Put(retier[r].tok, LocalRow(retier[r].etag, r, retier[r].by)) IN
       \/ /\ row' = new
          /\ IF retier[r].tok = row.ver THEN UNCHANGED <<bodies, faults>>
             ELSE DeleteBody(bodies, r)
       \/ RetierFails(r) /\ row' \in {row, new} /\ UNCHANGED bodies
    /\ EndRetier(r)
    /\ UNCHANGED <<upstream, evicted, wr, task, rd, backoff>>

-----------------------------------------------------------------------------
ClientNext(c) ==
    \/ StageBody(c) \/ Commit(c) \/ RetryToken(c) \/ Capture(c)
    \/ ForwardWrite(c) \/ CommitMarker(c) \/ Sweep(c)
    \/ DeleteLocal(c) \/ ForwardDrop(c) \/ convergeTieredDelete(c)

TaskNext(c) ==
    \/ CleanupCheck(c) \/ CleanupDelete(c) \/ CleanupReread(c)
    \/ CleanupRepair(c) \/ UpgradeHead(c) \/ UpgradeObserve(c)
    \/ UpgradeCommit(c)

RetierNext(r) ==
    \/ maybeRetierOnRead(r) \/ RetierVerify(r) \/ RetierFetch(r)
    \/ RetierConverge(r) \/ RetierBody(r) \/ RetierGuard(r) \/ RetierCommit(r)

ReaderNext(r) == entryServable(r) \/ serveFromCache(r) \/ finishServeBodyError(r)

Quiet ==
    /\ \A c \in Clients : wr[c].pc \in {"idle", "done"} /\ task[c].pc = "none"
    /\ \A r \in Readers : rd[r].pc \in {"idle", "done"} /\ retier[r].pc = "none"

Step ==
    \/ \E c \in Clients, n \in Nodes :
          \/ \E e \in Contents, kind \in Kinds :
                BeginLocal(c, kind, e, n) \/ BeginForward(c, kind, e, n)
          \/ BeginDelete(c, n)
    \/ \E r \in Readers, op \in {"GET", "HEAD"}, n \in Nodes :
          handleTieredObject(r, op, n)
    \/ \E c \in Clients : ClientNext(c) \/ TaskNext(c)
    \/ \E r \in Readers : ReaderNext(r) \/ RetierNext(r)
    \/ ExpireMeta
    \/ \E ref \in Refs : EvictBody(ref)
    \/ Quiet /\ UNCHANGED <<upstream, row, bodies, evicted, wr, task, rd, retier,
                            backoff, faults>>

(* A request or a re-tier that has its body staged, or is staging it.         *)
InUse(ref) ==
    \/ ref \in Clients /\ wr[ref].pc \in {"body", "commit", "token"}
         /\ wr[ref].kind \in LocalKinds
    \/ ref \in Readers /\ retier[ref].pc \in {"body", "guard", "commit"}

(* The call that ended it failed: DeleteBody, or a commit whose outcome is    *)
(* then unknown.  A canceled re-tier's commit fails without a fault.          *)
LeftBehind(ref) ==
    /\ InUse(ref) /\ ~InUse(ref)'
    /\ \/ faults' # faults
       \/ ref \in Readers /\ retier[ref].pc = "commit" /\ retier[ref].canceled

(* The history variables follow every step.  gap: a read in progress has seen *)
(* a moment at which the object was not servable, or the body of the row it   *)
(* read was evicted under it.  kept: a row names the body, or a failed call   *)
(* has left it behind.                                                        *)
Watch ==
    /\ gap' = gap \cup {r \in Readers :
                  /\ rd'[r].pc # "idle" /\ rd[r].pc # "done"
                  /\ \/ ~Servable \/ ~Servable'
                     \/ rd[r].pc # "idle" /\ rd[r].ref \in evicted}
    /\ kept' = kept \cup {ref \in bodies' :
                  \/ row'.live /\ ~row'.up /\ row'.ref = ref
                  \/ LeftBehind(ref)}

Next == Step /\ Watch

Spec == Init /\ [][Next]_vars

-----------------------------------------------------------------------------
(* The local tier's entry is the only copy of its object.  While its body is  *)
(* there it gives way to its expiry, to a client's local write or DELETE, or  *)
(* to a forwarded request that began when this very object was the key's      *)
(* state and that upstream applied, as far as its answer tells: never to a    *)
(* background task, to the clean-up of a request an acknowledged write has    *)
(* overtaken, or to a bulk delete whose entries for the key all failed.       *)
LocalCopySurvives ==
    [][row.live /\ ~row.up /\ row.ref \in bodies /\ row' # row =>
         \/ row' = Expired
         \/ \E c \in Clients :
               /\ wr'[c] # wr[c]
               /\ \/ wr[c].kind \in LocalKinds \/ wr[c].pc = "local"
                  \/ wr[c].seen = row.by /\ wr[c].hit]_vars

(* A re-tier, clean-up, upgrade or read changes only a marker, or removes a   *)
(* row whose body is gone.  What it leaves speaks for the same write: the     *)
(* marker again, or its content in the local tier.  An acknowledged overwrite *)
(* is never reverted, and a deleted object never brought back; only a marker  *)
(* that expired under the task may come back.                                 *)
BackgroundHealsMarkers ==
    [][wr' = wr /\ row' # row =>
         \/ row' = Expired
         \/ ~row'.live /\ ~Servable
         \/ row.up /\ (row'.live => /\ row'.by = row.by
                                    /\ row'.up \/ row'.etag = row.etag)]_vars

(* A body is deleted by its writer only when no row can name it: not after an *)
(* ambiguous commit, which may have been applied.  Conversely every body in   *)
(* the store is that of a write or re-tier still under way, was named by a    *)
(* row, or was left behind by a DeleteBody or a commit that failed: no        *)
(* refused, rejected or abandoned write forgets its own.                      *)
BodiesReclaimed ==
    /\ row.live /\ ~row.up => row.ref \in bodies \cup evicted
    /\ \A ref \in bodies : InUse(ref) \/ ref \in kept

(* The engine PUT's 200 means that the entry is visible, whatever re-tier or  *)
(* request it raced.  The 200 of a forwarded request that upstream applied    *)
(* means that the version it displaced is no longer served, if the request    *)
(* could read it and its last call to the store did not fail.                 *)
AckedIsVisible ==
    [][\A c \in Clients : wr[c].answer # "ok" /\ wr'[c].answer = "ok" =>
         /\ wr[c].kind \in LocalKinds =>
              row'.live /\ row'.ref = c /\ c \in bodies' \cup evicted'
         /\ /\ wr[c].kind \notin LocalKinds /\ wr[c].pc # "local"
            /\ wr[c].tok # 0 /\ (wr[c].hit \/ wr'[c].hit) /\ faults' = faults
            => ~(row'.live /\ row'.ver = wr[c].tok)]_vars

(* A conditional PUT is stored over the state its precondition was evaluated  *)
(* on: nothing servable for If-None-Match, the matched version (or its        *)
(* expiry) for If-Match.  No update is lost.                                  *)
ConditionalIsAtomic ==
    [][\A c \in Clients :
         wr[c].pc = "commit" /\ wr'[c] # wr[c] /\ row' # row =>
           /\ wr[c].kind = "ifnone" => ~Servable
           /\ wr[c].kind = "ifmatch" /\ row.live =>
                row.by = wr[c].seen /\ row.etag = wr[c].old]_vars

(* An authoritative miss is answered only if the object was not servable at   *)
(* some moment of the request, or the store evicted the body it was about to  *)
(* serve: a write that overtakes the read is no reason for a miss.            *)
MissIsTrue ==
    \A r \in Readers : rd[r].pc = "done" /\ rd[r].answer = "miss" => r \in gap
=============================================================================
