------------------------ MODULE LegacyCoordination ------------------------
(* The life of one object's metadata key under the legacy coordinator         *)
(* (cache/coordinator.go, legacyCoordinator), the default: wall-clock stamps  *)
(* as tokens, a timestamp tombstone written before every delete and read      *)
(* before every commit, plain Put and Delete on the key.                      *)
EXTENDS Integers

CONSTANTS
    Requests,       \* populates and repairs
    Writers,        \* mutating requests
    FetchMax,       \* longest upstream fetch of a populate
    WriteMax,       \* longest streaming write of a populate
    Margin,         \* what the tombstone's TTL adds to the two
    Skew,           \* how far a node's clock may lag real time
    Faults,         \* TRUE: store calls may fail
    MaxNow          \* bound on time

ASSUME LegacyAssumption ==
    /\ FetchMax \in Nat /\ WriteMax \in Nat /\ Margin \in Nat \ {0}
    /\ Skew \in Nat /\ MaxNow \in Nat /\ Faults \in BOOLEAN

VARIABLES
    now,            \* real time
    upstream,       \* number of the object's state at upstream
    meta,           \* [live, n]: the metadata key
    tomb,           \* [ts, until]: the tombstone's stamp and its expiry
    pop,            \* the populates and repairs
    wr,             \* the mutating requests
    settled,        \* newest upstream state whose invalidation succeeded
    newest          \* the latest stamp a tombstone was ever put with

vars == <<now, upstream, meta, tomb, pop, wr, settled, newest>>

PopSteps == {"idle", "fetch", "gate", "put", "compare", "bury", "tomb", "delete",
             "done"}

WriterSteps == {"idle", "preTomb", "preDelete", "forward", "bury", "tomb",
                "delete", "done"}

(* stamp is a populate's token, or what a repair stamps its tombstone with.   *)
PopRecords == [pc: PopSteps, stamp: Nat, n: Nat, by: Nat]

WriterRecords == [pc: WriterSteps, stamp: Nat, n: Nat, err: BOOLEAN,
                  retried: BOOLEAN]

(* Type invariant of the store, the clock, the populates and the writers.  No *)
(* stamp is ahead of the clock it was read from, so no tombstone refuses a    *)
(* populate that starts after it was written.                                 *)
TypeOK ==
    /\ now \in Nat /\ now > Skew /\ upstream \in Nat /\ settled \in Nat
    /\ newest \in Nat
    /\ meta \in [live: BOOLEAN, n: Nat]
    /\ tomb \in [ts: Nat, until: Nat] /\ tomb.ts <= now
    /\ pop \in [Requests -> PopRecords] /\ \A r \in Requests: pop[r].stamp <= now
    /\ wr \in [Writers -> WriterRecords] /\ \A w \in Writers: wr[w].stamp <= now

NoTask(pc) == [pc |-> pc, stamp |-> 0, n |-> 0, by |-> 0]

NoWrite(pc) == [pc |-> pc, stamp |-> 0, n |-> 0, err |-> FALSE, retried |-> FALSE]

Absent == [live |-> FALSE, n |-> 0]

(* No tombstone reads as timestamp 0, which no stamp is.                      *)
Init ==
    /\ now = Skew + 1 /\ upstream = 0 /\ settled = 0 /\ newest = 0
    /\ meta = Absent
    /\ tomb = [ts |-> 0, until |-> 0]
    /\ pop = [r \in Requests |-> NoTask("idle")]
    /\ wr = [w \in Writers |-> NoWrite("idle")]

(* time.Now() on whichever node runs the request.                             *)
Clock == (now - Skew)..now

Goto(r, pc) ==
    pop' = [pop EXCEPT ![r] = IF pc = "done" THEN NoTask("done")
                              ELSE [pop[r] EXCEPT !.pc = pc]]

Tick ==
    /\ now < MaxNow
    /\ now' = now + 1
    /\ UNCHANGED <<upstream, meta, tomb, pop, wr, settled, newest>>

ExpireMeta ==
    /\ meta.live
    /\ meta' = Absent
    /\ UNCHANGED <<now, upstream, tomb, pop, wr, settled, newest>>

-----------------------------------------------------------------------------
(* A populate.  Its contexts end it FetchMax + WriteMax after the decision.   *)

GetMetaWithVersion(r) ==
    /\ pop[r].pc = "idle"
    /\ \E stamp \in Clock:
         pop' = [pop EXCEPT ![r] = [pc |-> "fetch", stamp |-> stamp, n |-> 0,
                                    by |-> now + FetchMax + WriteMax]]
    /\ UNCHANGED <<now, upstream, meta, tomb, wr, settled, newest>>

Fetch(r) ==
    /\ pop[r].pc = "fetch" /\ now <= pop[r].by
    /\ pop' = [pop EXCEPT ![r].pc = "gate", ![r].n = upstream]
    /\ UNCHANGED <<now, upstream, meta, tomb, wr, settled, newest>>

TombstoneTimestamp == IF now < tomb.until THEN tomb.ts ELSE 0

TombstoneGateStrict(r) ==
    /\ pop[r].pc = "gate" /\ now <= pop[r].by
    /\ Goto(r, IF TombstoneTimestamp > pop[r].stamp THEN "done" ELSE "put")
    /\ UNCHANGED <<now, upstream, meta, tomb, wr, settled, newest>>

(* A tombstone at or after the stamp refuses the commit.                      *)
TombstoneGate(r) ==
    /\ pop[r].pc = "gate" /\ now <= pop[r].by
    /\ Goto(r, IF TombstoneTimestamp >= pop[r].stamp THEN "done" ELSE "put")
    /\ UNCHANGED <<now, upstream, meta, tomb, wr, settled, newest>>

(* The plain Put, a store call of its own after the gate.                     *)
PutMeta(r) ==
    /\ pop[r].pc = "put"
    /\ meta' = [live |-> TRUE, n |-> pop[r].n]
    /\ Goto(r, "done")
    /\ UNCHANGED <<now, upstream, tomb, wr, settled, newest>>

(* A failed fetch, an unreadable tombstone, a failed Put, a deadline.         *)
Abandon(r) ==
    /\ pop[r].pc \notin {"idle", "done"}
    /\ Goto(r, "done")
    /\ UNCHANGED <<now, upstream, meta, tomb, wr, settled, newest>>

-----------------------------------------------------------------------------
(* Invalidation: the tombstone first, then the plain delete.                  *)

(* The Put of writeTombstone, a store call that lands some time after ts was  *)
(* read from the clock.  It is unconditional: it may displace a tombstone     *)
(* with a later stamp.                                                        *)
WriteTombstone(ts) ==
    /\ tomb' = [ts |-> ts, until |-> now + FetchMax + WriteMax + Margin]
    /\ newest' = IF ts > newest THEN ts ELSE newest

(* A Put that reports an error may have been applied.                         *)
TombstonePut(ts, fails) ==
    \/ WriteTombstone(ts)
    \/ fails /\ UNCHANGED <<tomb, newest>>

(* A reader holds metadata that upstream or the store shows to be stale.      *)
RepairStart(r) ==
    /\ pop[r].pc = "idle" /\ meta.live
    /\ pop' = [pop EXCEPT ![r].pc = "compare", ![r].n = meta.n]
    /\ UNCHANGED <<now, upstream, meta, tomb, wr, settled, newest>>

(* Compare, then deleteMeta whatever has come in between.                     *)
DeleteMetaIfETag(r) ==
    /\ pop[r].pc = "compare"
    /\ Goto(r, IF meta.live /\ meta.n = pop[r].n THEN "bury" ELSE "done")
    /\ UNCHANGED <<now, upstream, meta, tomb, wr, settled, newest>>

RepairStamp(r) ==
    /\ pop[r].pc = "bury"
    /\ \E ts \in Clock: pop' = [pop EXCEPT ![r].pc = "tomb", ![r].stamp = ts]
    /\ UNCHANGED <<now, upstream, meta, tomb, wr, settled, newest>>

RepairTombstone(r) ==
    /\ pop[r].pc = "tomb"
    /\ TombstonePut(pop[r].stamp, Faults)
    /\ Goto(r, "delete")
    /\ UNCHANGED <<now, upstream, meta, wr, settled>>

RepairDelete(r) ==
    /\ pop[r].pc = "delete"
    /\ meta' = Absent \/ (Faults /\ UNCHANGED meta)
    /\ Goto(r, "done")
    /\ UNCHANGED <<now, upstream, tomb, wr, settled, newest>>

RequestNext(r) ==
    \/ GetMetaWithVersion(r) \/ Fetch(r) \/ TombstoneGate(r) \/ PutMeta(r)
    \/ Abandon(r)
    \/ RepairStart(r) \/ DeleteMetaIfETag(r) \/ RepairStamp(r)
    \/ RepairTombstone(r) \/ RepairDelete(r)

-----------------------------------------------------------------------------
(* The mutating handlers: invalidate, forward, invalidate again on a 2xx.     *)

PreForwardInvalidate(w) ==
    /\ wr[w].pc = "idle"
    /\ \E ts \in Clock: wr' = [wr EXCEPT ![w].pc = "preTomb", ![w].stamp = ts]
    /\ UNCHANGED <<now, upstream, meta, tomb, pop, settled, newest>>

(* Mutant: the tombstone carries the time it expires, not the time it is from. *)
StampedWithExpiry(w) ==
    /\ wr[w].pc = "bury"
    /\ wr' = [wr EXCEPT ![w].pc = "tomb",
                        ![w].stamp = now + FetchMax + WriteMax + Margin]
    /\ UNCHANGED <<now, upstream, meta, tomb, pop, settled, newest>>

TombstoneStamp(w) ==
    /\ wr[w].pc = "bury"
    /\ \E ts \in Clock: wr' = [wr EXCEPT ![w].pc = "tomb", ![w].stamp = ts]
    /\ UNCHANGED <<now, upstream, meta, tomb, pop, settled, newest>>

DeleteMetaTombstone(w) ==
    /\ wr[w].pc \in {"preTomb", "tomb"}
    /\ \E fails \in {FALSE, Faults}:
         /\ TombstonePut(wr[w].stamp, fails)
         /\ wr' = [wr EXCEPT ![w].err = fails, ![w].stamp = 0,
                             ![w].pc = IF wr[w].pc = "tomb" THEN "delete"
                                       ELSE "preDelete"]
    /\ UNCHANGED <<now, upstream, meta, pop, settled>>

(* The pre-forward result is ignored; a converging deleteMeta that failed in  *)
(* either step is retried once.                                               *)
DeleteMetaDelete(w) ==
    /\ wr[w].pc \in {"preDelete", "delete"}
    /\ \E fails \in {FALSE, Faults}:
         LET err == wr[w].err \/ fails
             last == wr[w].pc = "delete"
         IN  /\ meta' = Absent \/ (fails /\ UNCHANGED meta)
             /\ wr' = [wr EXCEPT ![w] =
                         IF ~last THEN NoWrite("forward")
                         ELSE IF err /\ ~wr[w].retried
                           THEN [wr[w] EXCEPT !.pc = "bury", !.retried = TRUE]
                         ELSE NoWrite("done")]
             /\ settled' = IF last /\ ~err /\ wr[w].n > settled THEN wr[w].n
                           ELSE settled
    /\ UNCHANGED <<now, upstream, tomb, pop, newest>>

ForwardApplied(w) ==
    /\ wr[w].pc = "forward"
    /\ upstream' = upstream + 1
    /\ wr' = [wr EXCEPT ![w].pc = "bury", ![w].n = upstream + 1]
    /\ UNCHANGED <<now, meta, tomb, pop, settled, newest>>

ForwardRejected(w) ==
    /\ wr[w].pc = "forward"
    /\ wr' = [wr EXCEPT ![w] = NoWrite("done")]
    /\ UNCHANGED <<now, upstream, meta, tomb, pop, settled, newest>>

WriterNext(w) ==
    \/ PreForwardInvalidate(w) \/ TombstoneStamp(w) \/ DeleteMetaTombstone(w)
    \/ DeleteMetaDelete(w) \/ ForwardApplied(w) \/ ForwardRejected(w)

Quiescent ==
    /\ \A r \in Requests: pop[r].pc \in {"idle", "done"}
    /\ \A w \in Writers: wr[w].pc \in {"idle", "done"}
    /\ UNCHANGED vars

Next ==
    \/ Tick \/ ExpireMeta
    \/ \E r \in Requests: RequestNext(r)
    \/ \E w \in Writers: WriterNext(w)
    \/ Quiescent

Spec == Init /\ [][Next]_vars

-----------------------------------------------------------------------------
(* Properties                                                                 *)

(* A populate that passes the tombstone gate (putMeta) holds nothing older    *)
(* than the mutations settled by then, however long it took, unless the last  *)
(* tombstone to land was stamped before one that landed earlier.  Short of    *)
(* that, the tombstone outlives every populate it has to stop                 *)
(* (TombstoneTTLSeconds), a stamp equal to the tombstone's is refused, and    *)
(* neither the failures nor the retry of an invalidation opens the gate.      *)
GateBlocksStale ==
    [][\A r \in Requests:
         pop[r].pc = "gate" /\ pop'[r].pc = "put"
           => pop[r].n >= settled \/ tomb.ts < newest]_vars
===========================================================================
