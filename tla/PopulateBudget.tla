---------------------------- MODULE PopulateBudget ----------------------------
(***************************************************************************)
(* Admission of cache populates (proxy/service.go: byteBudget, the count     *)
(* semaphore cacheSemaphore and the engine's own enginePutSlots) as used by  *)
(* the paths of proxy/caching.go, block_cache.go and localstore.go.          *)
(*                                                                         *)
(* Misses are read-triggered populates: they take a count slot, then bytes,  *)
(* and never wait.  Puts are local-store PUTs: the same with slots of their  *)
(* own.  Warms are warm-on-write populates: they wait for bytes on the       *)
(* condition variable, then for a count slot, both under one deadline.       *)
(* Stagers are block serves that borrow a staging buffer.  Byte counts are   *)
(* in units of the smallest reservation.                                     *)
(***************************************************************************)
EXTENDS Integers, FiniteSets, Sequences

CONSTANTS
    Misses, Warms, Puts, Stagers,
    Total,           \* max_populate_memory_bytes
    ReservePercent,  \* warm_on_write_reserved_fraction
    WriterWeight,    \* backgroundPopulateWeight, what a warm reserves first
    BlockSizes,      \* configured block_size: the scratch of a block-mode populate
    Weights,         \* what a miss, a PUT or a staging buffer may reserve
    MaxWrites,       \* max_concurrent_writes: count slots of each pool
    Deadlines        \* whether warmPopulateAcquireTimeout may pass

Tasks == Misses \cup Warms \cup Puts \cup Stagers
Pool(x) == IF x \in Puts THEN "engine" ELSE "cache"

ASSUME BudgetAssumption ==
    /\ IsFiniteSet(Tasks)
    /\ Misses \cap (Warms \cup Puts \cup Stagers) = {}
    /\ Warms \cap (Puts \cup Stagers) = {} /\ Puts \cap Stagers = {}
    /\ Total \in Nat \ {0} /\ MaxWrites \in Nat \ {0}
    /\ ReservePercent \in 0..100
    /\ WriterWeight \in 1..Total /\ BlockSizes \subseteq Nat \ {0}
    /\ Weights \subseteq 1..Total
    /\ Deadlines \in BOOLEAN

VARIABLES
    budget,   \* byteBudget: remaining, pendingWarm, stagingInUse; and block_size
    sem,      \* slots taken in each pool
    waiting,  \* warms blocked on the send to cacheSemaphore, in order
    task      \* each operation

vars == <<budget, sem, waiting, task>>

\* Fixed when the service is built.
BlockSize == budget.blockSize

\* newByteBudget: the share held back for warms covers at least one block-mode
\* warm; NewService lets staging use half of the budget.
ReserveCap ==
    LET share == (Total * ReservePercent) \div 100
        floor == IF ReservePercent > 0 /\ share < WriterWeight + BlockSize
                 THEN WriterWeight + BlockSize ELSE share
    IN  IF floor > Total THEN Total ELSE floor

StagingCap == Total \div 2

Idle == [pc |-> "idle", w |-> 0, bytes |-> 0, slot |-> FALSE,
         expired |-> FALSE, again |-> FALSE]

Set(x, r) == task' = [task EXCEPT ![x] = r]

\* What pending warms are owed before anyone else may take bytes.
OwedToWarms == IF budget.pendingWarm > ReserveCap THEN ReserveCap ELSE budget.pendingWarm

FitsReadMissGreedy(n) == budget.remaining - n >= 0

FitsReadMissIfOwed(n) == OwedToWarms > 0 => budget.remaining - n >= OwedToWarms

\* tryAcquireReadMiss.
FitsReadMiss(n) == budget.remaining - n >= OwedToWarms

Take(n) == budget' = [budget EXCEPT !.remaining = @ - n]

\* cond.Broadcast: every parked warm re-checks the budget.
Woken(f) ==
    [x \in Tasks |-> IF f[x].pc = "parked" THEN [f[x] EXCEPT !.pc = "woken"] ELSE f[x]]

(***************************************************************************)
(* Slots.  A receive from a full channel hands the place to the sender that  *)
(* has waited longest.                                                       *)
(***************************************************************************)
\* The slot held by x is given back; f is the rest of the step's effect.
GiveSlot(x, f) ==
    IF Pool(x) = "cache" /\ waiting # <<>>
    THEN /\ waiting' = Tail(waiting)
         /\ task' = [f EXCEPT ![Head(waiting)] = [@ EXCEPT !.pc = "held", !.slot = TRUE]]
         /\ UNCHANGED sem
    ELSE /\ sem' = [sem EXCEPT ![Pool(x)] = @ - 1]
         /\ task' = f
         /\ UNCHANGED waiting

(***************************************************************************)
(* Read misses and engine PUTs: acquireCacheSlot with priorityReadMiss, and  *)
(* acquireEnginePutSlot.  A refusal changes nothing the caller keeps.        *)
(***************************************************************************)
AcquireSlot(x) ==
    /\ x \in Misses \cup Puts /\ task[x].pc = "idle"
    /\ sem[Pool(x)] < MaxWrites
    /\ \E n \in Weights : Set(x, [Idle EXCEPT !.pc = "slot", !.w = n, !.slot = TRUE])
    /\ sem' = [sem EXCEPT ![Pool(x)] = @ + 1]
    /\ UNCHANGED <<budget, waiting>>

AcquireBytes(x) ==
    /\ task[x].pc = "slot"
    /\ IF FitsReadMiss(task[x].w)
       THEN /\ Take(task[x].w)
            /\ Set(x, [task[x] EXCEPT !.pc = "held", !.bytes = task[x].w])
       ELSE /\ Set(x, [task[x] EXCEPT !.pc = "give"])
            /\ UNCHANGED budget
    /\ UNCHANGED <<sem, waiting>>

(***************************************************************************)
(* Warm-on-write: acquireWarm, then the count slot.                          *)
(***************************************************************************)
StartWarm(x) ==
    /\ x \in Warms /\ task[x].pc = "idle"
    /\ Set(x, [Idle EXCEPT !.pc = "acquire", !.w = WriterWeight])
    /\ UNCHANGED <<budget, sem, waiting>>

\* First look at the budget: a weight above the whole of it is refused, bytes
\* that do not fit are waited for with the demand registered as pending.
AcquireWarm(x) ==
    /\ task[x].pc = "acquire"
    /\ LET n == task[x].w IN
         \/ /\ n > Total \/ (budget.remaining < n /\ task[x].expired)
            /\ Set(x, [Idle EXCEPT !.pc = "declined"]) /\ UNCHANGED budget
         \/ /\ n <= Total /\ budget.remaining >= n
            /\ Take(n) /\ Set(x, [task[x] EXCEPT !.pc = "seek", !.bytes = n])
         \/ /\ n <= Total /\ budget.remaining < n /\ ~ task[x].expired
            /\ budget' = [budget EXCEPT !.pendingWarm = @ + n]
            /\ Set(x, [task[x] EXCEPT !.pc = "parked"])
    /\ UNCHANGED <<sem, waiting>>

\* Back from cond.Wait: take the bytes, give up, or wait again.
WarmWakes(x) ==
    /\ task[x].pc = "woken"
    /\ LET n == task[x].w IN
         \/ /\ budget.remaining >= n
            /\ budget' = [budget EXCEPT !.remaining = @ - n, !.pendingWarm = @ - n]
            /\ Set(x, [task[x] EXCEPT !.pc = "seek", !.bytes = n])
         \/ /\ budget.remaining < n /\ task[x].expired
            /\ budget' = [budget EXCEPT !.pendingWarm = @ - n]
            /\ Set(x, [Idle EXCEPT !.pc = "declined"])
         \/ /\ budget.remaining < n /\ ~ task[x].expired
            /\ Set(x, [task[x] EXCEPT !.pc = "parked"])
            /\ UNCHANGED budget
    /\ UNCHANGED <<sem, waiting>>

\* The blocking send on cacheSemaphore.
SeekSlot(x) ==
    /\ task[x].pc = "seek"
    /\ IF sem["cache"] < MaxWrites
       THEN /\ sem' = [sem EXCEPT !["cache"] = @ + 1]
            /\ Set(x, [task[x] EXCEPT !.pc = "held", !.slot = TRUE])
            /\ UNCHANGED waiting
       ELSE /\ waiting' = Append(waiting, x)
            /\ Set(x, [task[x] EXCEPT !.pc = "queued"])
            /\ UNCHANGED sem
    /\ UNCHANGED budget

\* The acquire deadline passes; its AfterFunc broadcasts on the condition.
DeadlinePasses(x) ==
    /\ Deadlines /\ x \in Warms /\ ~ task[x].expired
    /\ task[x].pc \in {"acquire", "parked", "woken", "seek", "queued"}
    /\ task' = Woken([task EXCEPT ![x] = [@ EXCEPT !.expired = TRUE]])
    /\ UNCHANGED <<budget, sem, waiting>>

\* release: the bytes come back and the waiters are woken.
Release(n) == budget' = [budget EXCEPT !.remaining = @ + n]

\* The select on the send to cacheSemaphore ends without it.
StopsWaiting(x) ==
    \/ task[x].pc = "seek" /\ UNCHANGED waiting
    \/ \E i \in 1..Len(waiting) :
         /\ waiting[i] = x
         /\ waiting' = SubSeq(waiting, 1, i - 1) \o SubSeq(waiting, i + 1, Len(waiting))

\* The bytes stay reserved for a warm that gave up.
SlotTimeoutKeepingBytes(x) ==
    /\ task[x].pc \in {"seek", "queued"} /\ task[x].expired
    /\ task' = Woken([task EXCEPT ![x] = [Idle EXCEPT !.pc = "declined"]])
    /\ StopsWaiting(x)
    /\ UNCHANGED <<budget, sem>>

\* No slot came before the deadline: the bytes are handed back.
SlotTimeout(x) ==
    /\ task[x].pc \in {"seek", "queued"} /\ task[x].expired
    /\ Release(task[x].bytes)
    /\ task' = Woken([task EXCEPT ![x] = [Idle EXCEPT !.pc = "declined"]])
    /\ StopsWaiting(x)
    /\ UNCHANGED sem

(***************************************************************************)
(* While admitted: the block scratch of fetchFullObjectToCache, and release. *)
(***************************************************************************)
\* tryAcquireCacheBytes for a block-mode response.  A miss that finds no room
\* sheds; a warm gives everything back and asks for both weights at once.
TakeScratch(x) ==
    /\ x \in Misses \cup Warms /\ task[x].pc = "held" /\ task[x].w = WriterWeight
    /\ LET fits == IF x \in Warms THEN BlockSize <= Total /\ budget.remaining >= BlockSize
                                  ELSE FitsReadMiss(BlockSize)
       IN  IF fits
           THEN /\ Take(BlockSize)
                /\ Set(x, [task[x] EXCEPT !.w = @ + BlockSize, !.bytes = @ + BlockSize])
           ELSE /\ Set(x, [task[x] EXCEPT !.pc = "release", !.again = x \in Warms])
                /\ UNCHANGED budget
    /\ UNCHANGED <<sem, waiting>>

\* releaseCacheSlot and releaseEnginePutSlot: the bytes first, then the slot.
ReleaseBytes(x) ==
    /\ x \notin Stagers /\ task[x].pc \in {"held", "release"}
    /\ Release(task[x].bytes)
    /\ task' = Woken([task EXCEPT ![x] = [@ EXCEPT !.pc = "give", !.bytes = 0]])
    /\ UNCHANGED <<sem, waiting>>

\* A warm that could not get scratch asks again, under a fresh deadline.
ReleaseSlot(x) ==
    /\ task[x].pc = "give"
    /\ GiveSlot(x, [task EXCEPT ![x] =
         IF task[x].again
         THEN [Idle EXCEPT !.pc = "acquire", !.w = task[x].w + BlockSize]
         ELSE [Idle EXCEPT !.pc = IF x \in Warms THEN "finished" ELSE "idle"]])
    /\ UNCHANGED budget

(***************************************************************************)
(* Block-serve staging.                                                      *)
(***************************************************************************)
AcquireStaging(x) ==
    /\ x \in Stagers /\ task[x].pc = "idle"
    /\ \E n \in Weights :
         /\ budget.stagingInUse + n <= StagingCap
         /\ FitsReadMiss(n)
         /\ budget' = [budget EXCEPT !.remaining = @ - n, !.stagingInUse = @ + n]
         /\ Set(x, [Idle EXCEPT !.pc = "held", !.w = n, !.bytes = n])
    /\ UNCHANGED <<sem, waiting>>

ReleaseStaging(x) ==
    /\ x \in Stagers /\ task[x].pc = "held"
    /\ budget' = [budget EXCEPT !.remaining = @ + task[x].bytes,
                                !.stagingInUse = @ - task[x].bytes]
    /\ task' = Woken([task EXCEPT ![x] = Idle])
    /\ UNCHANGED <<sem, waiting>>

(***************************************************************************)
(* The specification.                                                       *)
(***************************************************************************)
Init ==
    /\ \E size \in BlockSizes :
         budget = [remaining |-> Total, pendingWarm |-> 0, stagingInUse |-> 0,
                   blockSize |-> size]
    /\ sem = [pool \in {"cache", "engine"} |-> 0]
    /\ waiting = <<>>
    /\ task = [x \in Tasks |-> Idle]

\* New work arrives, or the block representation is chosen.
Arrive(x) == AcquireSlot(x) \/ StartWarm(x) \/ AcquireStaging(x) \/ TakeScratch(x)

\* Work already admitted moves on.
Proceed(x) ==
    \/ AcquireBytes(x) \/ AcquireWarm(x) \/ WarmWakes(x) \/ SeekSlot(x)
    \/ SlotTimeout(x) \/ ReleaseBytes(x) \/ ReleaseSlot(x) \/ ReleaseStaging(x)

Next == \E x \in Tasks : Arrive(x) \/ Proceed(x) \/ DeadlinePasses(x)

Spec == Init /\ [][Next]_vars

\* Goroutines run, and every cache write and block serve ends (writes have a
\* deadline, serves end with the response).
Fairness == \A x \in Tasks : WF_vars(Proceed(x))

FairSpec == Spec /\ Fairness

(***************************************************************************)
(* Properties.                                                              *)
(***************************************************************************)
\* Types and ranges of the limiters.
TypeOK ==
    /\ budget \in [remaining : 0..Total, pendingWarm : Nat, stagingInUse : 0..StagingCap,
                   blockSize : BlockSizes]
    /\ sem \in [{"cache", "engine"} -> 0..MaxWrites]
    /\ waiting \in Seq(Warms)
    /\ task \in [Tasks ->
         [pc : {"idle", "slot", "acquire", "parked", "woken", "seek", "queued", "held",
                "release", "give", "declined", "finished"},
          w : Nat, bytes : 0..Total, slot : BOOLEAN, expired : BOOLEAN, again : BOOLEAN]]

\* The units of the budget that go to members of X, amount[x] of them to x: the
\* sum of the amounts is the number of units.
Units(X, amount) == {u \in X \X (1..Total) : u[2] <= amount[u[1]]}

Bytes == [x \in Tasks |-> task[x].bytes]

\* What each parked warm has registered as pending.
Demand == [x \in Tasks |-> IF task[x].pc \in {"parked", "woken"} THEN task[x].w ELSE 0]

SlotHolders(pool) == {x \in Tasks : task[x].slot /\ Pool(x) = pool}

\* Every reservation is accounted for, on every path out of acquireCacheSlot,
\* fetchFullObjectToCache and the block serves: the bytes missing from the budget
\* are the bytes somebody holds, staging is charged exactly once, the demand that
\* makes read misses yield is that of the warms still waiting, and each taken slot
\* has a holder.  A leak on any path would shrink the cache's capacity for good.
Accounted ==
    /\ budget.remaining + Cardinality(Units(Tasks, Bytes)) = Total
    /\ budget.stagingInUse = Cardinality(Units(Stagers, Bytes))
    /\ budget.pendingWarm = Cardinality(Units(Warms, Demand))
    /\ \A pool \in {"cache", "engine"} : sem[pool] = Cardinality(SlotHolders(pool))

\* The read-miss flood never starves a warm: one that asks is admitted, or
\* declined for a weight above the whole budget, even if misses, PUTs and block
\* serves keep arriving for ever.
WarmNotStarved ==
    \A x \in Warms : task[x].pc = "acquire" ~> task[x].pc \in {"held", "declined"}
==============================================================================
