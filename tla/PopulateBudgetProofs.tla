------------------------ MODULE PopulateBudgetProofs ------------------------
(***************************************************************************)
(* Proofs about PopulateBudget, for any number of operations, any budget,    *)
(* weights, block sizes and slots.                                          *)
(***************************************************************************)
EXTENDS PopulateBudget, FiniteSetTheorems, SequenceTheorems, TLAPS

-----------------------------------------------------------------------------
(* Sums as numbers of units.                                                  *)

Sum(X, amount) == Cardinality(Units(X, amount))

LEMMA UnitsFinite ==
    ASSUME NEW X, IsFiniteSet(X), NEW amount
    PROVE  IsFiniteSet(Units(X, amount)) /\ Sum(X, amount) \in Nat
<1>1. Total \in Nat
  BY BudgetAssumption
<1>2. IsFiniteSet(X \X (1..Total))
  <2>1. 1 \in Int /\ Total \in Int
    BY <1>1
  <2>2. IsFiniteSet(1..Total)
    BY <2>1, FS_Interval, Zenon
  <2>3. QED BY <2>2, FS_Product, Zenon
<1>3. Units(X, amount) \subseteq X \X (1..Total)
  BY DEF Units
<1>4. QED BY <1>2, <1>3, FS_Subset, FS_CardinalityType DEF Sum

\* Taking one member out of a sum.
LEMMA SumSplit ==
    ASSUME NEW X, IsFiniteSet(X), NEW x \in X, NEW amount, amount[x] \in 0..Total
    PROVE  Sum(X, amount) = Sum(X \ {x}, amount) + amount[x]
<1>0. Total \in Nat
  BY BudgetAssumption
<1> DEFINE own == {x} \X (1..amount[x])
           rest == Units(X \ {x}, amount)
<1>1. Units(X, amount) = rest \cup own /\ rest \cap own = {}
  BY <1>0 DEF Units
<1>2. IsFiniteSet(own) /\ Cardinality(own) = amount[x]
  <2>1. IsFiniteSet({x}) /\ Cardinality({x}) = 1
    BY FS_Singleton, Zenon
  <2>2. amount[x] \in Int /\ 1 \in Int
    BY <1>0
  <2>3. /\ IsFiniteSet(1..amount[x])
        /\ Cardinality(1..amount[x]) = IF 1 > amount[x] THEN 0 ELSE amount[x] - 1 + 1
    BY <2>2, FS_Interval, Zenon
  <2>4. Cardinality(1..amount[x]) = amount[x]
    BY <2>3
  <2>5. IsFiniteSet(own) /\ Cardinality(own) = Cardinality({x}) * Cardinality(1..amount[x])
    BY <2>1, <2>3, FS_Product, Zenon
  <2>6. QED BY <2>1, <2>2, <2>4, <2>5
<1>3. IsFiniteSet(X \ {x}) /\ IsFiniteSet(rest) /\ Cardinality(rest) \in Nat
  BY FS_RemoveElement, UnitsFinite, Zenon DEF Sum
<1> HIDE DEF own, rest
<1>4. Cardinality(rest \cup own) =
        Cardinality(rest) + Cardinality(own) - Cardinality(rest \cap own)
  BY <1>2, <1>3, FS_Union, Zenon
<1>5. Cardinality(rest \cap own) = 0
  BY <1>1, FS_EmptySet, Zenon
<1>6. Cardinality(Units(X, amount)) = Cardinality(rest) + amount[x]
  BY <1>0, <1>1, <1>2, <1>3, <1>4, <1>5
<1>7. QED BY <1>6 DEF Sum, rest

\* Equal amounts, equal sums.
LEMMA SumSame ==
    ASSUME NEW X, NEW f, NEW g, \A y \in X : f[y] = g[y]
    PROVE  Sum(X, f) = Sum(X, g)
<1>1. Units(X, f) = Units(X, g)
  BY DEF Units
<1>2. QED BY <1>1 DEF Sum

\* Changing the amount of one member.
LEMMA SumChange ==
    ASSUME NEW X, IsFiniteSet(X), NEW x \in X, NEW f, NEW g,
           f[x] \in 0..Total, g[x] \in 0..Total, \A y \in X \ {x} : f[y] = g[y]
    PROVE  /\ Sum(X, g) = Sum(X, f) - f[x] + g[x]
           /\ f[x] <= Sum(X, f)
           /\ Sum(X, f) \in Nat /\ Sum(X, g) \in Nat
<1>0. Total \in Nat
  BY BudgetAssumption
<1>1. Sum(X \ {x}, f) = Sum(X \ {x}, g)
  BY SumSame
<1>2. Sum(X, f) = Sum(X \ {x}, f) + f[x] /\ Sum(X, g) = Sum(X \ {x}, g) + g[x]
  BY SumSplit
<1>3. Sum(X \ {x}, f) \in Nat /\ Sum(X, f) \in Nat /\ Sum(X, g) \in Nat
  BY FS_RemoveElement, UnitsFinite, Zenon
<1>4. QED BY <1>0, <1>1, <1>2, <1>3

\* Nothing held, nothing summed.
LEMMA SumZero ==
    ASSUME NEW X, NEW f, \A y \in X : f[y] = 0
    PROVE  Sum(X, f) = 0
<1>1. Units(X, f) = {}
  BY BudgetAssumption DEF Units
<1>2. QED BY <1>1, FS_EmptySet DEF Sum

-----------------------------------------------------------------------------
(* The inductive invariant.                                                   *)

TaskRecords ==
    [pc : {"idle", "slot", "acquire", "parked", "woken", "seek", "queued", "held",
           "release", "give", "declined", "finished"},
     w : Nat, bytes : 0..Total, slot : BOOLEAN, expired : BOOLEAN, again : BOOLEAN]

\* Where an operation can be, and what it holds there.
StageOf(x, t) ==
    /\ x \in Stagers => t.pc \in {"idle", "held"} /\ ~ t.slot
    /\ x \in Misses \cup Puts => t.pc \in {"idle", "slot", "held", "release", "give"}
    /\ x \in Warms => t.pc # "slot"
    /\ x \notin Stagers => (t.slot <=> t.pc \in {"slot", "held", "release", "give"})
    /\ t.pc \notin {"seek", "queued", "held", "release"} => t.bytes = 0
    /\ t.pc \in {"slot", "parked", "woken"} => t.w \in 0..Total
    /\ t.again => x \in Warms

Stage(x) == StageOf(x, task[x])

\* A warm is in the queue for a slot once, while it is blocked there.
Queue ==
    /\ \A i \in 1..Len(waiting) : task[waiting[i]].pc = "queued"
    /\ \A i, j \in 1..Len(waiting) : waiting[i] = waiting[j] => i = j

Inv == TypeOK /\ Accounted /\ (\A x \in Tasks : Stage(x)) /\ Queue

-----------------------------------------------------------------------------
(* What a step of one operation does to the others.                           *)

\* y does not move, except that a broadcast may wake it.
Keeps(y) ==
    /\ task'[y].bytes = task[y].bytes /\ task'[y].w = task[y].w
    /\ task'[y].slot = task[y].slot /\ task'[y].again = task[y].again
    /\ task'[y].pc = task[y].pc \/ (task[y].pc = "parked" /\ task'[y].pc = "woken")

\* r, or r once woken.
IsOrWoken(t, r) == t = r \/ (r.pc = "parked" /\ t = [r EXCEPT !.pc = "woken"])

LEMMA WokenRecord ==
    ASSUME NEW r \in TaskRecords, NEW t, IsOrWoken(t, r)
    PROVE  /\ t \in TaskRecords /\ t.bytes = r.bytes /\ t.w = r.w /\ t.slot = r.slot
           /\ t.again = r.again
           /\ t.pc = r.pc \/ (r.pc = "parked" /\ t.pc = "woken")
<1>1. CASE t = r
  BY <1>1
<1>2. CASE r.pc = "parked" /\ t = [r EXCEPT !.pc = "woken"]
  BY <1>2, Zenon DEF TaskRecords
<1>3. QED BY <1>1, <1>2 DEF IsOrWoken

\* Operation x gets record r, with or without a broadcast.
LEMMA SetShape ==
    ASSUME TypeOK, NEW x \in Tasks, NEW r \in TaskRecords,
           \/ task' = [task EXCEPT ![x] = r]
           \/ task' = Woken([task EXCEPT ![x] = r])
    PROVE  /\ task' \in [Tasks -> TaskRecords]
           /\ IsOrWoken(task'[x], r)
           /\ \A y \in Tasks \ {x} : Keeps(y)
<1> DEFINE f == [task EXCEPT ![x] = r]
<1>1. /\ task \in [Tasks -> TaskRecords] /\ f \in [Tasks -> TaskRecords]
      /\ f[x] = r /\ \A y \in Tasks \ {x} : f[y] = task[y]
  BY DEF TypeOK, TaskRecords
<1> HIDE DEF f
<1>2. task' = [y \in Tasks |-> task'[y]] /\ \A y \in Tasks : IsOrWoken(task'[y], f[y])
  <2>1. CASE task' = f
    BY <1>1, <2>1 DEF IsOrWoken
  <2>2. CASE task' = Woken(f)
    BY <1>1, <2>2 DEF Woken, IsOrWoken
  <2>3. QED BY <2>1, <2>2 DEF f
<1>3. \A y \in Tasks :
        /\ task'[y] \in TaskRecords /\ task'[y].bytes = f[y].bytes /\ task'[y].w = f[y].w
        /\ task'[y].slot = f[y].slot /\ task'[y].again = f[y].again
        /\ task'[y].pc = f[y].pc \/ (f[y].pc = "parked" /\ task'[y].pc = "woken")
  BY <1>1, <1>2, WokenRecord
<1>4. task' \in [Tasks -> TaskRecords]
  BY <1>2, <1>3
<1>5. IsOrWoken(task'[x], r)
  BY <1>1, <1>2
<1>6. \A y \in Tasks \ {x} : Keeps(y)
  BY <1>1, <1>3 DEF Keeps
<1>7. QED BY <1>4, <1>5, <1>6

LEMMA KeepsStage == ASSUME NEW y \in Tasks, Stage(y), Keeps(y) PROVE Stage(y)'
BY DEF Stage, StageOf, Keeps

LEMMA ReserveCapNat == ASSUME TypeOK PROVE ReserveCap \in Nat /\ OwedToWarms \in Nat
<1>1. Total \in Nat /\ ReservePercent \in Nat /\ WriterWeight \in Nat /\ BlockSize \in Nat
  <2>1. BlockSize \in BlockSizes
    BY DEF TypeOK, BlockSize
  <2>2. QED BY <2>1, BudgetAssumption
<1> DEFINE product == Total * ReservePercent
<1>2. product \in Nat
  BY <1>1
<1> HIDE DEF product
<1>3. product \div 100 \in Nat
  BY <1>2
<1>4. ReserveCap \in Nat
  BY <1>1, <1>3 DEF ReserveCap, product
<1>5. QED BY <1>4 DEF OwedToWarms, TypeOK

\* The step of x moves bytes, staging and registered demand between x and the
\* budget, and loses none.
Exchange(x) ==
    /\ task' \in [Tasks -> TaskRecords]
    /\ \A y \in Tasks \ {x} : Keeps(y)
    /\ Stage(x)'
    /\ budget' \in [remaining : Nat, pendingWarm : Int, stagingInUse : Int,
                    blockSize : BlockSizes]
    /\ budget'.remaining + task'[x].bytes = budget.remaining + task[x].bytes
    /\ IF x \in Stagers
       THEN /\ budget'.stagingInUse + task[x].bytes = budget.stagingInUse + task'[x].bytes
            /\ budget'.stagingInUse <= StagingCap
       ELSE budget'.stagingInUse = budget.stagingInUse
    /\ budget'.pendingWarm + Demand[x] = budget.pendingWarm + Demand'[x]

LEMMA ExchangeAccounted ==
    ASSUME Inv, NEW x \in Tasks, Exchange(x)
    PROVE  /\ budget' \in [remaining : 0..Total, pendingWarm : Nat,
                           stagingInUse : 0..StagingCap, blockSize : BlockSizes]
           /\ budget'.remaining + Sum(Tasks, Bytes') = Total
           /\ budget'.stagingInUse = Sum(Stagers, Bytes')
           /\ budget'.pendingWarm = Sum(Warms, Demand')
           /\ \A y \in Tasks : Stage(y)'
<1>0. /\ TypeOK /\ Total \in Nat /\ StagingCap \in Nat
      /\ budget.remaining + Sum(Tasks, Bytes) = Total
      /\ budget.stagingInUse = Sum(Stagers, Bytes)
      /\ budget.pendingWarm = Sum(Warms, Demand)
      /\ IsFiniteSet(Tasks) /\ Stagers \subseteq Tasks /\ Warms \subseteq Tasks
  BY BudgetAssumption DEF Inv, Accounted, Sum, Tasks, StagingCap
<1>1. IsFiniteSet(Stagers) /\ IsFiniteSet(Warms)
  BY <1>0, FS_Subset
<1>2. /\ \A y \in Tasks : Stage(y)'
      /\ \A y \in Tasks \ {x} : Bytes'[y] = Bytes[y] /\ Demand'[y] = Demand[y]
  BY KeepsStage DEF Exchange, Inv, Keeps, Bytes, Demand
<1>3. \A y \in Tasks : /\ Bytes[y] = task[y].bytes /\ Bytes'[y] = task'[y].bytes
                       /\ Bytes[y] \in 0..Total /\ Bytes'[y] \in 0..Total
  BY <1>0, SMTT(30) DEF Bytes, TypeOK, Exchange, TaskRecords
<1>4. \A y \in Tasks : Demand[y] \in 0..Total /\ Demand'[y] \in 0..Total
  BY <1>0, <1>2, SMTT(30) DEF Demand, Inv, Stage, StageOf
<1>5. ~(x \in Warms) => Demand[x] = 0 /\ Demand'[x] = 0
  BY <1>2 DEF Demand, Inv, Stage, StageOf, Tasks
<1>6. /\ Sum(Tasks, Bytes') = Sum(Tasks, Bytes) - Bytes[x] + Bytes'[x]
      /\ Sum(Tasks, Bytes') \in Nat
  BY <1>0, <1>2, <1>3, SumChange
<1>7. Sum(Stagers, Bytes') = budget'.stagingInUse /\ Sum(Stagers, Bytes') \in Nat
  <2>1. CASE x \in Stagers
    <3>1. /\ Sum(Stagers, Bytes') = Sum(Stagers, Bytes) - Bytes[x] + Bytes'[x]
          /\ Sum(Stagers, Bytes') \in Nat /\ Sum(Stagers, Bytes) \in Nat
      BY <1>0, <1>1, <1>2, <1>3, <2>1, SumChange, SMTT(30)
    <3>2. QED BY <1>0, <1>3, <2>1, <3>1, SMTT(30) DEF Exchange
  <2>2. CASE x \notin Stagers
    <3>1. Sum(Stagers, Bytes') = Sum(Stagers, Bytes) /\ Sum(Stagers, Bytes) \in Nat
      BY <1>0, <1>1, <1>2, <2>2, SumSame, UnitsFinite, SMTT(30)
    <3>2. QED BY <1>0, <2>2, <3>1 DEF Exchange
  <2>3. QED BY <2>1, <2>2
<1>8. Sum(Warms, Demand') = budget'.pendingWarm /\ Sum(Warms, Demand') \in Nat
  <2>1. CASE x \in Warms
    <3>1. /\ Sum(Warms, Demand') = Sum(Warms, Demand) - Demand[x] + Demand'[x]
          /\ Sum(Warms, Demand') \in Nat /\ Sum(Warms, Demand) \in Nat
      BY <1>0, <1>1, <1>2, <1>4, <2>1, SumChange, SMTT(30)
    <3>2. QED BY <1>0, <1>4, <3>1, SMTT(30) DEF Exchange
  <2>2. CASE x \notin Warms
    <3>1. Sum(Warms, Demand') = Sum(Warms, Demand) /\ Sum(Warms, Demand) \in Nat
      BY <1>0, <1>1, <1>2, <2>2, SumSame, UnitsFinite, SMTT(30)
    <3>2. QED BY <1>0, <1>5, <2>2, <3>1, SMTT(30) DEF Exchange
  <2>3. QED BY <2>1, <2>2
<1>9. budget'.remaining + Sum(Tasks, Bytes') = Total /\ budget'.remaining \in 0..Total
  <2>1. /\ budget.remaining \in Nat /\ budget'.remaining \in Nat
        /\ budget'.remaining + Bytes'[x] = budget.remaining + Bytes[x]
    BY <1>0, <1>3, SMTT(30) DEF Exchange, TypeOK
  <2>2. Bytes[x] \in Nat /\ Bytes'[x] \in Nat /\ Sum(Tasks, Bytes) \in Nat
    BY <1>0, <1>3, UnitsFinite
  <2>3. QED BY <1>0, <1>6, <2>1, <2>2, SMTT(30)
<1>10. budget'.stagingInUse \in 0..StagingCap /\ budget'.pendingWarm \in Nat
  BY <1>0, <1>7, <1>8 DEF Exchange, TypeOK
<1>11. QED BY <1>2, <1>7, <1>8, <1>9, <1>10, SMTT(30) DEF Exchange

\* What one operation holds and what is left fit in the budget together.
LEMMA HeldFits ==
    ASSUME Inv, NEW x \in Tasks
    PROVE  task[x].bytes + budget.remaining <= Total
<1>1. /\ IsFiniteSet(Tasks) /\ Bytes[x] = task[x].bytes /\ Bytes[x] \in 0..Total
      /\ budget.remaining + Sum(Tasks, Bytes) = Total
  BY BudgetAssumption DEF Inv, TypeOK, Accounted, Sum, Bytes
<1>2. Bytes[x] <= Sum(Tasks, Bytes) /\ Sum(Tasks, Bytes) \in Nat
  BY <1>1, SumChange
<1>3. QED BY <1>1, <1>2, BudgetAssumption DEF Inv, TypeOK

-----------------------------------------------------------------------------
(* Slots and their queue.                                                     *)

SemType == [{"cache", "engine"} -> 0..MaxWrites]

SlotsCounted == \A pool \in {"cache", "engine"} : sem[pool] = Cardinality(SlotHolders(pool))

LEMMA HoldersFinite == \A pool : IsFiniteSet(SlotHolders(pool))
<1> SUFFICES ASSUME NEW pool PROVE IsFiniteSet(SlotHolders(pool))
  OBVIOUS
<1>1. SlotHolders(pool) \in SUBSET Tasks
  BY DEF SlotHolders
<1>2. QED BY <1>1, BudgetAssumption, FS_Subset, Zenon

LEMMA SlotKept ==
    ASSUME Inv, NEW x \in Tasks, \A y \in Tasks \ {x} : Keeps(y),
           task'[x].slot <=> task[x].slot, UNCHANGED sem
    PROVE  sem' \in SemType /\ SlotsCounted'
<1>1. \A pool : SlotHolders(pool)' = SlotHolders(pool)
  BY DEF SlotHolders, Keeps
<1>2. QED BY <1>1 DEF Inv, TypeOK, Accounted, SlotsCounted, SemType

LEMMA SlotTaken ==
    ASSUME Inv, NEW x \in Tasks, \A y \in Tasks \ {x} : Keeps(y),
           ~ task[x].slot, task'[x].slot, sem[Pool(x)] < MaxWrites,
           sem' = [sem EXCEPT ![Pool(x)] = @ + 1]
    PROVE  sem' \in SemType /\ SlotsCounted'
<1>0. Pool(x) \in {"cache", "engine"} /\ sem \in SemType /\ SlotsCounted /\ MaxWrites \in Nat
  BY BudgetAssumption DEF Pool, Inv, TypeOK, Accounted, SlotsCounted, SemType
<1>1. sem' \in SemType
  BY <1>0 DEF SemType
<1>2. SlotHolders(Pool(x))' = SlotHolders(Pool(x)) \cup {x} /\ x \notin SlotHolders(Pool(x))
  BY DEF SlotHolders, Keeps
<1>3. Cardinality(SlotHolders(Pool(x))') = Cardinality(SlotHolders(Pool(x))) + 1
  BY <1>2, HoldersFinite, FS_AddElement, Zenon
<1>4. \A pool \in {"cache", "engine"} \ {Pool(x)} : SlotHolders(pool)' = SlotHolders(pool)
  BY DEF SlotHolders, Keeps
<1>5. SlotsCounted'
  BY <1>0, <1>3, <1>4 DEF SlotsCounted, SemType
<1>6. QED BY <1>1, <1>5, SMTT(30)

LEMMA SlotGiven ==
    ASSUME Inv, NEW x \in Tasks, \A y \in Tasks \ {x} : Keeps(y),
           task[x].slot, ~ task'[x].slot, sem' = [sem EXCEPT ![Pool(x)] = @ - 1]
    PROVE  sem' \in SemType /\ SlotsCounted'
<1>0. Pool(x) \in {"cache", "engine"} /\ sem \in SemType /\ SlotsCounted /\ MaxWrites \in Nat
  BY BudgetAssumption DEF Pool, Inv, TypeOK, Accounted, SlotsCounted, SemType
<1>2. SlotHolders(Pool(x))' = SlotHolders(Pool(x)) \ {x} /\ x \in SlotHolders(Pool(x))
  BY DEF SlotHolders, Keeps
<1>3. Cardinality(SlotHolders(Pool(x))') = Cardinality(SlotHolders(Pool(x))) - 1
  BY <1>2, HoldersFinite, FS_RemoveElement, Zenon
<1>4. \A pool \in {"cache", "engine"} \ {Pool(x)} : SlotHolders(pool)' = SlotHolders(pool)
  BY DEF SlotHolders, Keeps
<1>5. Cardinality(SlotHolders(Pool(x))') \in Nat
  <2>1. IsFiniteSet(SlotHolders(Pool(x))')
    BY <1>2, HoldersFinite, FS_RemoveElement, Zenon
  <2>2. QED BY <2>1, FS_CardinalityType, Zenon
<1>6. sem[Pool(x)] = Cardinality(SlotHolders(Pool(x)))
  BY <1>0 DEF SlotsCounted
<1>7. sem[Pool(x)] - 1 \in 0..MaxWrites
  BY <1>0, <1>3, <1>5, <1>6, SMTT(30) DEF SemType
<1>8. sem' \in SemType
  BY <1>0, <1>7 DEF SemType
<1>9. SlotsCounted'
  BY <1>0, <1>3, <1>4 DEF SlotsCounted, SemType
<1>10. QED BY <1>8, <1>9

\* A slot passes from x straight to the warm h.
LEMMA SlotPassed ==
    ASSUME Inv, NEW x \in Tasks, NEW h \in Tasks, x # h, Pool(x) = Pool(h),
           \A y \in Tasks \ {x, h} : Keeps(y),
           task[x].slot, ~ task'[x].slot, ~ task[h].slot, task'[h].slot, UNCHANGED sem
    PROVE  sem' \in SemType /\ SlotsCounted'
<1> DEFINE holders == SlotHolders(Pool(x))
<1>0. Pool(x) \in {"cache", "engine"} /\ sem \in SemType /\ SlotsCounted
  BY DEF Pool, Inv, TypeOK, Accounted, SlotsCounted, SemType
<1>1. holders' = (holders \ {x}) \cup {h} /\ x \in holders /\ h \notin holders
  BY DEF SlotHolders, Keeps
<1>2. IsFiniteSet(holders) /\ Cardinality(holders) \in Nat
  BY HoldersFinite, FS_CardinalityType, Zenon
<1>3. IsFiniteSet(holders \ {x}) /\ Cardinality(holders \ {x}) = Cardinality(holders) - 1
  BY <1>1, <1>2, FS_RemoveElement, Zenon
<1>4. Cardinality(holders') = Cardinality(holders \ {x}) + 1
  BY <1>1, <1>3, FS_AddElement, Zenon
<1>5. \A pool \in {"cache", "engine"} \ {Pool(x)} : SlotHolders(pool)' = SlotHolders(pool)
  BY DEF SlotHolders, Keeps
<1>6. Cardinality(holders') = Cardinality(holders)
  BY <1>2, <1>3, <1>4
<1>7. SlotsCounted'
  BY <1>0, <1>5, <1>6 DEF SlotsCounted
<1>8. QED BY <1>0, <1>7

Without(s, i) == SubSeq(s, 1, i - 1) \o SubSeq(s, i + 1, Len(s))

\* Taking one entry out of the queue.
LEMMA WithoutShape ==
    ASSUME NEW S, NEW s \in Seq(S), NEW i \in 1..Len(s)
    PROVE  /\ Without(s, i) \in Seq(S) /\ Len(Without(s, i)) = Len(s) - 1
           /\ \A j \in 1..(Len(s) - 1) :
                Without(s, i)[j] = s[IF j < i THEN j ELSE j + 1]
<1> DEFINE before == SubSeq(s, 1, i - 1)
           after == SubSeq(s, i + 1, Len(s))
<1>1. /\ before \in Seq(S) /\ Len(before) = i - 1
      /\ \A j \in 1..(i - 1) : before[j] = s[j]
  BY SubSeqProperties
<1>2. /\ after \in Seq(S) /\ Len(after) = Len(s) - i
      /\ \A j \in 1..(Len(s) - i) : after[j] = s[i + j]
  BY SubSeqProperties
<1> HIDE DEF before, after
<1>3. /\ before \o after \in Seq(S) /\ Len(before \o after) = Len(before) + Len(after)
      /\ \A j \in 1..(Len(before) + Len(after)) : (before \o after)[j] =
           IF j <= Len(before) THEN before[j] ELSE after[j - Len(before)]
  BY <1>1, <1>2, ConcatProperties, Zenon
<1>4. Len(s) \in Nat /\ i \in Nat /\ i <= Len(s) /\ 1 <= i
  BY LenProperties
<1>5. Len(before \o after) = Len(s) - 1
  BY <1>1, <1>2, <1>3, <1>4
<1>6. ASSUME NEW j \in 1..(Len(s) - 1)
      PROVE  (before \o after)[j] = s[IF j < i THEN j ELSE j + 1]
  <2>1. CASE j < i
    BY <1>1, <1>2, <1>3, <1>4, <2>1
  <2>2. CASE ~(j < i)
    <3>1. j - (i - 1) \in 1..(Len(s) - i) /\ i + (j - (i - 1)) = j + 1
      BY <1>4, <2>2
    <3>2. (before \o after)[j] = after[j - (i - 1)]
      BY <1>1, <1>2, <1>3, <1>4, <2>2, SMTT(30)
    <3>3. QED BY <1>2, <2>2, <3>1, <3>2
  <2>3. QED BY <2>1, <2>2, Zenon
<1>7. Without(s, i) = before \o after
  BY DEF Without, before, after
<1>8. QED BY <1>3, <1>5, <1>6, <1>7

LEMMA QueueKept ==
    ASSUME Inv, NEW x \in Tasks, \A y \in Tasks \ {x} : Keeps(y),
           task[x].pc = "queued" => task'[x].pc = "queued", UNCHANGED waiting
    PROVE  waiting' \in Seq(Warms) /\ Queue'
<1>1. \A i \in 1..Len(waiting) : waiting[i] \in Tasks
  BY DEF Inv, TypeOK, Tasks
<1>2. QED BY <1>1, SMTT(30) DEF Inv, TypeOK, Queue, Keeps

LEMMA Assemble ==
    ASSUME Inv, NEW x \in Tasks, Exchange(x), sem' \in SemType /\ SlotsCounted',
           waiting' \in Seq(Warms) /\ Queue'
    PROVE  Inv'
<1>1. TypeOK'
  BY ExchangeAccounted, Zenon DEF TypeOK, SemType, Exchange, TaskRecords, StagingCap
<1>2. Accounted'
  BY ExchangeAccounted DEF Accounted, SlotsCounted, Sum
<1>3. QED BY <1>1, <1>2, ExchangeAccounted DEF Inv

\* A step of x that leaves the slots and their queue alone.
LEMMA PlainStep ==
    ASSUME Inv, NEW x \in Tasks, Exchange(x), task'[x].slot <=> task[x].slot,
           task[x].pc = "queued" => task'[x].pc = "queued", UNCHANGED <<sem, waiting>>
    PROVE  Inv'
<1>1. \A y \in Tasks \ {x} : Keeps(y)
  BY DEF Exchange
<1>2. QED BY <1>1, SlotKept, QueueKept, Assemble

-----------------------------------------------------------------------------
(* The actions.                                                               *)

OwedTo(t) == IF t.pc \in {"parked", "woken"} THEN t.w ELSE 0

BudgetInts == [remaining : Nat, pendingWarm : Int, stagingInUse : Int, blockSize : BlockSizes]

LEMMA RecordFacts ==
    ASSUME TypeOK, NEW x \in Tasks
    PROVE  /\ task[x] \in TaskRecords
           /\ task[x].w \in Nat /\ task[x].bytes \in 0..Total
           /\ task[x].slot \in BOOLEAN /\ task[x].again \in BOOLEAN
           /\ Total \in Nat /\ 0 \in 0..Total /\ WriterWeight \in 1..Total
           /\ budget.remaining \in 0..Total /\ budget.pendingWarm \in Nat
           /\ budget.stagingInUse \in 0..StagingCap /\ StagingCap \in Nat
           /\ BlockSize \in Nat \ {0} /\ budget \in BudgetInts
<1>0. budget \in BudgetInts
  <2>1. budget \in [remaining : 0..Total, pendingWarm : Nat, stagingInUse : 0..StagingCap,
                    blockSize : BlockSizes]
    BY DEF TypeOK
  <2>2. QED BY <2>1 DEF BudgetInts
<1>1. task[x] \in TaskRecords
  BY DEF TypeOK, TaskRecords
<1>2. /\ task[x].w \in Nat /\ task[x].bytes \in 0..Total
      /\ task[x].slot \in BOOLEAN /\ task[x].again \in BOOLEAN
  BY <1>1, Zenon DEF TaskRecords
<1>3. BlockSize \in BlockSizes
  BY DEF TypeOK, BlockSize
<1>4. QED BY <1>0, <1>1, <1>2, <1>3, BudgetAssumption DEF TypeOK, StagingCap

LEMMA IdleRecord ==
    ASSUME NEW p \in {"idle", "declined", "finished"}
    PROVE  LET r == [Idle EXCEPT !.pc = p] IN
           /\ r \in TaskRecords /\ r.pc = p /\ r.w = 0 /\ r.bytes = 0
           /\ ~ r.slot /\ ~ r.again
<1>1. 0 \in 0..Total /\ 0 \in Nat
  BY BudgetAssumption, SMTT(30)
<1>2. QED BY <1>1, Zenon DEF Idle, TaskRecords

\* The record r is a possible next record of x, and the budget changes by what
\* the exchange of records takes from it or gives back.
Trade(x, r) ==
    /\ task' = [task EXCEPT ![x] = r] \/ task' = Woken([task EXCEPT ![x] = r])
    /\ StageOf(x, r)
    /\ budget' \in BudgetInts
    /\ budget'.remaining = budget.remaining + task[x].bytes - r.bytes
    /\ IF x \in Stagers
       THEN /\ budget'.stagingInUse = budget.stagingInUse - task[x].bytes + r.bytes
            /\ budget'.stagingInUse <= StagingCap
       ELSE budget'.stagingInUse = budget.stagingInUse
    /\ budget'.pendingWarm = budget.pendingWarm - OwedTo(task[x]) + OwedTo(r)

LEMMA TradeExchange ==
    ASSUME Inv, NEW x \in Tasks, NEW r \in TaskRecords, Trade(x, r)
    PROVE  /\ Exchange(x) /\ task'[x].slot = r.slot
           /\ r.pc # "parked" => task'[x].pc = r.pc
           /\ \A y \in Tasks \ {x} : Keeps(y)
<1>0. TypeOK
  BY DEF Inv
<1>1. /\ task' \in [Tasks -> TaskRecords] /\ IsOrWoken(task'[x], r)
      /\ \A y \in Tasks \ {x} : Keeps(y)
  BY <1>0, SetShape DEF Trade
<1>2. /\ task'[x] \in TaskRecords /\ task'[x].bytes = r.bytes /\ task'[x].w = r.w
      /\ task'[x].slot = r.slot /\ task'[x].again = r.again
      /\ task'[x].pc = r.pc \/ (r.pc = "parked" /\ task'[x].pc = "woken")
  BY <1>1, WokenRecord, SMTT(30)
<1>3. Stage(x)'
  BY <1>2 DEF Trade, Stage, StageOf
<1>4. Demand[x] = OwedTo(task[x]) /\ Demand'[x] = OwedTo(r)
  BY <1>2 DEF Demand, OwedTo
<1>5. OwedTo(task[x]) \in Nat /\ OwedTo(r) \in Nat /\ r.bytes \in Nat
  <2>1. r.w \in Nat /\ r.bytes \in 0..Total
    BY Zenon DEF TaskRecords
  <2>2. QED BY <1>0, <2>1, RecordFacts DEF OwedTo
<1>6. /\ task[x].bytes \in Nat /\ budget.remaining \in Nat /\ budget.pendingWarm \in Nat
      /\ budget.stagingInUse \in Nat
  BY <1>0, RecordFacts, SMTT(30)
<1>7. budget'.remaining + task'[x].bytes = budget.remaining + task[x].bytes
  BY <1>2, <1>5, <1>6, SMTT(30) DEF Trade
<1>8. IF x \in Stagers
      THEN /\ budget'.stagingInUse + task[x].bytes = budget.stagingInUse + task'[x].bytes
           /\ budget'.stagingInUse <= StagingCap
      ELSE budget'.stagingInUse = budget.stagingInUse
  BY <1>2, <1>5, <1>6, SMTT(30) DEF Trade
<1>9. budget'.pendingWarm + Demand[x] = budget.pendingWarm + Demand'[x]
  BY <1>4, <1>5, <1>6, SMTT(30) DEF Trade
<1>10. QED BY <1>1, <1>2, <1>3, <1>7, <1>8, <1>9, SMTT(30) DEF Trade, Exchange, BudgetInts

\* A trade of x that leaves the slots and their queue alone.
LEMMA TradeInv ==
    ASSUME Inv, NEW x \in Tasks, NEW r \in TaskRecords, Trade(x, r), r.slot <=> task[x].slot,
           task[x].pc = "queued" => r.pc = "queued", UNCHANGED <<sem, waiting>>
    PROVE  Inv'
BY TradeExchange, PlainStep, SMTT(30)

LEMMA AcquireSlotInv == ASSUME Inv, NEW x \in Tasks, AcquireSlot(x) PROVE Inv'
<1>0. TypeOK /\ Stage(x) /\ task[x].pc = "idle" /\ x \in Misses \cup Puts
  BY DEF Inv, AcquireSlot
<1>1. x \notin Stagers /\ x \notin Warms /\ task[x].bytes = 0 /\ ~ task[x].slot
  BY <1>0, BudgetAssumption DEF Stage, StageOf
<1>2. PICK n \in Weights : task' = [task EXCEPT ![x] =
                               [Idle EXCEPT !.pc = "slot", !.w = n, !.slot = TRUE]]
  BY Zenon DEF AcquireSlot, Set
<1> DEFINE r == [Idle EXCEPT !.pc = "slot", !.w = n, !.slot = TRUE]
<1>3. n \in Nat /\ n \in 0..Total /\ 0 \in 0..Total
  BY BudgetAssumption
<1>4. r \in TaskRecords /\ r.pc = "slot" /\ r.w = n /\ r.bytes = 0 /\ r.slot /\ ~ r.again
  BY <1>3, Zenon DEF Idle, TaskRecords
<1>5. task' = [task EXCEPT ![x] = r]
  BY <1>2, SMTT(30)
<1> HIDE DEF r
<1>6. StageOf(x, r)
  BY <1>0, <1>1, <1>3, <1>4, SMTT(30) DEF StageOf
<1>7. UNCHANGED <<budget, waiting>> /\ sem[Pool(x)] < MaxWrites
      /\ sem' = [sem EXCEPT ![Pool(x)] = @ + 1]
  BY SMTT(30) DEF AcquireSlot
<1>8. Trade(x, r)
  BY <1>0, <1>1, <1>4, <1>5, <1>6, <1>7, RecordFacts, SMTT(30) DEF Trade, OwedTo, BudgetInts, TypeOK
<1>9. QED
  BY <1>0, <1>1, <1>4, <1>7, <1>8, TradeExchange, SlotTaken, QueueKept, Assemble, Zenon

LEMMA AcquireBytesInv == ASSUME Inv, NEW x \in Tasks, AcquireBytes(x) PROVE Inv'
<1>0. TypeOK /\ Stage(x) /\ task[x].pc = "slot" /\ OwedToWarms \in Nat
  BY ReserveCapNat, SMTT(30) DEF Inv, AcquireBytes
<1>1. x \in Misses \cup Puts /\ x \notin Stagers /\ x \notin Warms
      /\ task[x].slot /\ task[x].bytes = 0 /\ task[x].w \in 0..Total /\ ~ task[x].again
  BY <1>0, BudgetAssumption DEF Stage, StageOf, Tasks
<1>2. CASE FitsReadMiss(task[x].w)
  <2> DEFINE r == [task[x] EXCEPT !.pc = "held", !.bytes = task[x].w]
  <2>1. /\ r \in TaskRecords /\ r.w = task[x].w /\ r.slot = task[x].slot
        /\ r.again = task[x].again /\ r.pc = "held" /\ r.bytes = task[x].w
    BY <1>0, <1>1, RecordFacts, Zenon DEF TaskRecords
  <2>2. /\ task' = [task EXCEPT ![x] = r] /\ UNCHANGED <<sem, waiting>>
        /\ budget' = [budget EXCEPT !.remaining = @ - task[x].w]
    BY <1>2 DEF AcquireBytes, Set, Take
  <2> HIDE DEF r
  <2>3. budget.remaining - task[x].w \in Nat
    BY <1>0, <1>1, <1>2, RecordFacts, SMTT(30) DEF FitsReadMiss
  <2>4. StageOf(x, r)
    BY <1>1, <2>1 DEF StageOf
  <2>5. /\ budget' \in BudgetInts /\ budget'.remaining = budget.remaining - task[x].w
        /\ budget'.pendingWarm = budget.pendingWarm
        /\ budget'.stagingInUse = budget.stagingInUse
    <3>1. budget \in BudgetInts
      BY <1>0, RecordFacts
    <3>2. QED BY <2>2, <2>3, <3>1, SMTT(30) DEF BudgetInts
  <2>6. Trade(x, r)
    BY <1>0, <1>1, <2>1, <2>2, <2>4, <2>5, RecordFacts, SMTT(30) DEF Trade, OwedTo
  <2>7. QED BY <1>0, <2>1, <2>2, <2>6, TradeInv, SMTT(30)
<1>3. CASE ~ FitsReadMiss(task[x].w)
  <2> DEFINE r == [task[x] EXCEPT !.pc = "give"]
  <2>1. /\ r \in TaskRecords /\ r.w = task[x].w /\ r.slot = task[x].slot
        /\ r.again = task[x].again /\ r.pc = "give" /\ r.bytes = task[x].bytes
    BY <1>0, <1>1, RecordFacts, Zenon DEF TaskRecords
  <2>2. task' = [task EXCEPT ![x] = r] /\ UNCHANGED <<sem, waiting, budget>>
    BY <1>3 DEF AcquireBytes, Set
  <2> HIDE DEF r
  <2>3. StageOf(x, r)
    BY <1>1, <2>1, SMTT(30) DEF StageOf
  <2>4. Trade(x, r)
    BY <1>0, <1>1, <2>1, <2>2, <2>3, RecordFacts, SMTT(30) DEF Trade, OwedTo, BudgetInts, TypeOK
  <2>5. QED BY <1>0, <2>1, <2>2, <2>4, TradeInv, SMTT(30)
<1>4. QED BY <1>2, <1>3
LEMMA StartWarmInv == ASSUME Inv, NEW x \in Tasks, StartWarm(x) PROVE Inv'
<1>0. /\ TypeOK /\ x \in Warms /\ x \notin Stagers /\ x \notin Misses \cup Puts
      /\ task[x].pc = "idle" /\ task[x].bytes = 0 /\ ~ task[x].slot
  BY BudgetAssumption DEF Inv, StartWarm, Stage, StageOf
<1>1. WriterWeight \in Nat /\ 0 \in 0..Total /\ Total \in Nat
  BY BudgetAssumption
<1> DEFINE r == [Idle EXCEPT !.pc = "acquire", !.w = WriterWeight]
<1>2. r \in TaskRecords /\ r.pc = "acquire" /\ r.bytes = 0 /\ ~ r.slot /\ ~ r.again
  BY <1>0, <1>1, RecordFacts, Zenon DEF TaskRecords, Idle
<1>3. /\ task' = [task EXCEPT ![x] = r] /\ UNCHANGED <<sem, waiting, budget>>
  BY <1>0, <1>1 DEF StartWarm, Set
<1> HIDE DEF r
<1>4. StageOf(x, r)
  BY <1>0, <1>2 DEF StageOf
<1>6. Trade(x, r)
  BY <1>0, <1>2, <1>3, <1>4, RecordFacts, SMTT(30) DEF Trade, OwedTo
<1>7. QED BY <1>0, <1>2, <1>3, <1>6, TradeInv, SMTT(30)

LEMMA AcquireWarmInv == ASSUME Inv, NEW x \in Tasks, AcquireWarm(x) PROVE Inv'
<1>0. /\ TypeOK /\ x \in Warms /\ x \notin Stagers /\ x \notin Misses \cup Puts
      /\ task[x].pc = "acquire" /\ task[x].bytes = 0 /\ ~ task[x].slot
  BY BudgetAssumption DEF Inv, AcquireWarm, Stage, StageOf, Tasks
<1>1. CASE Set(x, [Idle EXCEPT !.pc = "declined"]) /\ UNCHANGED budget
  <2> DEFINE r == [Idle EXCEPT !.pc = "declined"]
  <2>1. r \in TaskRecords /\ r.pc = "declined" /\ r.bytes = 0 /\ ~ r.slot /\ ~ r.again
    BY <1>0, <1>1, RecordFacts, Zenon DEF TaskRecords, Idle
  <2>2. /\ task' = [task EXCEPT ![x] = r] /\ UNCHANGED <<sem, waiting, budget>>
    BY <1>0, <1>1 DEF AcquireWarm, Set
  <2> HIDE DEF r
  <2>3. StageOf(x, r)
    BY <1>0, <1>1, <2>1, RecordFacts, SMTT(30) DEF StageOf
  <2>6. Trade(x, r)
    BY <1>0, <1>1, <2>1, <2>2, <2>3, RecordFacts, SMTT(30) DEF Trade, OwedTo
  <2>7. QED BY <1>0, <1>1, <2>1, <2>2, <2>6, TradeInv, SMTT(30)
<1>2. CASE /\ task[x].w <= Total /\ budget.remaining >= task[x].w /\ Take(task[x].w)
           /\ Set(x, [task[x] EXCEPT !.pc = "seek", !.bytes = task[x].w])
  <2>0. task[x].w \in 0..Total
    BY <1>0, <1>2, RecordFacts
  <2> DEFINE r == [task[x] EXCEPT !.pc = "seek", !.bytes = task[x].w]
  <2>1. r \in TaskRecords /\ r.pc = "seek" /\ r.bytes = task[x].w /\ r.slot = task[x].slot
    BY <1>0, <1>2, <2>0, RecordFacts, ZenonT(60) DEF TaskRecords, Idle
  <2>2. /\ task' = [task EXCEPT ![x] = r] /\ UNCHANGED <<sem, waiting>>
        /\ budget' = [budget EXCEPT !.remaining = @ - task[x].w]
    BY <1>0, <1>2, <2>0 DEF AcquireWarm, Set, Take
  <2> HIDE DEF r
  <2>3. StageOf(x, r)
    BY <1>0, <1>2, <2>0, <2>1, RecordFacts, SMTT(30) DEF StageOf
  <2>4. budget.remaining - task[x].w \in Nat
    BY <1>0, <1>2, <2>0, RecordFacts, SMTT(30)
  <2>5. budget' \in BudgetInts /\ budget'.remaining = budget.remaining - task[x].w
        /\ budget'.stagingInUse = budget.stagingInUse /\ budget'.pendingWarm = budget.pendingWarm
    <3>1. budget \in BudgetInts
      BY <1>0, RecordFacts
    <3>2. QED BY <2>2, <2>4, <3>1, SMTT(30) DEF BudgetInts
  <2>6. Trade(x, r)
    BY <1>0, <1>2, <2>0, <2>1, <2>2, <2>3, <2>5, RecordFacts, SMTT(30) DEF Trade, OwedTo
  <2>7. QED BY <1>0, <1>2, <2>0, <2>1, <2>2, <2>6, TradeInv, SMTT(30)
<1>3. CASE /\ task[x].w <= Total
           /\ budget' = [budget EXCEPT !.pendingWarm = @ + task[x].w]
           /\ Set(x, [task[x] EXCEPT !.pc = "parked"])
  <2>0. task[x].w \in 0..Total
    BY <1>0, <1>3, RecordFacts
  <2> DEFINE r == [task[x] EXCEPT !.pc = "parked"]
  <2>1. r \in TaskRecords /\ r.pc = "parked" /\ r.w = task[x].w /\ r.bytes = task[x].bytes
        /\ r.slot = task[x].slot
    BY <1>0, <1>3, <2>0, RecordFacts, Zenon DEF TaskRecords, Idle
  <2>2. /\ task' = [task EXCEPT ![x] = r] /\ UNCHANGED <<sem, waiting>>
        /\ budget' = [budget EXCEPT !.pendingWarm = @ + task[x].w]
    BY <1>0, <1>3, <2>0 DEF AcquireWarm, Set
  <2> HIDE DEF r
  <2>3. StageOf(x, r)
    BY <1>0, <1>3, <2>0, <2>1, RecordFacts, SMTT(30) DEF StageOf
  <2>4. budget.pendingWarm + task[x].w \in Int
    BY <1>0, <1>3, <2>0, RecordFacts, SMTT(30)
  <2>5. budget' \in BudgetInts /\ budget'.remaining = budget.remaining
        /\ budget'.stagingInUse = budget.stagingInUse
        /\ budget'.pendingWarm = budget.pendingWarm + task[x].w
    <3>1. budget \in BudgetInts
      BY <1>0, RecordFacts
    <3>2. QED BY <2>2, <2>4, <3>1, SMTT(30) DEF BudgetInts
  <2>6. Trade(x, r)
    BY <1>0, <1>3, <2>0, <2>1, <2>2, <2>3, <2>5, RecordFacts, SMTT(30) DEF Trade, OwedTo
  <2>7. QED BY <1>0, <1>3, <2>0, <2>1, <2>2, <2>6, TradeInv, SMTT(30)
<1>4. QED BY <1>1, <1>2, <1>3, SMTT(30) DEF AcquireWarm

LEMMA WarmWakesInv == ASSUME Inv, NEW x \in Tasks, WarmWakes(x) PROVE Inv'
<1>0. /\ TypeOK /\ x \in Warms /\ x \notin Stagers /\ x \notin Misses \cup Puts
      /\ task[x].pc = "woken" /\ task[x].bytes = 0 /\ ~ task[x].slot
      /\ task[x].w \in 0..Total
  BY BudgetAssumption DEF Inv, WarmWakes, Stage, StageOf, Tasks
<1>1. CASE /\ budget.remaining >= task[x].w
           /\ budget' = [budget EXCEPT !.remaining = @ - task[x].w,
                                       !.pendingWarm = @ - task[x].w]
           /\ Set(x, [task[x] EXCEPT !.pc = "seek", !.bytes = task[x].w])
  <2> DEFINE r == [task[x] EXCEPT !.pc = "seek", !.bytes = task[x].w]
  <2>1. r \in TaskRecords /\ r.pc = "seek" /\ r.bytes = task[x].w /\ r.slot = task[x].slot
    BY <1>0, <1>1, RecordFacts, ZenonT(60) DEF TaskRecords, Idle
  <2>2. /\ task' = [task EXCEPT ![x] = r] /\ UNCHANGED <<sem, waiting>>
        /\ budget' = [budget EXCEPT !.remaining = @ - task[x].w,
                                    !.pendingWarm = @ - task[x].w]
    BY <1>0, <1>1 DEF WarmWakes, Set
  <2> HIDE DEF r
  <2>3. StageOf(x, r)
    BY <1>0, <1>1, <2>1, RecordFacts DEF StageOf
  <2>4. budget.remaining - task[x].w \in Nat /\ budget.pendingWarm - task[x].w \in Int
    BY <1>0, <1>1, RecordFacts
  <2>5. budget' \in BudgetInts /\ budget'.remaining = budget.remaining - task[x].w
        /\ budget'.stagingInUse = budget.stagingInUse
        /\ budget'.pendingWarm = budget.pendingWarm - task[x].w
    <3>1. budget \in BudgetInts
      BY <1>0, RecordFacts
    <3>2. QED BY <2>2, <2>4, <3>1, Zenon DEF BudgetInts
  <2>6. Trade(x, r)
    BY <1>0, <1>1, <2>1, <2>2, <2>3, <2>5, RecordFacts DEF Trade, OwedTo
  <2>7. QED BY <1>0, <1>1, <2>1, <2>2, <2>6, TradeInv, SMTT(30)
<1>2. CASE /\ budget' = [budget EXCEPT !.pendingWarm = @ - task[x].w]
           /\ Set(x, [Idle EXCEPT !.pc = "declined"])
  <2> DEFINE r == [Idle EXCEPT !.pc = "declined"]
  <2>1. r \in TaskRecords /\ r.pc = "declined" /\ r.bytes = 0 /\ ~ r.slot /\ ~ r.again
    BY <1>0, <1>2, RecordFacts, Zenon DEF TaskRecords, Idle
  <2>2. /\ task' = [task EXCEPT ![x] = r] /\ UNCHANGED <<sem, waiting>>
        /\ budget' = [budget EXCEPT !.pendingWarm = @ - task[x].w]
    BY <1>0, <1>2 DEF WarmWakes, Set
  <2> HIDE DEF r
  <2>3. StageOf(x, r)
    BY <1>0, <1>2, <2>1, RecordFacts, SMTT(30) DEF StageOf
  <2>4. budget.pendingWarm - task[x].w \in Int
    BY <1>0, <1>2, RecordFacts
  <2>5. budget' \in BudgetInts /\ budget'.remaining = budget.remaining
        /\ budget'.stagingInUse = budget.stagingInUse
        /\ budget'.pendingWarm = budget.pendingWarm - task[x].w
    <3>1. budget \in BudgetInts
      BY <1>0, RecordFacts
    <3>2. QED BY <2>2, <2>4, <3>1, SMTT(30) DEF BudgetInts
  <2>6. Trade(x, r)
    BY <1>0, <1>2, <2>1, <2>2, <2>3, <2>5, RecordFacts, SMTT(30) DEF Trade, OwedTo
  <2>7. QED BY <1>0, <1>2, <2>1, <2>2, <2>6, TradeInv, SMTT(30)
<1>3. CASE Set(x, [task[x] EXCEPT !.pc = "parked"]) /\ UNCHANGED budget
  <2> DEFINE r == [task[x] EXCEPT !.pc = "parked"]
  <2>1. r \in TaskRecords /\ r.pc = "parked" /\ r.w = task[x].w /\ r.bytes = task[x].bytes
        /\ r.slot = task[x].slot
    BY <1>0, <1>3, RecordFacts, ZenonT(60) DEF TaskRecords, Idle
  <2>2. /\ task' = [task EXCEPT ![x] = r] /\ UNCHANGED <<sem, waiting, budget>>
    BY <1>0, <1>3 DEF WarmWakes, Set
  <2> HIDE DEF r
  <2>3. StageOf(x, r)
    BY <1>0, <1>3, <2>1, RecordFacts DEF StageOf
  <2>6. Trade(x, r)
    BY <1>0, <1>3, <2>1, <2>2, <2>3, RecordFacts, SMTT(30) DEF Trade, OwedTo
  <2>7. QED BY <1>0, <1>3, <2>1, <2>2, <2>6, TradeInv, SMTT(30)
<1>4. QED BY <1>1, <1>2, <1>3, SMTT(30) DEF WarmWakes

LEMMA DeadlinePassesInv == ASSUME Inv, NEW x \in Tasks, DeadlinePasses(x) PROVE Inv'
<1>0. TypeOK /\ Stage(x)
  BY DEF Inv
<1> DEFINE r == [task[x] EXCEPT !.expired = TRUE]
<1>1. r \in TaskRecords /\ r.pc = task[x].pc /\ r.w = task[x].w /\ r.bytes = task[x].bytes
      /\ r.slot = task[x].slot /\ r.again = task[x].again
  BY <1>0, RecordFacts, Zenon DEF TaskRecords, Idle
<1>2. /\ task' = Woken([task EXCEPT ![x] = r]) /\ UNCHANGED <<sem, waiting, budget>>
  BY <1>0, SMTT(30) DEF DeadlinePasses
<1> HIDE DEF r
<1>3. StageOf(x, r)
  BY <1>0, <1>1, RecordFacts, SMTT(30) DEF Stage, StageOf
<1>6. Trade(x, r)
  BY <1>0, <1>1, <1>2, <1>3, RecordFacts, SMTT(30) DEF Trade, OwedTo
<1>7. QED BY <1>0, <1>1, <1>2, <1>6, TradeInv, SMTT(30)

LEMMA TakeScratchInv == ASSUME Inv, NEW x \in Tasks, TakeScratch(x) PROVE Inv'
<1>0. /\ TypeOK /\ x \in Misses \cup Warms /\ x \notin Stagers
      /\ task[x].pc = "held" /\ task[x].slot /\ (task[x].again => x \in Warms)
      /\ OwedToWarms \in Nat /\ task[x].bytes + budget.remaining <= Total
  BY BudgetAssumption, ReserveCapNat, HeldFits, SMTT(30) DEF Inv, TakeScratch, Stage, StageOf
<1>1. CASE /\ budget.remaining >= BlockSize /\ Take(BlockSize)
           /\ Set(x, [task[x] EXCEPT !.w = @ + BlockSize, !.bytes = @ + BlockSize])
  <2>0. task[x].w + BlockSize \in Nat /\ task[x].bytes + BlockSize \in 0..Total
    BY <1>0, <1>1, RecordFacts
  <2> DEFINE r == [task[x] EXCEPT !.w = @ + BlockSize, !.bytes = @ + BlockSize]
  <2>1. r \in TaskRecords /\ r.pc = task[x].pc /\ r.bytes = task[x].bytes + BlockSize
        /\ r.slot = task[x].slot /\ r.again = task[x].again
    BY <1>0, <1>1, <2>0, RecordFacts, Zenon DEF TaskRecords, Idle
  <2>2. /\ task' = [task EXCEPT ![x] = r] /\ UNCHANGED <<sem, waiting>>
        /\ budget' = [budget EXCEPT !.remaining = @ - BlockSize]
    BY <1>0, <1>1, <2>0, SMTT(30) DEF TakeScratch, Set, Take
  <2> HIDE DEF r
  <2>3. StageOf(x, r)
    BY <1>0, <1>1, <2>0, <2>1, RecordFacts, SMTT(30) DEF StageOf
  <2>4. budget.remaining - BlockSize \in Nat
    BY <1>0, <1>1, <2>0, RecordFacts, SMTT(30)
  <2>5. budget' \in BudgetInts /\ budget'.remaining = budget.remaining - BlockSize
        /\ budget'.stagingInUse = budget.stagingInUse /\ budget'.pendingWarm = budget.pendingWarm
    <3>1. budget \in BudgetInts
      BY <1>0, RecordFacts, SMTT(30)
    <3>2. QED BY <2>2, <2>4, <3>1, SMTT(30) DEF BudgetInts
  <2>6. Trade(x, r)
    BY <1>0, <1>1, <2>0, <2>1, <2>2, <2>3, <2>5, RecordFacts, SMTT(30) DEF Trade, OwedTo
  <2>7. QED BY <1>0, <1>1, <2>0, <2>1, <2>2, <2>6, TradeInv, Zenon
<1>2. CASE /\ Set(x, [task[x] EXCEPT !.pc = "release", !.again = x \in Warms])
           /\ UNCHANGED budget
  <2>0. (x \in Warms) \in BOOLEAN
    OBVIOUS
  <2> DEFINE r == [task[x] EXCEPT !.pc = "release", !.again = x \in Warms]
  <2>1. r \in TaskRecords /\ r.pc = "release" /\ r.bytes = task[x].bytes
        /\ r.slot = task[x].slot /\ r.again = (x \in Warms)
    BY <1>0, <1>2, <2>0, RecordFacts, ZenonT(60) DEF TaskRecords, Idle
  <2>2. /\ task' = [task EXCEPT ![x] = r] /\ UNCHANGED <<sem, waiting, budget>>
    BY <1>0, <1>2, <2>0, SMTT(30) DEF TakeScratch, Set
  <2> HIDE DEF r
  <2>3. StageOf(x, r)
    BY <1>0, <1>2, <2>0, <2>1, RecordFacts, SMTT(30) DEF StageOf
  <2>6. Trade(x, r)
    BY <1>0, <1>2, <2>0, <2>1, <2>2, <2>3, RecordFacts, SMTT(30) DEF Trade, OwedTo
  <2>7. QED BY <1>0, <1>2, <2>0, <2>1, <2>2, <2>6, TradeInv, Zenon
<1>3. FitsReadMiss(BlockSize) => budget.remaining >= BlockSize
  BY <1>0, RecordFacts DEF FitsReadMiss
<1>4. QED BY <1>1, <1>2, <1>3, SMTT(30) DEF TakeScratch

LEMMA ReleaseBytesInv == ASSUME Inv, NEW x \in Tasks, ReleaseBytes(x) PROVE Inv'
<1>0. /\ TypeOK /\ Stage(x) /\ x \notin Stagers /\ task[x].pc \in {"held", "release"}
      /\ task[x].slot
  BY DEF Inv, ReleaseBytes, Stage, StageOf
<1> DEFINE r == [task[x] EXCEPT !.pc = "give", !.bytes = 0]
<1>1. r \in TaskRecords /\ r.pc = "give" /\ r.bytes = 0
      /\ r.slot = task[x].slot /\ r.again = task[x].again
  BY <1>0, RecordFacts, Zenon DEF TaskRecords, Idle
<1>2. /\ task' = Woken([task EXCEPT ![x] = r]) /\ UNCHANGED <<sem, waiting>>
      /\ budget' = [budget EXCEPT !.remaining = @ + task[x].bytes]
  BY <1>0, SMTT(30) DEF ReleaseBytes, Release
<1> HIDE DEF r
<1>3. StageOf(x, r)
  BY <1>0, <1>1, RecordFacts, SMTT(30) DEF Stage, StageOf
<1>4. budget.remaining + task[x].bytes \in Nat
  BY <1>0, RecordFacts, SMTT(30)
<1>5. budget' \in BudgetInts /\ budget'.remaining = budget.remaining + task[x].bytes
      /\ budget'.stagingInUse = budget.stagingInUse /\ budget'.pendingWarm = budget.pendingWarm
  <2>1. budget \in BudgetInts
    BY <1>0, RecordFacts
  <2>2. QED BY <1>2, <1>4, <2>1, SMTT(30) DEF BudgetInts
<1>6. Trade(x, r)
  BY <1>0, <1>1, <1>2, <1>3, <1>5, RecordFacts, SMTT(30) DEF Trade, OwedTo
<1>7. QED BY <1>0, <1>1, <1>2, <1>6, TradeInv, Zenon

LEMMA AcquireStagingInv == ASSUME Inv, NEW x \in Tasks, AcquireStaging(x) PROVE Inv'
<1>0. /\ TypeOK /\ x \in Stagers /\ x \notin Warms /\ x \notin Misses \cup Puts
      /\ task[x].pc = "idle" /\ task[x].bytes = 0 /\ ~ task[x].slot /\ OwedToWarms \in Nat
  BY BudgetAssumption, ReserveCapNat, SMTT(30) DEF Inv, AcquireStaging, Stage, StageOf
<1>1. PICK n \in Weights :
        /\ budget.stagingInUse + n <= StagingCap /\ budget.remaining >= n
        /\ budget' = [budget EXCEPT !.remaining = @ - n, !.stagingInUse = @ + n]
        /\ Set(x, [Idle EXCEPT !.pc = "held", !.w = n, !.bytes = n])
  <2>1. \A n \in Weights : FitsReadMiss(n) => budget.remaining >= n
    BY <1>0, RecordFacts, BudgetAssumption, SMTT(30) DEF FitsReadMiss
  <2>2. QED BY <2>1, Zenon DEF AcquireStaging
<1>2. n \in Nat /\ n \in 0..Total
  BY BudgetAssumption
<1>3. Inv'
  <2> DEFINE r == [Idle EXCEPT !.pc = "held", !.w = n, !.bytes = n]
  <2>1. r \in TaskRecords /\ r.pc = "held" /\ r.bytes = n /\ ~ r.slot /\ ~ r.again
    BY <1>0, <1>1, <1>2, RecordFacts, Zenon DEF TaskRecords, Idle
  <2>2. /\ task' = [task EXCEPT ![x] = r] /\ UNCHANGED <<sem, waiting>>
        /\ budget' = [budget EXCEPT !.remaining = @ - n, !.stagingInUse = @ + n]
    BY <1>0, <1>1, <1>2, Zenon DEF AcquireStaging, Set
  <2> HIDE DEF r
  <2>3. StageOf(x, r)
    BY <1>0, <1>1, <1>2, <2>1, RecordFacts DEF StageOf
  <2>4. budget.remaining - n \in Nat /\ budget.stagingInUse + n \in Int
    BY <1>0, <1>1, <1>2, RecordFacts
  <2>5. budget' \in BudgetInts /\ budget'.remaining = budget.remaining - n
        /\ budget'.stagingInUse = budget.stagingInUse + n
        /\ budget'.pendingWarm = budget.pendingWarm
    <3>1. budget \in BudgetInts
      BY <1>0, RecordFacts
    <3>2. QED BY <2>2, <2>4, <3>1, Zenon DEF BudgetInts
  <2>6. Trade(x, r)
    BY <1>0, <1>1, <1>2, <2>1, <2>2, <2>3, <2>5, RecordFacts DEF Trade, OwedTo
  <2>7. QED BY <1>0, <1>1, <1>2, <2>1, <2>2, <2>6, TradeInv, SMTT(30)
<1>4. QED BY <1>3

LEMMA ReleaseStagingInv == ASSUME Inv, NEW x \in Tasks, ReleaseStaging(x) PROVE Inv'
<1>0. /\ TypeOK /\ x \in Stagers /\ x \notin Warms /\ x \notin Misses \cup Puts
      /\ task[x].pc = "held" /\ ~ task[x].slot
  BY BudgetAssumption DEF Inv, ReleaseStaging, Stage, StageOf
<1> DEFINE r == Idle
<1>1. r \in TaskRecords /\ r.pc = "idle" /\ r.bytes = 0 /\ ~ r.slot /\ ~ r.again
  BY <1>0, RecordFacts, Zenon DEF TaskRecords, Idle
<1>2. /\ task' = Woken([task EXCEPT ![x] = r]) /\ UNCHANGED <<sem, waiting>>
      /\ budget' = [budget EXCEPT !.remaining = @ + task[x].bytes,
                                  !.stagingInUse = @ - task[x].bytes]
  BY <1>0, SMTT(30) DEF ReleaseStaging
<1> HIDE DEF r
<1>3. StageOf(x, r)
  BY <1>0, <1>1, RecordFacts, SMTT(30) DEF StageOf
<1>4. /\ budget.remaining + task[x].bytes \in Nat
      /\ budget.stagingInUse - task[x].bytes \in Int
  BY <1>0, RecordFacts
<1>5. budget' \in BudgetInts /\ budget'.remaining = budget.remaining + task[x].bytes
      /\ budget'.stagingInUse = budget.stagingInUse - task[x].bytes
      /\ budget'.pendingWarm = budget.pendingWarm
  <2>1. budget \in BudgetInts
    BY <1>0, RecordFacts
  <2>2. QED BY <1>2, <1>4, <2>1, Zenon DEF BudgetInts
<1>6. Trade(x, r)
  BY <1>0, <1>1, <1>2, <1>3, <1>5, RecordFacts DEF Trade, OwedTo
<1>7. QED BY <1>0, <1>1, <1>2, <1>6, TradeInv, SMTT(30)

LEMMA SeekSlotInv == ASSUME Inv, NEW x \in Tasks, SeekSlot(x) PROVE Inv'
<1>0. /\ TypeOK /\ x \in Warms /\ x \notin Stagers /\ x \notin Puts
      /\ x \notin Misses \cup Puts /\ task[x].pc = "seek" /\ ~ task[x].slot
      /\ Pool(x) = "cache" /\ Queue /\ UNCHANGED budget
  BY BudgetAssumption, SMTT(30) DEF Inv, SeekSlot, Stage, StageOf, Tasks, Pool
<1>1. CASE sem["cache"] < MaxWrites
  <2> DEFINE r == [task[x] EXCEPT !.pc = "held", !.slot = TRUE]
  <2>1. /\ r \in TaskRecords /\ r.pc = "held" /\ r.slot /\ r.bytes = task[x].bytes
        /\ r.again = task[x].again
    BY <1>0, RecordFacts, ZenonT(60) DEF TaskRecords
  <2>2. /\ task' = [task EXCEPT ![x] = r] /\ UNCHANGED waiting
        /\ sem[Pool(x)] < MaxWrites /\ sem' = [sem EXCEPT ![Pool(x)] = @ + 1]
    BY <1>0, <1>1, SMTT(30) DEF SeekSlot, Set
  <2> HIDE DEF r
  <2>3. StageOf(x, r)
    BY <1>0, <2>1, SMTT(30) DEF StageOf
  <2>4. Trade(x, r)
    BY <1>0, <2>1, <2>2, <2>3, RecordFacts, SMTT(30) DEF Trade, OwedTo
  <2>5. /\ Exchange(x) /\ task'[x].slot /\ \A y \in Tasks \ {x} : Keeps(y)
    BY <2>1, <2>4, TradeExchange, SMTT(30)
  <2>6. QED BY <1>0, <2>2, <2>5, SlotTaken, QueueKept, Assemble, Zenon
<1>2. CASE ~(sem["cache"] < MaxWrites)
  <2> DEFINE r == [task[x] EXCEPT !.pc = "queued"]
  <2>1. /\ r \in TaskRecords /\ r.pc = "queued" /\ r.slot = task[x].slot
        /\ r.bytes = task[x].bytes /\ r.again = task[x].again
    BY <1>0, RecordFacts, Zenon DEF TaskRecords
  <2>2. /\ task' = [task EXCEPT ![x] = r] /\ UNCHANGED sem /\ waiting' = Append(waiting, x)
    BY <1>2 DEF SeekSlot, Set
  <2> HIDE DEF r
  <2>3. StageOf(x, r)
    BY <1>0, <2>1, SMTT(30) DEF StageOf
  <2>4. Trade(x, r)
    BY <1>0, <2>1, <2>2, <2>3, RecordFacts, SMTT(30) DEF Trade, OwedTo
  <2>5. /\ Exchange(x) /\ (task'[x].slot <=> task[x].slot) /\ task'[x].pc = "queued"
        /\ \A y \in Tasks \ {x} : Keeps(y)
    BY <2>1, <2>4, TradeExchange, SMTT(30)
  <2>6. /\ waiting \in Seq(Warms) /\ waiting' \in Seq(Warms) /\ Len(waiting) \in Nat
        /\ Len(waiting') = Len(waiting) + 1 /\ waiting'[Len(waiting) + 1] = x
        /\ \A i \in 1..Len(waiting) : /\ waiting'[i] = waiting[i]
                                      /\ waiting[i] \in Tasks /\ waiting[i] # x
    BY <1>0, <2>2, AppendProperties, LenProperties, SMTT(30) DEF TypeOK, Queue, Tasks
  <2>7. \A i \in 1..Len(waiting') : i \in 1..Len(waiting) \/ i = Len(waiting) + 1
    BY <2>6
  <2>8. Queue'
    <3>1. ASSUME NEW i \in 1..Len(waiting') PROVE task'[waiting'[i]].pc = "queued"
      BY <1>0, <2>5, <2>6, <2>7, SMTT(30) DEF Queue, Keeps
    <3>2. ASSUME NEW i \in 1..Len(waiting'), NEW j \in 1..Len(waiting'),
                 waiting'[i] = waiting'[j]
          PROVE  i = j
      BY <1>0, <2>6, <2>7, <3>2, SMTT(30) DEF Queue
    <3>3. QED BY <3>1, <3>2 DEF Queue
  <2>9. QED BY <2>2, <2>5, <2>6, <2>8, SlotKept, Assemble, SMTT(30)
<1>3. QED BY <1>1, <1>2, SMTT(30)

LEMMA SlotTimeoutInv == ASSUME Inv, NEW x \in Tasks, SlotTimeout(x) PROVE Inv'
<1>0. /\ TypeOK /\ x \in Warms /\ x \notin Stagers /\ x \notin Misses \cup Puts
      /\ task[x].pc \in {"seek", "queued"} /\ ~ task[x].slot /\ Queue
  BY BudgetAssumption DEF Inv, SlotTimeout, Stage, StageOf, Tasks
<1> DEFINE r == [Idle EXCEPT !.pc = "declined"]
<1>1. r \in TaskRecords /\ r.pc = "declined" /\ r.bytes = 0 /\ ~ r.slot /\ ~ r.again
  BY IdleRecord
<1>2. /\ task' = Woken([task EXCEPT ![x] = r]) /\ UNCHANGED sem
      /\ budget' = [budget EXCEPT !.remaining = @ + task[x].bytes]
  BY DEF SlotTimeout, Release
<1> HIDE DEF r
<1>3. StageOf(x, r)
  BY <1>0, <1>1 DEF StageOf
<1>4. budget.remaining + task[x].bytes \in Nat /\ budget \in BudgetInts
  BY <1>0, RecordFacts
<1>5. /\ budget' \in BudgetInts /\ budget'.remaining = budget.remaining + task[x].bytes
      /\ budget'.stagingInUse = budget.stagingInUse
      /\ budget'.pendingWarm = budget.pendingWarm
  BY <1>2, <1>4 DEF BudgetInts
<1>6. Trade(x, r)
  BY <1>0, <1>1, <1>2, <1>3, <1>5, RecordFacts, SMTT(30) DEF Trade, OwedTo
<1>7. /\ Exchange(x) /\ (task'[x].slot <=> task[x].slot)
      /\ \A y \in Tasks \ {x} : Keeps(y)
  BY <1>0, <1>1, <1>6, TradeExchange, SMTT(30)
<1>8. waiting' \in Seq(Warms) /\ Queue'
  <2>1. CASE task[x].pc = "seek" /\ UNCHANGED waiting
    BY <1>7, <2>1, QueueKept
  <2>2. CASE \E i \in 1..Len(waiting) :
               /\ waiting[i] = x
               /\ waiting' = SubSeq(waiting, 1, i - 1) \o SubSeq(waiting, i + 1, Len(waiting))
    <3>1. PICK i \in 1..Len(waiting) : waiting[i] = x /\ waiting' = Without(waiting, i)
      BY <2>2, Zenon DEF Without
    <3>2. waiting \in Seq(Warms) /\ Len(waiting) \in Nat
      BY <1>0, LenProperties DEF TypeOK
    <3>3. /\ waiting' \in Seq(Warms) /\ Len(waiting') = Len(waiting) - 1
          /\ \A j \in 1..Len(waiting') : waiting'[j] = waiting[IF j < i THEN j ELSE j + 1]
      BY <3>1, <3>2, WithoutShape, Zenon
    <3> DEFINE at(j) == IF j < i THEN j ELSE j + 1
    <3>4. \A j \in 1..Len(waiting') : at(j) \in 1..Len(waiting) /\ at(j) # i
      BY <3>2, <3>3
    <3>5. \A j, k \in 1..Len(waiting') : at(j) = at(k) => j = k
      BY <3>2, <3>3
    <3>6. \A j \in 1..Len(waiting') : waiting'[j] = waiting[at(j)]
      BY <3>3, SMTT(30)
    <3> HIDE DEF at
    <3>7. ASSUME NEW j \in 1..Len(waiting') PROVE task'[waiting'[j]].pc = "queued"
      <4>1. waiting[at(j)] # x /\ waiting[at(j)] \in Tasks /\ task[waiting[at(j)]].pc = "queued"
        BY <1>0, <3>1, <3>2, <3>4, SMTT(30) DEF Queue, Tasks
      <4>2. QED BY <1>7, <3>6, <4>1, SMTT(30) DEF Keeps
    <3>8. ASSUME NEW j \in 1..Len(waiting'), NEW k \in 1..Len(waiting'),
                 waiting'[j] = waiting'[k]
          PROVE  j = k
      BY <1>0, <3>4, <3>5, <3>6, <3>8, SMTT(30) DEF Queue
    <3>9. QED BY <3>3, <3>7, <3>8 DEF Queue
  <2>3. QED BY <2>1, <2>2, Zenon DEF SlotTimeout, StopsWaiting
<1>9. QED BY <1>2, <1>7, <1>8, SlotKept, Assemble, Zenon

\* The record of an operation that has given its slot back.
LEMMA GivenRecord ==
    ASSUME Inv, NEW x \in Tasks, task[x].pc = "give"
    PROVE  LET r == IF task[x].again
                    THEN [Idle EXCEPT !.pc = "acquire", !.w = task[x].w + BlockSize]
                    ELSE [Idle EXCEPT !.pc = IF x \in Warms THEN "finished" ELSE "idle"]
           IN  /\ r \in TaskRecords /\ r.bytes = 0 /\ ~ r.slot /\ OwedTo(r) = 0
               /\ StageOf(x, r) /\ r.pc # "parked"
<1>0. TypeOK /\ StageOf(x, task[x]) /\ x \notin Stagers
  BY DEF Inv, Stage, StageOf
<1>1. CASE task[x].again
  <2>1. x \in Warms /\ x \notin Misses \cup Puts /\ task[x].w + BlockSize \in Nat
        /\ 0 \in 0..Total
    BY <1>0, <1>1, RecordFacts, BudgetAssumption DEF StageOf
  <2> DEFINE r == [Idle EXCEPT !.pc = "acquire", !.w = task[x].w + BlockSize]
  <2>2. r \in TaskRecords /\ r.pc = "acquire" /\ r.bytes = 0 /\ ~ r.slot /\ ~ r.again
    BY <2>1, Zenon DEF Idle, TaskRecords
  <2> HIDE DEF r
  <2>3. StageOf(x, r) /\ OwedTo(r) = 0
    BY <1>0, <2>1, <2>2, SMTT(30) DEF StageOf, OwedTo
  <2>4. QED BY <1>1, <2>2, <2>3, SMTT(30) DEF r
<1>2. CASE ~ task[x].again
  <2> DEFINE p == IF x \in Warms THEN "finished" ELSE "idle"
             r == [Idle EXCEPT !.pc = p]
  <2>1. p \in {"idle", "declined", "finished"}
    OBVIOUS
  <2>2. r \in TaskRecords /\ r.pc = p /\ r.bytes = 0 /\ ~ r.slot /\ ~ r.again
    BY <2>1, IdleRecord
  <2> HIDE DEF r
  <2>3. x \in Misses \cup Puts => p = "idle"
    BY BudgetAssumption, SMTT(30)
  <2>4. StageOf(x, r) /\ OwedTo(r) = 0
    BY <1>0, <2>1, <2>2, <2>3, SMTT(30) DEF StageOf, OwedTo
  <2>5. QED BY <1>2, <2>1, <2>2, <2>4, SMTT(30) DEF r
<1>3. QED BY <1>1, <1>2, SMTT(30)

\* The slot goes straight to the warm that has waited longest.
LEMMA HandOverInv ==
    ASSUME Inv, NEW x \in Tasks, task[x].pc = "give", Pool(x) = "cache", waiting # <<>>,
           NEW r \in TaskRecords, r.bytes = 0, ~ r.slot, OwedTo(r) = 0, StageOf(x, r),
           waiting' = Tail(waiting),
           task' = [[task EXCEPT ![x] = r] EXCEPT ![Head(waiting)] =
                      [@ EXCEPT !.pc = "held", !.slot = TRUE]],
           UNCHANGED <<budget, sem>>
    PROVE  Inv'
<1> DEFINE h == Head(waiting)
<1>0. /\ TypeOK /\ Queue /\ waiting \in Seq(Warms) /\ Len(waiting) \in Nat \ {0}
      /\ h = waiting[1] /\ h \in Warms /\ h \in Tasks
  BY EmptySeq, LenProperties, HeadTailProperties, SMTT(30) DEF Inv, TypeOK, Tasks
<1>1. /\ task[h].pc = "queued" /\ ~ task[h].slot /\ h # x /\ Pool(h) = "cache"
      /\ h \notin Stagers /\ h \notin Misses \cup Puts
  <2>1. task[h].pc = "queued"
    BY <1>0 DEF Queue
  <2>2. QED BY <1>0, <2>1, BudgetAssumption, SMTT(30) DEF Inv, Stage, StageOf, Pool
<1>2. task[x].slot /\ task[x].bytes = 0 /\ x \notin Stagers
  BY DEF Inv, Stage, StageOf
<1> DEFINE q == [task[h] EXCEPT !.pc = "held", !.slot = TRUE]
<1>3. /\ q \in TaskRecords /\ q.pc = "held" /\ q.slot /\ q.bytes = task[h].bytes
      /\ q.again = task[h].again
  BY <1>0, RecordFacts, Zenon DEF TaskRecords
<1>4. /\ task' \in [Tasks -> TaskRecords] /\ task'[x] = r /\ task'[h] = q
      /\ \A y \in Tasks \ {x, h} : task'[y] = task[y]
  <2>1. task \in [Tasks -> TaskRecords]
    BY <1>0 DEF TypeOK, TaskRecords
  <2>2. [task EXCEPT ![x] = r][h] = task[h]
    BY <1>0, <1>1, <2>1
  <2>3. task' = [[task EXCEPT ![x] = r] EXCEPT ![h] = q]
    BY <2>2, Zenon
  <2> HIDE DEF q, h
  <2>4. QED BY <1>0, <1>1, <1>3, <2>1, <2>3, ZenonT(60)
<1> HIDE DEF q, h
<1>5. \A y \in Tasks \ {x, h} : Keeps(y)
  BY <1>4, Zenon DEF Keeps
<1>6. sem' \in SemType /\ SlotsCounted'
  BY <1>0, <1>1, <1>2, <1>3, <1>4, <1>5, SlotPassed
<1>7. \A y \in Tasks : Stage(y)'
  <2>1. StageOf(h, q)
    BY <1>0, <1>1, <1>3 DEF StageOf, Inv, Stage
  <2>2. QED BY <1>4, <2>1 DEF Inv, Stage
<1>8. \A y \in Tasks : Bytes'[y] = Bytes[y] /\ Demand'[y] = Demand[y]
  <2>1. task'[x].bytes = task[x].bytes /\ task'[h].bytes = task[h].bytes
    BY <1>2, <1>3, <1>4
  <2>2. OwedTo(task'[x]) = OwedTo(task[x]) /\ OwedTo(task'[h]) = OwedTo(task[h])
    BY <1>1, <1>3, <1>4 DEF OwedTo
  <2>3. \A y \in Tasks : /\ task'[y].bytes = task[y].bytes
                         /\ OwedTo(task'[y]) = OwedTo(task[y])
    BY <1>4, <2>1, <2>2
  <2>4. QED BY <2>3, Zenon DEF Bytes, Demand, OwedTo
<1>9. /\ Sum(Tasks, Bytes') = Sum(Tasks, Bytes) /\ Sum(Stagers, Bytes') = Sum(Stagers, Bytes)
      /\ Sum(Warms, Demand') = Sum(Warms, Demand)
  BY <1>8, SumSame DEF Tasks
<1>10. waiting' \in Seq(Warms) /\ Queue'
  <2>1. /\ waiting' \in Seq(Warms) /\ Len(waiting') = Len(waiting) - 1
        /\ \A i \in 1..Len(waiting') : waiting'[i] = waiting[i + 1]
    BY <1>0, HeadTailProperties
  <2>2. \A i \in 1..Len(waiting') : i + 1 \in 1..Len(waiting) /\ i + 1 # 1
    BY <1>0, <2>1
  <2>3. \A i \in 1..Len(waiting') : waiting'[i] \in Tasks /\ waiting'[i] \notin {x, h}
    <3>1. TAKE i \in 1..Len(waiting')
    <3>2. waiting[i + 1] \in Warms /\ task[waiting[i + 1]].pc = "queued" /\ waiting[i + 1] # h
      BY <1>0, <2>2, SMTT(30) DEF Queue
    <3>3. QED BY <2>1, <3>2 DEF Tasks
  <2>4. \A i \in 1..Len(waiting') : task'[waiting'[i]].pc = "queued"
    BY <1>0, <1>4, <2>1, <2>2, <2>3 DEF Queue
  <2>5. \A i, j \in 1..Len(waiting') : waiting'[i] = waiting'[j] => i = j
    <3>1. TAKE i, j \in 1..Len(waiting')
    <3>2. waiting[i + 1] = waiting[j + 1] => i + 1 = j + 1
      BY <1>0, <2>2, SMTT(30) DEF Queue
    <3>3. QED BY <2>1, <3>2, <1>0
  <2>6. QED BY <2>1, <2>4, <2>5, Zenon DEF Queue
<1>11. TypeOK'
  BY <1>0, <1>4, <1>6, <1>10, Zenon DEF TypeOK, SemType, TaskRecords, StagingCap
<1>12. Accounted'
  BY <1>6, <1>9 DEF Inv, Accounted, SlotsCounted, Sum
<1>13. QED BY <1>7, <1>10, <1>11, <1>12, SMTT(30) DEF Inv

LEMMA ReleaseSlotInv == ASSUME Inv, NEW x \in Tasks, ReleaseSlot(x) PROVE Inv'
<1>0. /\ TypeOK /\ task[x].pc = "give" /\ task[x].slot /\ task[x].bytes = 0
      /\ x \notin Stagers /\ UNCHANGED budget
  BY DEF Inv, ReleaseSlot, Stage, StageOf
<1> DEFINE r == IF task[x].again
                THEN [Idle EXCEPT !.pc = "acquire", !.w = task[x].w + BlockSize]
                ELSE [Idle EXCEPT !.pc = IF x \in Warms THEN "finished" ELSE "idle"]
<1>1. /\ r \in TaskRecords /\ r.bytes = 0 /\ ~ r.slot /\ OwedTo(r) = 0
      /\ StageOf(x, r) /\ r.pc # "parked"
  BY <1>0, GivenRecord, Zenon
<1>2. GiveSlot(x, [task EXCEPT ![x] = r])
  BY SMTT(30) DEF ReleaseSlot
<1> HIDE DEF r
<1>3. CASE Pool(x) = "cache" /\ waiting # <<>>
  <2>1. /\ waiting' = Tail(waiting) /\ UNCHANGED sem
        /\ task' = [[task EXCEPT ![x] = r] EXCEPT ![Head(waiting)] =
                      [@ EXCEPT !.pc = "held", !.slot = TRUE]]
    BY <1>2, <1>3, SMTT(30) DEF GiveSlot
  <2>2. QED BY <1>0, <1>1, <1>3, <2>1, HandOverInv, Zenon
<1>4. CASE ~(Pool(x) = "cache" /\ waiting # <<>>)
  <2>1. /\ task' = [task EXCEPT ![x] = r] /\ UNCHANGED waiting
        /\ sem' = [sem EXCEPT ![Pool(x)] = @ - 1]
    BY <1>2, <1>4 DEF GiveSlot
  <2>2. Trade(x, r)
    <3>1. OwedTo(task[x]) = 0
      BY <1>0 DEF OwedTo
    <3>2. QED BY <1>0, <1>1, <2>1, <3>1, RecordFacts DEF Trade
  <2>3. /\ Exchange(x) /\ ~ task'[x].slot /\ \A y \in Tasks \ {x} : Keeps(y)
    BY <1>1, <2>2, TradeExchange, SMTT(30)
  <2>4. QED BY <1>0, <2>1, <2>3, SlotGiven, QueueKept, Assemble, Zenon
<1>5. QED BY <1>3, <1>4

-----------------------------------------------------------------------------
(* The theorems.                                                              *)

LEMMA InitInv == ASSUME Init PROVE Inv
<1>0. Total \in Nat /\ 0 \in 0..Total /\ MaxWrites \in Nat /\ StagingCap \in Nat
  BY BudgetAssumption DEF StagingCap
<1>1. PICK size \in BlockSizes :
        budget = [remaining |-> Total, pendingWarm |-> 0, stagingInUse |-> 0,
                  blockSize |-> size]
  BY DEF Init
<1>2. /\ Idle \in TaskRecords /\ Idle.pc = "idle" /\ Idle.bytes = 0 /\ ~ Idle.slot
      /\ ~ Idle.again
  BY <1>0, Zenon DEF Idle, TaskRecords
<1>3. /\ task \in [Tasks -> TaskRecords] /\ \A x \in Tasks : task[x] = Idle
      /\ waiting = <<>> /\ sem = [pool \in {"cache", "engine"} |-> 0]
  BY <1>2, SMTT(30) DEF Init
<1>4. TypeOK
  <2>1. budget \in [remaining : 0..Total, pendingWarm : Nat, stagingInUse : 0..StagingCap,
                    blockSize : BlockSizes]
    BY <1>0, <1>1
  <2>2. waiting \in Seq(Warms) /\ sem \in [{"cache", "engine"} -> 0..MaxWrites]
    BY <1>0, <1>3, EmptySeq, SMTT(30)
  <2>3. QED BY <1>3, <2>1, <2>2, SMTT(30) DEF TypeOK, TaskRecords
<1>5. Accounted
  <2>1. \A x \in Tasks : Bytes[x] = 0 /\ Demand[x] = 0
    BY <1>2, <1>3, SMTT(30) DEF Bytes, Demand
  <2>2. Sum(Tasks, Bytes) = 0 /\ Sum(Stagers, Bytes) = 0 /\ Sum(Warms, Demand) = 0
    BY <2>1, SumZero, SMTT(30) DEF Tasks
  <2>3. \A pool \in {"cache", "engine"} : SlotHolders(pool) = {}
    BY <1>2, <1>3, SMTT(30) DEF SlotHolders
  <2>4. \A pool \in {"cache", "engine"} : sem[pool] = Cardinality(SlotHolders(pool))
    BY <1>3, <2>3, FS_EmptySet, ZenonT(60)
  <2>5. QED BY <1>0, <1>1, <2>2, <2>4, SMTT(30) DEF Accounted, Sum
<1>6. \A x \in Tasks : Stage(x)
  BY <1>2, <1>3 DEF Stage, StageOf
<1>7. Queue
  <2>1. Len(waiting) = 0
    BY <1>3, EmptySeq
  <2>2. QED BY <2>1 DEF Queue
<1>8. QED BY <1>4, <1>5, <1>6, <1>7, SMTT(30) DEF Inv

LEMMA NextInv == ASSUME Inv, [Next]_vars PROVE Inv'
<1>1. CASE UNCHANGED vars
  BY <1>1, SMTT(30) DEF vars, Inv, TypeOK, Accounted, Units, Bytes, Demand, SlotHolders, Stage, StageOf,
              Queue, StagingCap
<1>2. CASE Next
  <2>1. PICK x \in Tasks : Arrive(x) \/ Proceed(x) \/ DeadlinePasses(x)
    BY <1>2 DEF Next
  <2>2. CASE Arrive(x)
    BY <2>2, AcquireSlotInv, StartWarmInv, AcquireStagingInv, TakeScratchInv, SMTT(30) DEF Arrive
  <2>3. CASE Proceed(x)
    BY <2>3, AcquireBytesInv, AcquireWarmInv, WarmWakesInv, SeekSlotInv, SlotTimeoutInv,
       ReleaseBytesInv, ReleaseSlotInv, ReleaseStagingInv, SMTT(30) DEF Proceed
  <2>4. QED BY <2>1, <2>2, <2>3, DeadlinePassesInv, SMTT(30)
<1>3. QED BY <1>1, <1>2

LEMMA SpecInv == Spec => []Inv
<1>1. Spec => Init /\ [][Next]_vars
  BY DEF Spec
<1>2. QED BY <1>1, InitInv, NextInv, PTL

\* The limiters stay in range whatever arrives: byteBudget never goes negative or
\* above its size, staging never passes its cap, and no more slots of cacheSemaphore
\* or enginePutSlots are taken than there are.
THEOREM LimitersInRange == Spec => []TypeOK
<1>1. Inv => TypeOK
  BY SMTT(30) DEF Inv
<1>2. QED BY <1>1, SpecInv, PTL

\* Accounted: every byte and slot taken by acquireCacheSlot, acquireWarm,
\* tryAcquireCacheBytes, acquireEnginePutSlot or a block serve is held by exactly
\* one operation until release gives it back, and the demand that makes read misses
\* yield is exactly that of the warms still parked.
THEOREM NothingLeaks == Spec => []Accounted
<1>1. Inv => Accounted
  BY DEF Inv
<1>2. QED BY <1>1, SpecInv, PTL
=============================================================================
