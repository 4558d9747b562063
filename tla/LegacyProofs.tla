---------------------------- MODULE LegacyProofs ----------------------------
(* The legacy coordinator for any number of requests and writers, any         *)
(* timeouts and any time: its types whatever the clocks show, the tombstone   *)
(* gate when the nodes' clocks agree.                                         *)
EXTENDS LegacyCoordination, TLAPS

USE DEF PopSteps, WriterSteps

Metas == [live: BOOLEAN, n: Nat]

\* The type of an absent entry.
LEMMA AbsentType == Absent \in Metas
BY DEF Absent, Metas

\* Every clock shows a time after 0 and not after now.
LEMMA ClockReads == ASSUME TypeOK, NEW ts \in Clock  PROVE  ts \in Nat /\ 0 < ts /\ ts <= now
BY LegacyAssumption DEF TypeOK, Clock

\* A request whose record becomes new.
LEMMA RequestBecomes ==
    ASSUME TypeOK, NEW r \in Requests, NEW new \in PopRecords, new.stamp <= now,
           pop' = [pop EXCEPT ![r] = new]
    PROVE  /\ pop' \in [Requests -> PopRecords] /\ pop'[r] = new
           /\ \A q \in Requests \ {r}: pop'[q] = pop[q]
           /\ \A q \in Requests: pop'[q].stamp <= now
BY DEF TypeOK

\* A writer whose record becomes new.
LEMMA WriterBecomes ==
    ASSUME TypeOK, NEW w \in Writers, NEW new \in WriterRecords, new.stamp <= now,
           wr' = [wr EXCEPT ![w] = new]
    PROVE  /\ wr' \in [Writers -> WriterRecords] /\ wr'[w] = new
           /\ \A v \in Writers \ {w}: wr'[v] = wr[v]
           /\ \A v \in Writers: wr'[v].stamp <= now
BY DEF TypeOK

\* Goto leaves a record at pc, or an empty one.
LEMMA GotoStep ==
    ASSUME TypeOK, NEW r \in Requests, NEW pc \in PopSteps, Goto(r, pc)
    PROVE  \E new \in PopRecords: /\ new.stamp <= now /\ new.pc = pc
                                  /\ pop' = [pop EXCEPT ![r] = new]
<1> DEFINE new == IF pc = "done" THEN NoTask("done") ELSE [pop[r] EXCEPT !.pc = pc]
<1>1. now \in Nat /\ pop[r] \in PopRecords /\ pop[r].stamp <= now
  BY DEF TypeOK
<1>2. new \in PopRecords /\ new.pc = pc /\ new.stamp \in {0, pop[r].stamp}
  BY <1>1, Zenon DEF PopRecords, NoTask
<1>3. pop' = [pop EXCEPT ![r] = new]
  BY Zenon DEF Goto
<1> HIDE DEF new
<1>4. new.stamp <= now
  BY <1>1, <1>2
<1>5. QED BY <1>2, <1>3, <1>4, Zenon

Tombs == [ts: Nat, until: Nat]

\* A tombstone put, or not, with a stamp that is not ahead of the clock.
LEMMA TombstonePuts ==
    ASSUME TypeOK, NEW ts \in Nat, ts <= now, NEW fails, TombstonePut(ts, fails)
    PROVE  /\ tomb' \in Tombs /\ tomb'.ts <= now
           /\ newest' \in Nat /\ newest' >= newest
           /\ UNCHANGED tomb \/ tomb'.until > tomb'.ts + FetchMax + WriteMax
           /\ fails \/ newest' >= ts
<1>1. CASE WriteTombstone(ts)
  <2>1. /\ tomb' = [ts |-> ts, until |-> now + FetchMax + WriteMax + Margin]
        /\ newest' = IF ts > newest THEN ts ELSE newest
    BY <1>1 DEF WriteTombstone
  <2>2. now \in Nat /\ newest \in Nat
    BY DEF TypeOK
  <2>3. now + FetchMax + WriteMax + Margin \in Nat
    BY <2>2, LegacyAssumption
  <2>4. tomb' \in Tombs /\ tomb'.ts = ts /\ tomb'.until = now + FetchMax + WriteMax + Margin
    BY <2>1, <2>3 DEF Tombs
  <2>5. newest' \in Nat /\ newest' >= newest /\ newest' >= ts
    BY <2>1, <2>2
  <2>6. tomb'.until > tomb'.ts + FetchMax + WriteMax
    BY <2>2, <2>4, LegacyAssumption
  <2>7. QED BY <2>4, <2>5, <2>6
<1>2. CASE fails /\ UNCHANGED <<tomb, newest>>
  <2>1. tomb \in Tombs /\ tomb.ts <= now /\ newest \in Nat
    BY DEF TypeOK, Tombs
  <2>2. QED BY <1>2, <2>1
<1>3. QED BY <1>1, <1>2 DEF TombstonePut
-----------------------------------------------------------------------------
(* Types, with any skew of the clocks.                                        *)

(* What a request step leaves: its record, the entry and the tombstone.       *)
LEMMA RequestTypes ==
    ASSUME TypeOK, NEW r \in Requests, RequestNext(r)
    PROVE  TypeOK'
<1>1. /\ pop[r] \in PopRecords /\ pop[r].n \in Nat /\ pop[r].stamp \in Nat
      /\ pop[r].stamp <= now /\ now \in Nat /\ upstream \in Nat
      /\ meta \in Metas /\ meta.n \in Nat
  BY DEF TypeOK, PopRecords, Metas
<1>2. /\ UNCHANGED <<now, upstream, wr, settled>>
      /\ meta' \in {meta, Absent, [live |-> TRUE, n |-> pop[r].n]}
      /\ UNCHANGED <<tomb, newest>> \/ TombstonePut(pop[r].stamp, Faults)
  BY Zenon DEF RequestNext, GetMetaWithVersion, Fetch, TombstoneGate, PutMeta,
         Abandon, RepairStart, DeleteMetaIfETag, RepairStamp, RepairTombstone,
         RepairDelete
<1>3. meta' \in Metas
  <2>1. [live |-> TRUE, n |-> pop[r].n] \in Metas
    BY <1>1, Zenon DEF Metas
  <2>2. QED BY <1>1, <1>2, <2>1, AbsentType, Zenon
<1>4. tomb' \in Tombs /\ tomb'.ts <= now /\ newest' \in Nat
  <2>1. tomb \in Tombs /\ tomb.ts <= now /\ newest \in Nat
    BY DEF TypeOK, Tombs
  <2>2. CASE UNCHANGED <<tomb, newest>>
    BY <2>1, <2>2
  <2>3. CASE TombstonePut(pop[r].stamp, Faults)
    BY <1>1, <2>3, TombstonePuts
  <2>4. QED BY <1>2, <2>2, <2>3
<1>5. PICK new \in PopRecords: new.stamp <= now /\ pop' = [pop EXCEPT ![r] = new]
  <2>1. CASE GetMetaWithVersion(r)
    <3>1. PICK stamp \in Clock:
            pop' = [pop EXCEPT ![r] = [pc |-> "fetch", stamp |-> stamp, n |-> 0,
                                       by |-> now + FetchMax + WriteMax]]
      BY <2>1, Zenon DEF GetMetaWithVersion
    <3>2. stamp \in Nat /\ stamp <= now /\ now + FetchMax + WriteMax \in Nat
      BY <1>1, ClockReads, LegacyAssumption
    <3>3. [pc |-> "fetch", stamp |-> stamp, n |-> 0, by |-> now + FetchMax + WriteMax]
            \in PopRecords
      BY <3>2 DEF PopRecords
    <3>4. QED BY <3>1, <3>2, <3>3, Zenon
  <2>2. CASE Fetch(r)
    <3>1. pop' = [pop EXCEPT ![r] = [pop[r] EXCEPT !.pc = "gate", !.n = upstream]]
      BY <2>2, Zenon DEF Fetch
    <3>2. /\ [pop[r] EXCEPT !.pc = "gate", !.n = upstream] \in PopRecords
          /\ [pop[r] EXCEPT !.pc = "gate", !.n = upstream].stamp = pop[r].stamp
      BY <1>1, Zenon DEF PopRecords
    <3>3. QED BY <1>1, <3>1, <3>2, Zenon
  <2>3. CASE RepairStart(r)
    <3>1. pop' = [pop EXCEPT ![r] = [pop[r] EXCEPT !.pc = "compare", !.n = meta.n]]
      BY <2>3, Zenon DEF RepairStart
    <3>2. /\ [pop[r] EXCEPT !.pc = "compare", !.n = meta.n] \in PopRecords
          /\ [pop[r] EXCEPT !.pc = "compare", !.n = meta.n].stamp = pop[r].stamp
      BY <1>1, Zenon DEF PopRecords
    <3>3. QED BY <1>1, <3>1, <3>2, Zenon
  <2>4. CASE RepairStamp(r)
    <3>1. PICK ts \in Clock:
            pop' = [pop EXCEPT ![r] = [pop[r] EXCEPT !.pc = "tomb", !.stamp = ts]]
      BY <2>4, Zenon DEF RepairStamp
    <3>2. ts \in Nat /\ ts <= now
      BY ClockReads
    <3>3. /\ [pop[r] EXCEPT !.pc = "tomb", !.stamp = ts] \in PopRecords
          /\ [pop[r] EXCEPT !.pc = "tomb", !.stamp = ts].stamp = ts
      BY <1>1, <3>2, Zenon DEF PopRecords
    <3>4. QED BY <3>1, <3>2, <3>3, Zenon
  <2>5. CASE \E pc \in PopSteps: Goto(r, pc)
    <3>1. PICK pc \in PopSteps: Goto(r, pc)
      BY <2>5
    <3>2. \E new \in PopRecords: /\ new.stamp <= now /\ new.pc = pc
                                 /\ pop' = [pop EXCEPT ![r] = new]
      BY <3>1, GotoStep
    <3>3. QED BY <3>2, Zenon
  <2>6. \/ GetMetaWithVersion(r) \/ Fetch(r) \/ RepairStart(r) \/ RepairStamp(r)
        \/ \E pc \in PopSteps: Goto(r, pc)
    BY DEF RequestNext, TombstoneGate, PutMeta, Abandon,
           DeleteMetaIfETag, RepairTombstone, RepairDelete
  <2>7. QED BY <2>1, <2>2, <2>3, <2>4, <2>5, <2>6, Zenon
<1>6. pop' \in [Requests -> PopRecords] /\ \A q \in Requests: pop'[q].stamp <= now
  BY <1>5, RequestBecomes, Zenon
<1>7. QED BY <1>2, <1>3, <1>4, <1>6, Zenon DEF TypeOK, Metas, Tombs

\* The steps of a mutating request.
LEMMA WriterTypes ==
    ASSUME TypeOK, NEW w \in Writers, WriterNext(w)
    PROVE  TypeOK'
<1>1. /\ wr[w] \in WriterRecords /\ wr[w].n \in Nat /\ wr[w].stamp \in Nat
      /\ wr[w].stamp <= now /\ now \in Nat /\ upstream \in Nat /\ settled \in Nat
      /\ meta \in Metas
  BY DEF TypeOK, WriterRecords, Metas
<1>2. /\ UNCHANGED <<now, pop>>
      /\ upstream' \in {upstream, upstream + 1}
      /\ meta' \in {meta, Absent}
      /\ UNCHANGED <<tomb, newest>> \/ \E fails \in BOOLEAN: TombstonePut(wr[w].stamp, fails)
      /\ settled' \in {settled, wr[w].n}
  BY LegacyAssumption, Zenon DEF WriterNext, PreForwardInvalidate, TombstoneStamp,
     DeleteMetaTombstone, DeleteMetaDelete, ForwardApplied, ForwardRejected
<1>3. upstream' \in Nat /\ settled' \in Nat
  BY <1>1, <1>2
<1>4. meta' \in Metas
  BY <1>1, <1>2, AbsentType
<1>5. tomb' \in Tombs /\ tomb'.ts <= now /\ newest' \in Nat
  <2>1. tomb \in Tombs /\ tomb.ts <= now /\ newest \in Nat
    BY DEF TypeOK, Tombs
  <2>2. CASE UNCHANGED <<tomb, newest>>
    BY <2>1, <2>2
  <2>3. ASSUME NEW fails \in BOOLEAN, TombstonePut(wr[w].stamp, fails)
        PROVE  tomb' \in Tombs /\ tomb'.ts <= now /\ newest' \in Nat
    BY <1>1, <2>3, TombstonePuts
  <2>4. QED BY <1>2, <2>2, <2>3, Zenon
<1>6. \A pc \in WriterSteps: /\ NoWrite(pc) \in WriterRecords
                             /\ NoWrite(pc).stamp = 0
  BY DEF NoWrite, WriterRecords
<1>7. 0 <= now /\ 0 \in Nat
  BY <1>1
<1>8. PICK new \in WriterRecords: new.stamp <= now /\ wr' = [wr EXCEPT ![w] = new]
  <2>1. CASE PreForwardInvalidate(w) \/ TombstoneStamp(w)
    <3>1. PICK ts \in Clock, pc \in {"preTomb", "tomb"}:
            wr' = [wr EXCEPT ![w] = [wr[w] EXCEPT !.pc = pc, !.stamp = ts]]
      <4>1. CASE PreForwardInvalidate(w)
        <5>1. PICK ts \in Clock:
                wr' = [wr EXCEPT ![w] = [wr[w] EXCEPT !.pc = "preTomb", !.stamp = ts]]
          BY <4>1, Zenon DEF PreForwardInvalidate
        <5>2. QED BY <5>1, Zenon
      <4>2. CASE TombstoneStamp(w)
        <5>1. PICK ts \in Clock:
                wr' = [wr EXCEPT ![w] = [wr[w] EXCEPT !.pc = "tomb", !.stamp = ts]]
          BY <4>2, Zenon DEF TombstoneStamp
        <5>2. QED BY <5>1, Zenon
      <4>3. QED BY <2>1, <4>1, <4>2, Zenon
    <3>2. ts \in Nat /\ ts <= now
      BY ClockReads
    <3>3. /\ [wr[w] EXCEPT !.pc = pc, !.stamp = ts] \in WriterRecords
          /\ [wr[w] EXCEPT !.pc = pc, !.stamp = ts].stamp = ts
      BY <1>1, <3>1, <3>2, Zenon DEF WriterRecords
    <3>4. QED BY <3>1, <3>2, <3>3, Zenon
  <2>2. CASE ForwardApplied(w)
    <3>1. upstream + 1 \in Nat
      BY <1>1
    <3>2. wr' = [wr EXCEPT ![w] = [wr[w] EXCEPT !.pc = "bury", !.n = upstream + 1]]
      BY <2>2, Zenon DEF ForwardApplied
    <3>3. /\ [wr[w] EXCEPT !.pc = "bury", !.n = upstream + 1] \in WriterRecords
          /\ [wr[w] EXCEPT !.pc = "bury", !.n = upstream + 1].stamp = wr[w].stamp
      BY <1>1, <3>1, Zenon DEF WriterRecords
    <3>4. QED BY <1>1, <3>2, <3>3, Zenon
  <2>3. CASE DeleteMetaTombstone(w)
    <3>1. PICK fails \in BOOLEAN:
            wr' = [wr EXCEPT ![w].err = fails, ![w].stamp = 0,
                             ![w].pc = IF wr[w].pc = "tomb" THEN "delete"
                                       ELSE "preDelete"]
      BY <2>3, LegacyAssumption, Zenon DEF DeleteMetaTombstone
    <3>2. PICK pc \in {"delete", "preDelete"}:
            pc = IF wr[w].pc = "tomb" THEN "delete" ELSE "preDelete"
      BY Zenon
    <3>3. wr' = [wr EXCEPT ![w] = [wr[w] EXCEPT !.err = fails, !.stamp = 0, !.pc = pc]]
      BY <3>1, <3>2, Zenon
    <3>4. /\ [wr[w] EXCEPT !.err = fails, !.stamp = 0, !.pc = pc] \in WriterRecords
          /\ [wr[w] EXCEPT !.err = fails, !.stamp = 0, !.pc = pc].stamp = 0
      BY <1>1, <1>7, Zenon DEF WriterRecords
    <3>5. QED BY <1>7, <3>3, <3>4, Zenon
  <2>4. CASE DeleteMetaDelete(w)
    <3>1. PICK new: /\ wr' = [wr EXCEPT ![w] = new]
                    /\ \/ new = NoWrite("forward") \/ new = NoWrite("done")
                       \/ new = [wr[w] EXCEPT !.pc = "bury", !.retried = TRUE]
      BY <2>4, Zenon DEF DeleteMetaDelete
    <3>2. /\ [wr[w] EXCEPT !.pc = "bury", !.retried = TRUE] \in WriterRecords
          /\ [wr[w] EXCEPT !.pc = "bury", !.retried = TRUE].stamp = wr[w].stamp
      BY <1>1, Zenon DEF WriterRecords
    <3>3. new \in WriterRecords /\ new.stamp \in {0, wr[w].stamp}
      BY <1>6, <3>1, <3>2, Zenon
    <3>4. QED BY <1>1, <1>7, <3>1, <3>3, Zenon
  <2>5. CASE ForwardRejected(w)
    BY <1>6, <1>7, <2>5, Zenon DEF ForwardRejected
  <2>6. QED BY <2>1, <2>2, <2>3, <2>4, <2>5, Zenon DEF WriterNext
<1>9. wr' \in [Writers -> WriterRecords] /\ \A v \in Writers: wr'[v].stamp <= now
  BY <1>8, WriterBecomes, Zenon
<1>10. QED BY <1>2, <1>3, <1>4, <1>5, <1>9, Zenon DEF TypeOK, Metas, Tombs

\* Time passes, an entry expires, or nothing changes.
LEMMA OtherTypes ==
    ASSUME TypeOK, Tick \/ ExpireMeta \/ UNCHANGED vars
    PROVE  TypeOK'
<1>1. /\ now' \in Nat /\ now' >= now /\ now' > Skew
      /\ UNCHANGED <<upstream, tomb, pop, wr, settled, newest>>
  BY LegacyAssumption DEF TypeOK, Tick, ExpireMeta, vars
<1>2. meta' \in Metas
  BY AbsentType DEF TypeOK, Tick, ExpireMeta, vars, Metas
<1>3. /\ \A r \in Requests: pop[r].stamp \in Nat
      /\ \A w \in Writers: wr[w].stamp \in Nat
      /\ tomb.ts \in Nat /\ now \in Nat
  BY DEF TypeOK, PopRecords, WriterRecords
<1>4. /\ \A r \in Requests: pop[r].stamp <= now'
      /\ \A w \in Writers: wr[w].stamp <= now'
      /\ tomb.ts <= now'
  BY <1>1, <1>3 DEF TypeOK
<1>5. QED BY <1>1, <1>2, <1>4 DEF TypeOK, Metas

\* TypeOK holds initially.
LEMMA InitTypes == Init => TypeOK
<1> SUFFICES ASSUME Init PROVE TypeOK
  OBVIOUS
<1>1. /\ NoTask("idle") \in PopRecords /\ NoTask("idle").stamp = 0
      /\ NoWrite("idle") \in WriterRecords /\ NoWrite("idle").stamp = 0
  BY DEF NoTask, PopRecords, NoWrite, WriterRecords
<1>2. /\ now \in Nat /\ now > Skew /\ upstream \in Nat /\ settled \in Nat
      /\ newest \in Nat /\ 0 <= now
  BY LegacyAssumption DEF Init
<1>3. tomb = [ts |-> 0, until |-> 0]
  BY DEF Init
<1>4. tomb \in [ts: Nat, until: Nat] /\ tomb.ts <= now
  BY <1>2, <1>3
<1>5. pop \in [Requests -> PopRecords] /\ \A r \in Requests: pop[r].stamp <= now
  BY <1>1, <1>2 DEF Init
<1>6. wr \in [Writers -> WriterRecords] /\ \A w \in Writers: wr[w].stamp <= now
  BY <1>1, <1>2 DEF Init
<1>7. meta \in [live: BOOLEAN, n: Nat]
  BY AbsentType DEF Init, Metas
<1>8. QED BY <1>2, <1>4, <1>5, <1>6, <1>7 DEF TypeOK

\* TypeOK is inductive.
LEMMA TypesStep == TypeOK /\ [Next]_vars => TypeOK'
<1> SUFFICES ASSUME TypeOK, [Next]_vars PROVE TypeOK'
  OBVIOUS
<1>1. QED BY RequestTypes, WriterTypes, OtherTypes DEF Next, Quiescent

(* The store, the clock, the populates and the writers keep their types under *)
(* the legacy coordinator, with any skew of the nodes' clocks; and no stamp,  *)
(* of a populate or of a tombstone, is ahead of the time.                     *)
THEOREM LegacyTypes == Spec => []TypeOK
<1>1. QED BY InitTypes, TypesStep, PTL DEF Spec
-----------------------------------------------------------------------------
(* The gate, when the clocks agree.  The argument is about newest, which only *)
(* grows: once a tombstone was put at or after a populate's stamp, only a     *)
(* tombstone that lands out of order can let the populate through.            *)

(* A tombstone outlives every populate with its stamp or an earlier one.      *)
Outlives == tomb.ts > 0 => tomb.until > tomb.ts + FetchMax + WriteMax

PopulateTimed(p) ==
    p.pc \in {"fetch", "gate"} =>
      /\ p.stamp > 0 /\ p.by = p.stamp + FetchMax + WriteMax
      /\ p.pc = "gate" /\ p.n < settled => p.stamp <= newest

(* The populates that fetched before state n was upstream have stamps up to   *)
(* ts.                                                                        *)
Covers(ts, n) ==
    \A r \in Requests: pop[r].pc = "gate" /\ pop[r].n < n => pop[r].stamp <= ts

(* A writer's converging tombstone covers every populate that fetched before  *)
(* its mutation, from the moment it is stamped.                               *)
WriterCovered(w) ==
    /\ w.pc \in {"bury", "tomb", "delete"} => w.n <= upstream
    /\ w.pc = "tomb" => Covers(w.stamp, w.n)
    /\ w.pc = "delete" /\ ~w.err => Covers(newest, w.n)

GateInv ==
    /\ TypeOK
    /\ settled <= upstream /\ Outlives
    /\ \A r \in Requests: PopulateTimed(pop[r])
    /\ \A w \in Writers: WriterCovered(wr[w])

\* A request step that leaves its own record outside fetch and gate.
LEMMA RequestStepGate ==
    ASSUME GateInv, TypeOK', NEW r \in Requests,
           UNCHANGED <<now, upstream, wr, settled>>, newest' >= newest, Outlives',
           \A q \in Requests \ {r}: pop'[q] = pop[q],
           pop'[r].pc \notin {"fetch", "gate"}
    PROVE  GateInv'
<1>0. newest \in Nat /\ newest' \in Nat /\ \A q \in Requests: pop[q].stamp \in Nat
  BY DEF GateInv, TypeOK, PopRecords
<1>1. ASSUME NEW q \in Requests PROVE PopulateTimed(pop[q])'
  <2>1. CASE q = r
    BY <2>1, Zenon DEF PopulateTimed
  <2>2. CASE q # r
    <3>1. pop'[q] = pop[q] /\ PopulateTimed(pop[q]) /\ settled' = settled
      BY <2>2 DEF GateInv
    <3>2. pop[q].stamp <= newest => pop[q].stamp <= newest'
      BY <1>0
    <3>3. QED BY <3>1, <3>2, Zenon DEF PopulateTimed
  <2>3. QED BY <2>1, <2>2
<1>2. ASSUME NEW ts \in Nat, NEW us \in Nat, ts <= us, NEW n, Covers(ts, n)
      PROVE  \A q \in Requests: pop'[q].pc = "gate" /\ pop'[q].n < n => pop'[q].stamp <= us
  <2> SUFFICES ASSUME NEW q \in Requests, pop'[q].pc = "gate", pop'[q].n < n
               PROVE  pop'[q].stamp <= us
    OBVIOUS
  <2>1. pop'[q] = pop[q] /\ pop[q].stamp <= ts
    BY <1>2 DEF Covers
  <2>2. QED BY <1>0, <1>2, <2>1
<1>3. ASSUME NEW w \in Writers PROVE WriterCovered(wr[w])'
  <2>1. wr' = wr /\ upstream' = upstream /\ WriterCovered(wr[w])
        /\ wr[w].stamp \in Nat /\ wr[w].stamp <= wr[w].stamp
    BY DEF GateInv, TypeOK, WriterRecords
  <2>2. wr[w].pc = "tomb" => Covers(wr[w].stamp, wr[w].n)'
    BY <1>2, <2>1 DEF WriterCovered, Covers
  <2>3. wr[w].pc = "delete" /\ ~wr[w].err => Covers(newest, wr[w].n)'
    BY <1>0, <1>2, <2>1 DEF WriterCovered, Covers
  <2>4. QED BY <2>1, <2>2, <2>3, Zenon DEF WriterCovered
<1>4. settled' <= upstream'
  BY DEF GateInv
<1>5. QED BY <1>1, <1>3, <1>4, Zenon DEF GateInv

(* The actions of a request other than its stamp and its fetch.               *)
LEMMA PlainRequestSteps ==
    ASSUME GateInv, TypeOK', NEW r \in Requests,
           \/ TombstoneGate(r) \/ PutMeta(r) \/ Abandon(r) \/ RepairStart(r)
           \/ DeleteMetaIfETag(r) \/ RepairStamp(r) \/ RepairTombstone(r)
           \/ RepairDelete(r)
    PROVE  GateInv'
<1>1. /\ TypeOK /\ pop[r] \in PopRecords /\ pop[r].stamp \in Nat /\ pop[r].stamp <= now
      /\ newest \in Nat
  BY DEF GateInv, TypeOK, PopRecords
<1>2. UNCHANGED <<now, upstream, wr, settled>>
  BY Zenon DEF TombstoneGate, PutMeta, Abandon, RepairStart, DeleteMetaIfETag,
     RepairStamp, RepairTombstone, RepairDelete
<1>3. newest' >= newest /\ Outlives'
  <2>1. CASE RepairTombstone(r)
    <3>1. TombstonePut(pop[r].stamp, Faults)
      BY <2>1 DEF RepairTombstone
    <3>2. QED BY <1>1, <3>1, TombstonePuts DEF GateInv, Outlives
  <2>2. CASE UNCHANGED <<tomb, newest>>
    BY <1>1, <2>2 DEF GateInv, Outlives
  <2>3. RepairTombstone(r) \/ UNCHANGED <<tomb, newest>>
    BY Zenon DEF TombstoneGate, PutMeta, Abandon, RepairStart, DeleteMetaIfETag,
       RepairStamp, RepairDelete
  <2>4. QED BY <2>1, <2>2, <2>3
<1>4. /\ \A q \in Requests \ {r}: pop'[q] = pop[q]
      /\ pop'[r].pc \notin {"fetch", "gate"}
  <2>1. ASSUME NEW new, pop' = [pop EXCEPT ![r] = new],
               new.pc \notin {"fetch", "gate"}
        PROVE  /\ \A q \in Requests \ {r}: pop'[q] = pop[q]
               /\ pop'[r].pc \notin {"fetch", "gate"}
    BY <1>1, <2>1, Zenon DEF TypeOK
  <2>2. ASSUME NEW pc \in PopSteps \ {"fetch", "gate"}, Goto(r, pc)
        PROVE  /\ \A q \in Requests \ {r}: pop'[q] = pop[q]
               /\ pop'[r].pc \notin {"fetch", "gate"}
    <3>1. PICK new \in PopRecords: new.pc = pc /\ pop' = [pop EXCEPT ![r] = new]
      BY <1>1, <2>2, GotoStep
    <3>2. QED BY <2>1, <2>2, <3>1, Zenon
  <2>3. CASE RepairStart(r)
    <3>1. pop' = [pop EXCEPT ![r] = [pop[r] EXCEPT !.pc = "compare", !.n = meta.n]]
      BY <2>3, Zenon DEF RepairStart
    <3>2. [pop[r] EXCEPT !.pc = "compare", !.n = meta.n].pc = "compare"
      BY <1>1, Zenon DEF PopRecords
    <3>3. QED BY <2>1, <3>1, <3>2, Zenon
  <2>4. CASE RepairStamp(r)
    <3>1. PICK ts: pop' = [pop EXCEPT ![r] = [pop[r] EXCEPT !.pc = "tomb", !.stamp = ts]]
      BY <2>4, Zenon DEF RepairStamp
    <3>2. [pop[r] EXCEPT !.pc = "tomb", !.stamp = ts].pc = "tomb"
      BY <1>1, Zenon DEF PopRecords
    <3>3. QED BY <2>1, <3>1, <3>2, Zenon
  <2>5. \/ RepairStart(r) \/ RepairStamp(r)
        \/ \E pc \in PopSteps \ {"fetch", "gate"}: Goto(r, pc)
    BY DEF TombstoneGate, PutMeta, Abandon, DeleteMetaIfETag, RepairTombstone,
       RepairDelete
  <2>6. QED BY <2>2, <2>3, <2>4, <2>5, Zenon
<1>5. QED BY <1>2, <1>3, <1>4, RequestStepGate, Zenon

\* The other populates, and the writers, when a populate stamps or fetches.
LEMMA OtherRequests ==
    ASSUME GateInv, TypeOK', NEW r \in Requests, PopulateTimed(pop[r])',
           UNCHANGED <<now, upstream, tomb, wr, settled, newest>>,
           \A q \in Requests \ {r}: pop'[q] = pop[q],
           pop'[r].pc = "gate" => pop'[r].n = upstream
    PROVE  GateInv'
<1>1. ASSUME NEW q \in Requests \ {r} PROVE PopulateTimed(pop[q])'
  <2>1. pop'[q] = pop[q] /\ PopulateTimed(pop[q])
    BY DEF GateInv
  <2>2. QED BY <2>1, Zenon DEF PopulateTimed
<1>2. ASSUME NEW n \in Nat, n <= upstream, NEW ts, Covers(ts, n)
      PROVE  \A q \in Requests: pop'[q].pc = "gate" /\ pop'[q].n < n => pop'[q].stamp <= ts
  <2> SUFFICES ASSUME NEW q \in Requests, pop'[q].pc = "gate", pop'[q].n < n
               PROVE  pop'[q].stamp <= ts
    OBVIOUS
  <2>1. q # r
    <3>1. upstream \in Nat
      BY DEF GateInv, TypeOK
    <3>2. QED BY <1>2, <3>1
  <2>2. pop'[q] = pop[q]
    BY <2>1
  <2>3. QED BY <1>2, <2>2 DEF Covers
<1>3. ASSUME NEW w \in Writers PROVE WriterCovered(wr[w])'
  <2>1. /\ wr' = wr /\ upstream' = upstream /\ newest' = newest
        /\ WriterCovered(wr[w]) /\ wr[w].n \in Nat
    BY DEF GateInv, TypeOK, WriterRecords
  <2>2. wr[w].pc = "tomb" => Covers(wr[w].stamp, wr[w].n)'
    BY <1>2, <2>1 DEF WriterCovered, Covers
  <2>3. wr[w].pc = "delete" /\ ~wr[w].err => Covers(newest, wr[w].n)'
    BY <1>2, <2>1 DEF WriterCovered, Covers
  <2>4. QED BY <2>1, <2>2, <2>3, Zenon DEF WriterCovered
<1>4. settled' <= upstream' /\ Outlives'
  BY DEF GateInv, Outlives
<1>5. QED BY <1>1, <1>3, <1>4, Zenon DEF GateInv

(* The decision: the stamp is the current time.                               *)
LEMMA StampStep ==
    ASSUME Skew = 0, GateInv, TypeOK', NEW r \in Requests, GetMetaWithVersion(r)
    PROVE  GateInv'
<1>1. TypeOK /\ now \in Nat /\ UNCHANGED <<now, upstream, tomb, wr, settled, newest>>
  BY DEF GateInv, TypeOK, GetMetaWithVersion
<1>2. PICK stamp \in Clock:
        pop' = [pop EXCEPT ![r] = [pc |-> "fetch", stamp |-> stamp, n |-> 0,
                                   by |-> now + FetchMax + WriteMax]]
  BY Zenon DEF GetMetaWithVersion
<1>3. stamp = now /\ stamp > 0
  BY <1>1, ClockReads DEF Clock
<1>4. /\ pop'[r].pc = "fetch" /\ pop'[r].stamp = now
      /\ pop'[r].by = now + FetchMax + WriteMax
      /\ \A q \in Requests \ {r}: pop'[q] = pop[q]
  BY <1>1, <1>2, <1>3 DEF TypeOK
<1>5. PopulateTimed(pop[r])'
  BY <1>3, <1>4 DEF PopulateTimed
<1>6. QED BY <1>1, <1>4, <1>5, OtherRequests

(* The fetch returns the current state, which nothing settled is newer than.  *)
LEMMA FetchStep ==
    ASSUME GateInv, TypeOK', NEW r \in Requests, Fetch(r)
    PROVE  GateInv'
<1>1. /\ TypeOK /\ upstream \in Nat /\ settled \in Nat /\ settled <= upstream
      /\ UNCHANGED <<now, upstream, tomb, wr, settled, newest>>
      /\ pop[r].pc = "fetch" /\ pop[r] \in PopRecords /\ PopulateTimed(pop[r])
  BY DEF GateInv, TypeOK, Fetch
<1> DEFINE new == [pop[r] EXCEPT !.pc = "gate", !.n = upstream]
<1>2. /\ new.pc = "gate" /\ new.n = upstream
      /\ new.stamp = pop[r].stamp /\ new.by = pop[r].by
  BY <1>1, Zenon DEF PopRecords
<1>3. pop' = [pop EXCEPT ![r] = new]
  BY Zenon DEF Fetch
<1> HIDE DEF new
<1>4. pop'[r] = new /\ \A q \in Requests \ {r}: pop'[q] = pop[q]
  BY <1>1, <1>3, Zenon DEF TypeOK
<1>5. PopulateTimed(pop[r])'
  BY <1>1, <1>2, <1>4 DEF PopulateTimed
<1>6. QED BY <1>1, <1>2, <1>4, <1>5, OtherRequests

(* A writer step that keeps upstream, the clock and the populates.            *)
LEMMA WriterStepGate ==
    ASSUME GateInv, TypeOK', NEW w \in Writers,
           UNCHANGED <<now, upstream, pop>>, newest' >= newest, Outlives',
           \A v \in Writers \ {w}: wr'[v] = wr[v],
           wr'[w].pc \in {"bury", "tomb", "delete"} => wr'[w].n <= upstream,
           wr'[w].pc = "tomb" => wr'[w].stamp = now,
           wr'[w].pc = "delete" /\ ~wr'[w].err =>
             wr[w].pc = "tomb" /\ wr'[w].n = wr[w].n /\ wr[w].stamp <= newest',
           \/ settled' = settled
           \/ wr[w].pc = "delete" /\ ~wr[w].err /\ settled' = wr[w].n
    PROVE  GateInv'
<1>0. /\ newest \in Nat /\ newest' \in Nat /\ now \in Nat
      /\ wr[w].stamp \in Nat /\ WriterCovered(wr[w])
      /\ \A q \in Requests: pop[q].stamp \in Nat /\ pop[q].stamp <= now
  BY DEF GateInv, TypeOK, PopRecords, WriterRecords
<1>1. ASSUME NEW ts \in Nat, NEW us \in Nat, ts <= us, NEW n, Covers(ts, n)
      PROVE  \A q \in Requests: pop'[q].pc = "gate" /\ pop'[q].n < n => pop'[q].stamp <= us
  <2> SUFFICES ASSUME NEW q \in Requests, pop'[q].pc = "gate", pop'[q].n < n
               PROVE  pop'[q].stamp <= us
    OBVIOUS
  <2>1. pop'[q] = pop[q] /\ pop[q].stamp <= ts
    BY <1>1 DEF Covers
  <2>2. QED BY <1>0, <1>1, <2>1
<1>2. settled' <= upstream'
  BY <1>0 DEF GateInv, WriterCovered
<1>3. ASSUME NEW q \in Requests PROVE PopulateTimed(pop[q])'
  <2>1. pop'[q] = pop[q] /\ PopulateTimed(pop[q])
    BY DEF GateInv
  <2>2. pop[q].stamp <= newest => pop[q].stamp <= newest'
    BY <1>0
  <2>3. pop[q].pc = "gate" /\ pop[q].n < settled' => pop[q].stamp <= newest'
    <3>1. CASE settled' = settled
      BY <2>1, <2>2, <3>1 DEF PopulateTimed
    <3>2. CASE wr[w].pc = "delete" /\ ~wr[w].err /\ settled' = wr[w].n
      BY <1>0, <2>2, <3>2 DEF WriterCovered, Covers
    <3>3. QED BY <3>1, <3>2
  <2>4. QED BY <2>1, <2>3, Zenon DEF PopulateTimed
<1>4. ASSUME NEW v \in Writers PROVE WriterCovered(wr[v])'
  <2>1. CASE v = w
    <3>1. wr'[w].pc = "tomb" => Covers(wr[w].stamp, wr[w].n)'
      BY <1>0 DEF Covers
    <3>2. wr'[w].pc = "delete" /\ ~wr'[w].err => Covers(newest, wr[w].n)'
      BY <1>0, <1>1 DEF WriterCovered, Covers
    <3>3. QED BY <2>1, <3>1, <3>2, Zenon DEF WriterCovered
  <2>2. CASE v # w
    <3>1. /\ wr'[v] = wr[v] /\ WriterCovered(wr[v])
          /\ wr[v].stamp \in Nat /\ wr[v].stamp <= wr[v].stamp
      BY <2>2 DEF GateInv, TypeOK, WriterRecords
    <3>2. wr[v].pc = "tomb" => Covers(wr[v].stamp, wr[v].n)'
      BY <1>1, <3>1 DEF WriterCovered, Covers
    <3>3. wr[v].pc = "delete" /\ ~wr[v].err => Covers(newest, wr[v].n)'
      BY <1>0, <1>1, <3>1 DEF WriterCovered, Covers
    <3>4. upstream' = upstream
      OBVIOUS
    <3>5. QED BY <3>1, <3>2, <3>3, <3>4, Zenon DEF WriterCovered
  <2>3. QED BY <2>1, <2>2
<1>5. QED BY <1>2, <1>3, <1>4, Zenon DEF GateInv

\* The steps of a writer that neither forward nor delete.
LEMMA WriterTombstoneSteps ==
    ASSUME Skew = 0, GateInv, TypeOK', NEW w \in Writers,
           \/ PreForwardInvalidate(w) \/ TombstoneStamp(w) \/ DeleteMetaTombstone(w)
           \/ ForwardRejected(w)
    PROVE  GateInv'
<1>0. /\ TypeOK /\ wr[w] \in WriterRecords /\ WriterCovered(wr[w])
      /\ wr[w].stamp \in Nat /\ wr[w].stamp <= now /\ now \in Nat /\ newest \in Nat
      /\ UNCHANGED <<now, upstream, pop, settled>>
  BY Zenon DEF GateInv, TypeOK, WriterRecords, PreForwardInvalidate, TombstoneStamp,
     DeleteMetaTombstone, ForwardRejected
<1>1. ASSUME NEW new, wr' = [wr EXCEPT ![w] = new], UNCHANGED <<tomb, newest>>,
             new.pc \in {"bury", "tomb", "delete"} => new.n <= upstream,
             new.pc = "tomb" => new.stamp = now, new.pc # "delete"
      PROVE  GateInv'
  <2>1. wr'[w] = new /\ \A v \in Writers \ {w}: wr'[v] = wr[v]
    BY <1>0, <1>1, Zenon DEF TypeOK
  <2>2. newest' >= newest /\ Outlives'
    BY <1>0, <1>1 DEF GateInv, Outlives
  <2>3. QED BY <1>0, <1>1, <2>1, <2>2, WriterStepGate
<1>2. \A ts \in Clock: ts = now
  BY <1>0 DEF Clock
<1>3. CASE PreForwardInvalidate(w)
  <2>1. PICK ts: wr' = [wr EXCEPT ![w] = [wr[w] EXCEPT !.pc = "preTomb", !.stamp = ts]]
    BY <1>3, Zenon DEF PreForwardInvalidate
  <2>2. [wr[w] EXCEPT !.pc = "preTomb", !.stamp = ts].pc = "preTomb"
    BY <1>0, Zenon DEF WriterRecords
  <2>3. UNCHANGED <<tomb, newest>>
    BY <1>3 DEF PreForwardInvalidate
  <2>4. QED BY <1>1, <2>1, <2>2, <2>3, Zenon
<1>4. CASE TombstoneStamp(w)
  <2>1. PICK ts \in Clock:
          wr' = [wr EXCEPT ![w] = [wr[w] EXCEPT !.pc = "tomb", !.stamp = ts]]
    BY <1>4, Zenon DEF TombstoneStamp
  <2>2. /\ [wr[w] EXCEPT !.pc = "tomb", !.stamp = ts].pc = "tomb"
        /\ [wr[w] EXCEPT !.pc = "tomb", !.stamp = ts].stamp = ts
        /\ [wr[w] EXCEPT !.pc = "tomb", !.stamp = ts].n = wr[w].n
    BY <1>0, Zenon DEF WriterRecords
  <2>3. UNCHANGED <<tomb, newest>> /\ wr[w].n <= upstream
    BY <1>0, <1>4 DEF TombstoneStamp, WriterCovered
  <2>4. QED BY <1>1, <1>2, <2>1, <2>2, <2>3, Zenon
<1>5. CASE ForwardRejected(w)
  <2>1. NoWrite("done").pc = "done"
    BY DEF NoWrite
  <2>2. QED BY <1>1, <1>5, <2>1, Zenon DEF ForwardRejected
<1>6. CASE DeleteMetaTombstone(w)
  <2>1. PICK fails \in {FALSE, Faults}:
          /\ TombstonePut(wr[w].stamp, fails)
          /\ wr' = [wr EXCEPT ![w].err = fails, ![w].stamp = 0,
                              ![w].pc = IF wr[w].pc = "tomb" THEN "delete"
                                        ELSE "preDelete"]
    BY <1>6, Zenon DEF DeleteMetaTombstone
  <2> DEFINE new == [wr[w] EXCEPT !.err = fails, !.stamp = 0,
                                  !.pc = IF wr[w].pc = "tomb" THEN "delete"
                                         ELSE "preDelete"]
  <2>2. /\ new.n = wr[w].n /\ new.err = fails /\ new.pc \in {"delete", "preDelete"}
        /\ new.pc = "delete" => wr[w].pc = "tomb"
    BY <1>0, Zenon DEF WriterRecords
  <2>3. wr' = [wr EXCEPT ![w] = new]
    BY <2>1, Zenon
  <2> HIDE DEF new
  <2>4. wr'[w] = new /\ \A v \in Writers \ {w}: wr'[v] = wr[v]
    BY <1>0, <2>3, Zenon DEF TypeOK
  <2>5. newest' >= newest /\ Outlives' /\ (fails \/ newest' >= wr[w].stamp)
    BY <1>0, <2>1, TombstonePuts DEF GateInv, Outlives
  <2>6. newest' \in Nat
    BY DEF TypeOK
  <2>7. ~fails => wr[w].stamp <= newest'
    BY <1>0, <2>5, <2>6
  <2>8. wr'[w].pc \in {"bury", "tomb", "delete"} => wr'[w].n <= upstream
    BY <1>0, <2>2, <2>4, Zenon DEF WriterCovered
  <2>9. /\ wr'[w].pc # "tomb"
        /\ wr'[w].pc = "delete" /\ ~wr'[w].err =>
             wr[w].pc = "tomb" /\ wr'[w].n = wr[w].n /\ wr[w].stamp <= newest'
    BY <2>2, <2>4, <2>7, Zenon
  <2>10. QED BY <1>0, <2>4, <2>5, <2>8, <2>9, WriterStepGate
<1>7. QED BY <1>3, <1>4, <1>5, <1>6

(* The plain delete; the converging one settles its mutation.                 *)
LEMMA DeleteStep ==
    ASSUME GateInv, TypeOK', NEW w \in Writers, DeleteMetaDelete(w)
    PROVE  GateInv'
<1>0. /\ TypeOK /\ wr[w] \in WriterRecords /\ WriterCovered(wr[w]) /\ newest \in Nat
      /\ UNCHANGED <<now, upstream, tomb, pop, newest>>
  BY DEF GateInv, TypeOK, DeleteMetaDelete
<1>1. PICK fails \in {FALSE, Faults}:
        /\ wr' = [wr EXCEPT ![w] =
                    IF wr[w].pc # "delete" THEN NoWrite("forward")
                    ELSE IF (wr[w].err \/ fails) /\ ~wr[w].retried
                      THEN [wr[w] EXCEPT !.pc = "bury", !.retried = TRUE]
                    ELSE NoWrite("done")]
        /\ settled' = IF wr[w].pc = "delete" /\ ~(wr[w].err \/ fails)
                            /\ wr[w].n > settled
                        THEN wr[w].n ELSE settled
  BY Zenon DEF DeleteMetaDelete
<1> DEFINE new == IF wr[w].pc # "delete" THEN NoWrite("forward")
                  ELSE IF (wr[w].err \/ fails) /\ ~wr[w].retried
                    THEN [wr[w] EXCEPT !.pc = "bury", !.retried = TRUE]
                  ELSE NoWrite("done")
<1>2. /\ new.pc \in {"forward", "bury", "done"}
      /\ new.pc = "bury" => wr[w].pc = "delete" /\ new.n = wr[w].n
  BY <1>0, Zenon DEF WriterRecords, NoWrite
<1>3. wr' = [wr EXCEPT ![w] = new]
  BY <1>1, Zenon
<1>4. \/ settled' = settled
      \/ wr[w].pc = "delete" /\ ~wr[w].err /\ settled' = wr[w].n
  BY <1>1, Zenon
<1> HIDE DEF new
<1>5. wr'[w] = new /\ \A v \in Writers \ {w}: wr'[v] = wr[v]
  BY <1>0, <1>3, Zenon DEF TypeOK
<1>6. wr'[w].pc \in {"bury", "tomb", "delete"} => wr'[w].n <= upstream
  BY <1>0, <1>2, <1>5, Zenon DEF WriterCovered
<1>7. newest' >= newest /\ Outlives'
  BY <1>0 DEF GateInv, Outlives
<1>8. QED BY <1>0, <1>2, <1>4, <1>5, <1>6, <1>7, WriterStepGate

(* Upstream applies a mutation: no populate at the gate becomes newer or      *)
(* older than what is settled.                                                *)
LEMMA ForwardStep ==
    ASSUME GateInv, TypeOK', NEW w \in Writers, ForwardApplied(w)
    PROVE  GateInv'
<1>0. /\ TypeOK /\ wr[w] \in WriterRecords /\ upstream \in Nat /\ settled \in Nat
      /\ settled <= upstream /\ upstream' = upstream + 1
      /\ UNCHANGED <<now, meta, tomb, pop, settled, newest>>
  BY DEF GateInv, TypeOK, ForwardApplied
<1> DEFINE new == [wr[w] EXCEPT !.pc = "bury", !.n = upstream + 1]
<1>1. new.pc = "bury" /\ new.n = upstream + 1
  BY <1>0, Zenon DEF WriterRecords
<1>2. wr' = [wr EXCEPT ![w] = new]
  BY Zenon DEF ForwardApplied
<1> HIDE DEF new
<1>3. wr'[w] = new /\ \A v \in Writers \ {w}: wr'[v] = wr[v]
  BY <1>0, <1>2, Zenon DEF TypeOK
<1>4. settled' <= upstream' /\ Outlives'
  BY <1>0 DEF GateInv, Outlives
<1>5. ASSUME NEW q \in Requests PROVE PopulateTimed(pop[q])'
  BY <1>0, Zenon DEF GateInv, PopulateTimed
<1>6. ASSUME NEW v \in Writers PROVE WriterCovered(wr[v])'
  <2>1. CASE v = w
    <3>1. wr'[w].pc = "bury" /\ wr'[w].n <= upstream'
      BY <1>0, <1>1, <1>3
    <3>2. QED BY <2>1, <3>1, Zenon DEF WriterCovered
  <2>2. CASE v # w
    <3>1. wr'[v] = wr[v] /\ wr[v].n \in Nat /\ WriterCovered(wr[v])
      BY <1>0, <1>3, <2>2 DEF GateInv, TypeOK, WriterRecords
    <3>2. wr[v].n <= upstream => wr[v].n <= upstream'
      BY <1>0, <3>1
    <3>3. QED BY <1>0, <3>1, <3>2, Zenon DEF WriterCovered, Covers
  <2>3. QED BY <2>1, <2>2
<1>7. QED BY <1>4, <1>5, <1>6, Zenon DEF GateInv

(* Time passes, an entry expires, or nothing changes.                         *)
LEMMA OtherSteps ==
    ASSUME GateInv, TypeOK', Tick \/ ExpireMeta \/ UNCHANGED vars
    PROVE  GateInv'
<1>1. UNCHANGED <<upstream, tomb, pop, wr, settled, newest>>
  BY DEF Tick, ExpireMeta, vars
<1>2. QED BY <1>1, Zenon DEF GateInv, PopulateTimed, WriterCovered, Covers, Outlives

\* GateInv holds initially.
LEMMA GateInit == Init => GateInv
<1> SUFFICES ASSUME Init PROVE GateInv
  OBVIOUS
<1>1. NoTask("idle").pc = "idle" /\ NoWrite("idle").pc = "idle"
  BY DEF NoTask, NoWrite
<1>2. /\ \A r \in Requests: pop[r].pc = "idle"
      /\ \A w \in Writers: wr[w].pc = "idle"
  BY <1>1, Zenon DEF Init
<1>3. settled <= upstream /\ Outlives
  BY DEF Init, Outlives
<1>4. QED BY <1>2, <1>3, InitTypes, Zenon DEF GateInv, PopulateTimed, WriterCovered

\* GateInv is inductive when the nodes agree on the clock.
LEMMA GateStep == Skew = 0 /\ GateInv /\ [Next]_vars => GateInv'
<1> SUFFICES ASSUME Skew = 0, GateInv, [Next]_vars PROVE GateInv'
  OBVIOUS
<1>0. TypeOK'
  BY TypesStep DEF GateInv
<1>1. ASSUME NEW r \in Requests, RequestNext(r) PROVE GateInv'
  BY <1>0, <1>1, PlainRequestSteps, StampStep, FetchStep, Zenon DEF RequestNext
<1>2. ASSUME NEW w \in Writers, WriterNext(w) PROVE GateInv'
  BY <1>0, <1>2, WriterTombstoneSteps, DeleteStep, ForwardStep, Zenon DEF WriterNext
<1>3. QED BY <1>0, <1>1, <1>2, OtherSteps, Zenon DEF Next, Quiescent

\* A populate that goes from the gate to its Put read a tombstone before its stamp.
LEMMA PassedTheGate ==
    ASSUME TypeOK, Next, NEW r \in Requests, pop[r].pc = "gate", pop'[r].pc = "put"
    PROVE  now <= pop[r].by /\ ~(TombstoneTimestamp >= pop[r].stamp)
<1>1. ASSUME NEW q \in Requests, RequestNext(q)
      PROVE  now <= pop[r].by /\ ~(TombstoneTimestamp >= pop[r].stamp)
  <2>1. CASE q # r
    <3>1. pop'[r] = pop[r]
      BY <1>1, <2>1, Zenon DEF RequestNext, GetMetaWithVersion, Fetch,
         TombstoneGate, PutMeta, Abandon, RepairStart, DeleteMetaIfETag,
         RepairStamp, RepairTombstone, RepairDelete, Goto, TypeOK
    <3>2. QED BY <3>1
  <2>2. CASE q = r
    <3>1. TombstoneGate(r) \/ Abandon(r)
      BY <1>1, <2>2 DEF RequestNext, GetMetaWithVersion, Fetch, PutMeta,
         RepairStart, DeleteMetaIfETag, RepairStamp, RepairTombstone, RepairDelete
    <3>2. ~Goto(r, "done")
      <4> SUFFICES ASSUME Goto(r, "done") PROVE FALSE
        OBVIOUS
      <4>1. PICK new \in PopRecords: new.pc = "done" /\ pop' = [pop EXCEPT ![r] = new]
        BY GotoStep
      <4>2. pop'[r] = new
        BY <4>1, Zenon DEF TypeOK
      <4>3. QED BY <4>1, <4>2
    <3>3. TombstoneGate(r)
      BY <3>1, <3>2 DEF Abandon
    <3>4. QED BY <3>2, <3>3 DEF TombstoneGate
  <2>3. QED BY <2>1, <2>2
<1>2. ASSUME NEW w \in Writers, WriterNext(w) PROVE pop' = pop
  BY <1>2, Zenon DEF WriterNext, PreForwardInvalidate, TombstoneStamp,
     DeleteMetaTombstone, DeleteMetaDelete, ForwardApplied, ForwardRejected
<1>3. CASE Tick \/ ExpireMeta \/ Quiescent
  BY <1>3 DEF Tick, ExpireMeta, Quiescent, vars
<1>4. QED BY <1>1, <1>2, <1>3 DEF Next

(* When the clocks agree, the tombstone gate lets no populate pass that holds *)
(* something older than a settled mutation, unless the tombstone it reads     *)
(* landed after one with a later stamp: for any number of populates and       *)
(* writers, any delay between a tombstone's stamp and its Put, whatever       *)
(* fails, and for every fetch and write timeout the TTL formula write + fetch *)
(* + margin is computed from.                                                 *)
THEOREM GateHolds == Skew = 0 => (Spec => GateBlocksStale)
<1> DEFINE Passes == \A r \in Requests:
                       pop[r].pc = "gate" /\ pop'[r].pc = "put"
                         => pop[r].n >= settled \/ tomb.ts < newest
<1>1. GateInv /\ [Next]_vars => [Passes]_vars
  <2> SUFFICES ASSUME GateInv, Next, NEW r \in Requests,
                      pop[r].pc = "gate", pop'[r].pc = "put"
               PROVE  pop[r].n >= settled \/ tomb.ts < newest
    OBVIOUS
  <2>0. SUFFICES ASSUME pop[r].n < settled, tomb.ts >= newest PROVE FALSE
    BY DEF GateInv, TypeOK, PopRecords
  <2>1. /\ TypeOK /\ pop[r].stamp \in Nat /\ pop[r].by \in Nat /\ now \in Nat
        /\ tomb.ts \in Nat /\ tomb.until \in Nat /\ newest \in Nat
        /\ PopulateTimed(pop[r]) /\ Outlives
    BY DEF GateInv, TypeOK, PopRecords
  <2>2. now <= pop[r].by /\ ~(TombstoneTimestamp >= pop[r].stamp)
    BY <2>1, PassedTheGate
  <2>3. /\ pop[r].stamp <= newest /\ pop[r].stamp > 0
        /\ pop[r].by = pop[r].stamp + FetchMax + WriteMax
    BY <2>0, <2>1 DEF PopulateTimed
  <2>4. tomb.until > tomb.ts + FetchMax + WriteMax
    BY <2>0, <2>1, <2>3 DEF Outlives
  <2>5. tomb.ts >= pop[r].stamp /\ now < tomb.until
    BY <2>0, <2>1, <2>2, <2>3, <2>4, LegacyAssumption
  <2>6. QED BY <2>2, <2>5 DEF TombstoneTimestamp
<1>2. Skew = 0 => (Spec => [][Passes]_vars)
  <2>1. SUFFICES ASSUME Skew = 0 PROVE Spec => [][Passes]_vars
    OBVIOUS
  <2>2. GateInv /\ [Next]_vars => GateInv'
    BY <2>1, GateStep
  <2>3. QED BY <1>1, <2>2, GateInit, PTL DEF Spec
<1>3. QED BY <1>2 DEF GateBlocksStale
=============================================================================
