-------------------------- MODULE BlockServeProofs --------------------------
(* Proofs about the block fetches and the entries of BlockServe, for any      *)
(* object, any block size, any number of requests and any number of fetch     *)
(* states and pooled buffers.                                                 *)
EXTENDS BlockServe, TLAPS

(* The leaves that need arithmetic or sequences say so with SMT.               *)
USE Zenon

-----------------------------------------------------------------------------
(* The inductive invariant of the fetches.                                    *)

(* A caller with a place in a fetch is one of its consumers.                  *)
Places == {"serve", "cache", "held"}

FetchTypes ==
    /\ inflight \in [Keys -> Fetches \cup {None}]
    /\ fetch \in [Fetches -> FetchRecords]
    /\ pool \subseteq Bufs
    /\ content \in [Bufs -> Keys \cup {None}]
    /\ lease \in [Callers -> [Blocks -> LeaseRecords]]

(* What runBlockFetch has done of fetch f, by where it is.                    *)
Stage(f) ==
    /\ fetch[f].pc = "free" => fetch[f] = FreeFetch
    /\ fetch[f].pc # "free" => fetch[f].key \in Keys /\ fetch[f].key[2] = f[1]
    /\ fetch[f].pc \in {"probe", "get"} => fetch[f].buf = None /\ fetch[f].serve = "open"
    /\ fetch[f].pc \in {"publish", "put"} =>
         fetch[f].buf # None /\ fetch[f].serve \in {"open", "ok"}
    /\ fetch[f].pc = "done" => fetch[f].serve # "open" /\ fetch[f].consumers # 0
    /\ (fetch[f].pc = "done") <=> (fetch[f].cache # "open")
    /\ fetch[f].buf # None => content[fetch[f].buf] = fetch[f].key

(* blockFetches lists exactly the fetches whose task has not ended.           *)
Listed ==
    /\ \A k \in Keys : inflight[k] # None =>
         fetch[inflight[k]].pc \notin {"free", "done"} /\ fetch[inflight[k]].key = k
    /\ \A f \in Fetches : fetch[f].pc \notin {"free", "done"} =>
         inflight[fetch[f].key] = f

Owned ==
    /\ \A f \in Fetches : fetch[f].buf # None =>
         /\ fetch[f].buf \notin pool
         /\ \A g \in Fetches \ {f} : fetch[g].buf # fetch[f].buf
    /\ \A b \in Bufs : b \in pool \/ \E f \in Fetches : fetch[f].buf = b

LeaseOK(c, i) ==
    /\ lease[c][i].at # None <=> lease[c][i].pc \in Places
    /\ lease[c][i].at # None => lease[c][i].at[1] = i
    /\ lease[c][i].pc = "held" =>
         /\ fetch[lease[c][i].at].serve = "ok"
         /\ lease[c][i].buf = fetch[lease[c][i].at].buf
         /\ lease[c][i].buf # None

At(f) == {p \in Callers \X Blocks : lease[p[1]][p[2]].at = f}

(* What the proofs use of Cardinality, a fact about the constants alone: it   *)
(* is part of the invariant so that the steps need not carry the theorems on  *)
(* finite sets, which are brought in where the invariant is first shown.      *)
Counting ==
    \A S \in SUBSET (Callers \X Blocks) :
        /\ Cardinality(S) \in Nat
        /\ Cardinality(S) = 0 <=> S = {}
        /\ \A p \in Callers \X Blocks :
             p \notin S => Cardinality(S \cup {p}) = Cardinality(S) + 1

Counted == \A f \in Fetches : fetch[f].consumers = Cardinality(At(f))

FetchInv ==
    /\ FetchTypes
    /\ \A f \in Fetches : Stage(f)
    /\ Listed
    /\ Owned
    /\ \A c \in Callers, i \in Blocks : LeaseOK(c, i)
    /\ Counted
    /\ Counting

-----------------------------------------------------------------------------
(* The inductive invariant of the requests.                                   *)

(* A request's record, with the fields the argument depends on typed.         *)
RecordOf(x) ==
    [pc: {x.pc}, path: {x.path}, piped: {x.piped}, req: Jobs \cup {NoJob},
     start: 0..(Size - 1), end: 0..(Size - 1), etag: Versions,
     complete: {x.complete}, token: Nat, i: Blocks,
     got: [Blocks -> Keys \cup {None, Absent}], left: {x.left},
     mostly: {x.mostly}, sent: {x.sent}, answer: {x.answer}]

Outside ==
    /\ upstream \in Versions \cup {None}
    /\ blocks \subseteq Keys
    /\ entry \in Entries /\ entry.ver # 0
    /\ seen \subseteq Blocks

(* The leases a request has, by what it is doing.                             *)
Seat(r, i) ==
    /\ lease[r][i].pc # "out" =>
         \/ rd[r].pc \in {"fetch", "copy"} /\ i \in Missing(r)
         \/ rd[r].pc = "giveup"
         \/ rd[r].pc = "refetch" /\ i = rd[r].i
    /\ lease[r][i].pc \in {"serve", "held"} =>
         rd[r].path = "assemble" /\ rd[r].pc \in {"fetch", "copy", "giveup"}
    /\ lease[r][i].pc \in {"serve", "cache"} => rd[r].pc \in {"fetch", "refetch"}
    /\ lease[r][i].at # None => fetch[lease[r][i].at].key = <<rd[r].etag, i>>

Control(r) ==
    /\ rd[r].pc \in {"stream", "recover", "refetch", "remainder"} =>
         rd[r].path \in {"probe", "first"}
    /\ rd[r].pc = "first" => rd[r].path = "first"
    /\ rd[r].pc = "scan" => rd[r].path \in {"assemble", "certified", "probe"}
    /\ rd[r].pc = "scan" /\ rd[r].path = "certified" =>
         \A i \in Blocks : rd[r].got[i] # Absent
    /\ rd[r].pc = "fetch" => rd[r].path \in {"assemble", "probe", "populate"}
    /\ rd[r].pc = "copy" => rd[r].path = "assemble"
    /\ rd[r].pc \in {"split", "publish"} => rd[r].path \in {"populate", "split"}
    /\ rd[r].pc = "token" => \/ rd[r].path = "populate"
                             \/ /\ rd[r].path = "probe" /\ rd[r].req.full
                                /\ rd[r].got = Nothing
    /\ /\ rd[r].req.full /\ rd[r].pc \notin {"idle", "done"}
       /\ rd[r].path \notin {"populate", "split"}
       => rd[r].start = 0 /\ rd[r].end = Size - 1
    /\ rd[r].pc \in {"idle", "token"} => rd[r].token = 0
    /\ rd[r].token # 0 /\ rd[r].pc # "done" =>
         \/ rd[r].path \in {"populate", "split"}
         \/ rd[r].path = "probe" /\ rd[r].req.full
    /\ rd[r].token <= entry.ver

(* The row is still the one the request read its token from.                  *)
Current(r) ==
    /\ rd[r].token # 0
    /\ entry.live /\ entry.etag = rd[r].etag /\ entry.ver = rd[r].token

(* The blocks a request with a promotion pending has found or made present.   *)
Tracks(r) ==
    Current(r) =>
      /\ rd[r].pc = "scan" =>
           \A i \in Blocks : rd[r].got[i] \in Keys => i \in seen
      /\ rd[r].pc = "fetch" /\ rd[r].path = "probe" =>
           \A i \in Blocks :
             \/ rd[r].got[i] # Absent
             \/ lease[r][i].pc = "ok"
             \/ lease[r][i].at # None /\ fetch[lease[r][i].at].cache = "ok"
             => i \in seen
      /\ rd[r].pc \in {"stream", "recover", "refetch", "remainder", "done"} =>
           seen = Blocks

ReaderInv(r) ==
    /\ rd[r] \in RecordOf(rd[r])
    /\ \A i \in Blocks : Seat(r, i)
    /\ Control(r)
    /\ Tracks(r)

Inv ==
    /\ FetchInv
    /\ Outside
    /\ rd = [r \in Readers |-> rd[r]]
    /\ \A r \in Readers : ReaderInv(r)

-----------------------------------------------------------------------------
(* Counting the consumers of a fetch.                                         *)

LEMMA SetsOfPlaces ==
  ASSUME Counting
  PROVE  /\ \A f : At(f) \in SUBSET (Callers \X Blocks)
         /\ \A f : Cardinality(At(f)) \in Nat /\ (Cardinality(At(f)) = 0 <=> At(f) = {})
         /\ \A f : Cardinality(At(f)') \in Nat /\ (Cardinality(At(f)') = 0 <=> At(f)' = {})
<1>1. \A f : At(f) \in SUBSET (Callers \X Blocks) /\ At(f)' \in SUBSET (Callers \X Blocks)
  BY DEF At
<1> QED  BY <1>1 DEF Counting

(* The place of caller c in block i becomes new; all others stay.             *)
Reseated(c, i, new) ==
    /\ lease' \in [Callers -> [Blocks -> LeaseRecords]]
    /\ lease'[c][i] = new
    /\ \A d \in Callers, j \in Blocks : d # c \/ j # i => lease'[d][j] = lease[d][j]

(* A lease that stays is sound as long as its fetch keeps its outcome and     *)
(* its buffer.                                                                *)
LEMMA LeaseStays ==
  ASSUME NEW c, NEW i, LeaseOK(c, i), lease'[c][i] = lease[c][i],
         lease[c][i].pc = "held" /\ fetch[lease[c][i].at].serve = "ok" =>
           /\ fetch'[lease[c][i].at].serve = "ok"
           /\ fetch'[lease[c][i].at].buf = fetch[lease[c][i].at].buf
  PROVE  LeaseOK(c, i)'
BY DEF LeaseOK

LEMMA Reseating ==
  ASSUME FetchTypes, NEW c \in Callers, NEW i \in Blocks, NEW new \in LeaseRecords,
         lease' = [lease EXCEPT ![c][i] = new]
  PROVE  Reseated(c, i, new)
BY DEF FetchTypes, Reseated

(* A fetch that counts no consumers is one that no lease is a place in.       *)
LEMMA NobodyThere ==
  ASSUME Counting, NEW f \in Fetches, Cardinality(At(f)) = 0, NEW c \in Callers, NEW i \in Blocks
  PROVE  lease[c][i].at # f
<1>1. At(f) = {}
  BY SetsOfPlaces
<1>2. lease[c][i].at = f => <<c, i>> \in At(f)
  BY DEF At
<1> QED  BY <1>1, <1>2

-----------------------------------------------------------------------------
(* The steps of the fetches preserve their invariant.                         *)

(* The end of the cache write, or of one consumer, leaves state f as new: it  *)
(* is retired with its buffer when neither is left.                           *)
LEMMA Settling ==
  ASSUME FetchInv, NEW f \in Fetches, NEW new \in FetchRecords, Settle(f, new),
         fetch[f].pc # "free", new.pc # "free",
         new.key = fetch[f].key, new.buf = fetch[f].buf,
         (new.pc = "done") <=> (new.cache # "open"),
         new.pc = "done" => new.serve # "open",
         new.pc # "done" => new.pc = fetch[f].pc /\ new.serve = fetch[f].serve,
         fetch[f].serve = "ok" => new.serve = "ok",
         lease' \in [Callers -> [Blocks -> LeaseRecords]],
         \A c \in Callers, i \in Blocks :
           \/ lease'[c][i] = lease[c][i]
           \/ lease'[c][i].at = None /\ lease'[c][i].pc \notin Places,
         new.consumers = Cardinality(At(f)'),
         \A g \in Fetches : g # f => At(g)' = At(g)
  PROVE  FetchInv'
<1>a. Stage(f) /\ new.key \in Keys
  BY DEF Stage, FetchInv
<1>b. FreeFetch \in FetchRecords
  BY DEF FreeFetch, FetchRecords
<1>1. /\ fetch' \in [Fetches -> FetchRecords]
      /\ fetch'[f] = IF new.consumers = 0 /\ new.cache # "open" THEN FreeFetch ELSE new
      /\ \A g \in Fetches : g # f => fetch'[g] = fetch[g]
  BY <1>b DEF Settle, Retired, FetchTypes, FetchInv
<1>2. /\ inflight' \in [Keys -> Fetches \cup {None}]
      /\ \A k \in Keys : inflight'[k] = IF new.cache # "open" /\ k = new.key /\ inflight[k] = f
                                         THEN None ELSE inflight[k]
  BY <1>a DEF Settle, FetchTypes, FetchInv
<1>3. DEFINE back == IF new.consumers = 0 /\ new.cache # "open" /\ new.buf # None
                     THEN {new.buf} ELSE {}
<1>4. /\ pool' = pool \cup back
      /\ content' \in [Bufs -> Keys \cup {None}]
      /\ \A b \in Bufs : b \notin back => content'[b] = content[b]
  BY DEF Settle, Returns, FetchTypes, FetchInv
<1>5. back \subseteq Bufs
  BY DEF FetchRecords
<1>6. FetchTypes'
  BY <1>1, <1>2, <1>4, <1>5 DEF FetchTypes, FetchInv
<1>7. ASSUME NEW g \in Fetches PROVE Stage(g)'
  <2>1. Stage(g)
    BY DEF FetchInv
  <2>2. g # f => (fetch[g].buf # None => fetch[g].buf \notin back /\ fetch[g].buf \in Bufs)
    BY SMT DEF Owned, FetchTypes, FetchRecords, FetchInv
  <2>3. CASE g # f
    BY <1>1, <1>4, <2>1, <2>2, <2>3, SMT DEF Stage
  <2>4. CASE g = f /\ new.consumers = 0 /\ new.cache # "open"
    BY <1>1, <2>4, SMT DEF Stage, FreeFetch
  <2>5. CASE g = f /\ ~(new.consumers = 0 /\ new.cache # "open")
    <3>1. fetch'[g] = new /\ back = {}
      BY <1>1, <2>5
    <3>2. new.buf # None => content'[new.buf] = content[new.buf] /\ new.buf \in Bufs
      BY <1>4, <3>1 DEF FetchRecords
    <3> HIDE DEF back
    <3> QED  BY <2>1, <2>5, <3>1, <3>2, <1>a, SMT DEF Stage
  <2> QED  BY <2>3, <2>4, <2>5
<1>8. Listed'
  <2>1. \A k \in Keys : inflight'[k] # None =>
          fetch'[inflight'[k]].pc \notin {"free", "done"} /\ fetch'[inflight'[k]].key = k
    <3> SUFFICES ASSUME NEW k \in Keys, inflight'[k] # None
                 PROVE  fetch'[inflight[k]].pc \notin {"free", "done"}
                        /\ fetch'[inflight[k]].key = k
      BY <1>2
    <3>1. inflight[k] \in Fetches /\ inflight'[k] = inflight[k]
      BY <1>2 DEF FetchTypes
    <3>2. fetch[inflight[k]].pc \notin {"free", "done"} /\ fetch[inflight[k]].key = k
      BY <3>1, BlockFetchAssumption DEF Listed, FetchInv
    <3>3. inflight[k] = f => new.cache = "open" /\ new.pc \notin {"free", "done"}
      BY <1>2, <3>1, <3>2, BlockFetchAssumption, SMT
    <3> QED  BY <1>1, <3>1, <3>2, <3>3
  <2>2. ASSUME NEW g \in Fetches, fetch'[g].pc \notin {"free", "done"}
        PROVE  inflight'[fetch'[g].key] = g
    <3>1. fetch'[g].key = fetch[g].key /\ fetch[g].pc \notin {"free", "done"}
          /\ (g = f => new.cache = "open")
      BY <1>1, <2>2, SMT DEF FreeFetch, Stage
    <3>2. fetch[g].key \in Keys /\ inflight[fetch[g].key] = g
      BY <3>1 DEF Listed, Stage, FetchInv
    <3> QED  BY <1>2, <3>1, <3>2
  <2> QED  BY <2>1, <2>2 DEF Listed
<1>9. Owned'
  <2>1. \A g \in Fetches : fetch'[g].buf # None =>
          fetch'[g].buf = fetch[g].buf /\ fetch[g].buf \notin back
    BY <1>1, SMT DEF Owned, FreeFetch, FetchInv
  <2>2. \A b \in back : fetch'[f].buf = None
    BY <1>1, SMT DEF FreeFetch
  <2>3. \A b \in Bufs : b \in pool' \/ \E g \in Fetches : fetch'[g].buf = b
    <3> SUFFICES ASSUME NEW b \in Bufs, b \notin pool'
                 PROVE  \E g \in Fetches : fetch'[g].buf = b
      OBVIOUS
    <3>1. PICK g \in Fetches : fetch[g].buf = b
      BY <1>4 DEF Owned, FetchInv
    <3>2. b # None
      BY BlockFetchAssumption
    <3>3. fetch'[g].buf = b
      BY <1>1, <1>4, <3>1, <3>2
    <3> QED  BY <3>3
  <2> HIDE DEF back
  <2> QED  BY <1>4, <2>1, <2>3, SMT DEF Owned, FetchInv
<1>10. ASSUME NEW c \in Callers, NEW i \in Blocks PROVE LeaseOK(c, i)'
  <2>1. CASE lease'[c][i].at = None /\ lease'[c][i].pc \notin Places
    BY <2>1 DEF LeaseOK, Places
  <2>2. CASE lease'[c][i] = lease[c][i]
    <3>1. LeaseOK(c, i)
      BY DEF FetchInv
    <3>2. lease[c][i].at \in Fetches \cup {None} /\ lease[c][i].pc = "held" => lease[c][i].at # None
      BY <3>1 DEF LeaseOK, Places
    <3>3. lease[c][i].pc = "held" => lease[c][i].at \in Fetches
      BY <3>1, SMT DEF LeaseOK, Places, FetchTypes, LeaseRecords, FetchInv
    <3>4. CASE lease[c][i].pc = "held" /\ lease[c][i].at = f
      <4>1. new.consumers # 0
        <5>1. <<c, i>> \in At(f)'
          BY <2>2, <3>4 DEF At
        <5>2. Cardinality(At(f)') # 0
          BY <5>1, SetsOfPlaces DEF FetchInv
        <5> QED  BY <5>2
      <4> QED  BY <1>1, <2>2, <3>1, <3>4, <4>1, SMT DEF LeaseOK
    <3> QED  BY <1>1, <2>2, <3>1, <3>3, <3>4 DEF LeaseOK
  <2> QED  BY <2>1, <2>2
<1>11. Counted'
  <2>1. ASSUME NEW g \in Fetches PROVE fetch'[g].consumers = Cardinality(At(g)')
    BY <1>1, SMT DEF Counted, FreeFetch, FetchInv
  <2> QED  BY <2>1 DEF Counted
<1> QED  BY <1>6, <1>7, <1>8, <1>9, <1>10, <1>11 DEF FetchInv

(* The fetches that go on keep their keys and their outcomes.                 *)
Carried(g) == fetch'[g].pc # "free" =>
    /\ fetch[g].pc # "free"
    /\ fetch'[g].key = fetch[g].key
    /\ fetch'[g].cache = fetch[g].cache

Answered(answer) == [NoLease EXCEPT !.pc = answer]

LEMMA Releasing ==
  ASSUME FetchInv, NEW c \in Callers, NEW i \in Blocks, lease[c][i].pc \in Places,
         NEW answer \in {"out", "ok", "error", "stale", "canceled"},
         Release(c, i, answer)
  PROVE  /\ FetchInv'
         /\ Reseated(c, i, Answered(answer))
         /\ Answered(answer) = [pc |-> answer, at |-> None, buf |-> None]
         /\ \A g \in Fetches : Carried(g)
<1>Leaving.
      ASSUME Counting, FetchTypes, NEW new \in LeaseRecords,
             Reseated(c, i, new), NEW f \in Fetches, lease[c][i].at = f, new.at = None
      PROVE  /\ Cardinality(At(f)) \in Nat \ {0}
             /\ Cardinality(At(f)') = Cardinality(At(f)) - 1
             /\ \A g \in Fetches : g # f => At(g)' = At(g)
  <2> USE <1>Leaving
  <2>0. None # f
    BY BlockFetchAssumption
  <2>1. At(f)' = At(f) \ {<<c, i>>}
    BY <2>0, SMT DEF At, Reseated
  <2>2. <<c, i>> \in At(f)
    BY DEF At
  <2>3. \A g \in Fetches : g # f => At(g)' = At(g)
    BY BlockFetchAssumption, SMT DEF At, Reseated
  <2>4. Cardinality(At(f)) \in Nat /\ Cardinality(At(f)') \in Nat
    BY SetsOfPlaces
  <2>5. Cardinality(At(f)) = Cardinality(At(f)') + 1
    <3>1. PICK S : S = At(f)'
      OBVIOUS
    <3>2. PICK p \in Callers \X Blocks : p = <<c, i>>
      OBVIOUS
    <3>3. S \in SUBSET (Callers \X Blocks) /\ p \notin S /\ At(f) = S \cup {p}
      BY <2>1, <2>2, <3>1, <3>2, SetsOfPlaces
    <3>4. Cardinality(S \cup {p}) = Cardinality(S) + 1
      BY <3>3 DEF Counting
    <3> QED  BY <3>1, <3>3, <3>4
  <2> QED  BY <2>3, <2>4, <2>5, SMT
<1>1. PICK f \in Fetches : f = lease[c][i].at
  BY SMT DEF LeaseOK, FetchTypes, LeaseRecords, FetchInv
<1> DEFINE new == [fetch[f] EXCEPT !.consumers = @ - 1]
<1>2. Settle(f, new) /\ lease' = [lease EXCEPT ![c][i] = Answered(answer)]
  BY <1>1 DEF Release, Answered
<1>3. /\ Answered(answer) \in LeaseRecords
      /\ Answered(answer) = [pc |-> answer, at |-> None, buf |-> None]
  BY SMT DEF Answered, NoLease, LeaseRecords
<1>4. Reseated(c, i, Answered(answer))
  BY <1>2, <1>3, Reseating DEF FetchInv
<1>5. /\ Cardinality(At(f)) \in Nat \ {0}
      /\ Cardinality(At(f)') = Cardinality(At(f)) - 1
      /\ \A g \in Fetches : g # f => At(g)' = At(g)
  BY <1>1, <1>3, <1>4, <1>Leaving, SMT DEF FetchInv
<1>6. /\ fetch[f] \in FetchRecords /\ fetch[f].consumers = Cardinality(At(f))
      /\ Stage(f)
  BY <1>1 DEF Counted, FetchTypes, FetchInv
<1>7. /\ new \in FetchRecords
      /\ new.consumers = Cardinality(At(f)')
      /\ new.pc = fetch[f].pc /\ new.key = fetch[f].key /\ new.buf = fetch[f].buf
      /\ new.serve = fetch[f].serve /\ new.cache = fetch[f].cache
  BY <1>5, <1>6, SMT DEF FetchRecords
<1> HIDE DEF new
<1>8. fetch[f].pc # "free"
  BY <1>5, <1>6, SMT DEF Stage, FreeFetch
<1>9. /\ (new.pc = "done") <=> (new.cache # "open")
      /\ new.pc = "done" => new.serve # "open"
  BY <1>6, <1>7 DEF Stage
<1>10. /\ lease' \in [Callers -> [Blocks -> LeaseRecords]]
       /\ \A d \in Callers, j \in Blocks :
           \/ lease'[d][j] = lease[d][j]
           \/ lease'[d][j].at = None /\ lease'[d][j].pc \notin Places
  <2>1. /\ lease' \in [Callers -> [Blocks -> LeaseRecords]]
        /\ lease'[c][i] = Answered(answer)
        /\ \A d \in Callers, j \in Blocks : d # c \/ j # i => lease'[d][j] = lease[d][j]
    BY <1>4 DEF Reseated
  <2>2. Answered(answer).pc \notin Places /\ Answered(answer).at = None
    BY <1>3, SMT DEF Places
  <2> QED  BY <2>1, <2>2
<1>11. FetchInv'
  <2>1. /\ new.pc # "free" /\ (fetch[f].serve = "ok" => new.serve = "ok")
        /\ new.pc # "done" => new.pc = fetch[f].pc /\ new.serve = fetch[f].serve
    BY <1>7, <1>8
  <2> QED  BY <1>2, <1>5, <1>7, <1>8, <1>9, <1>10, <2>1, Settling
<1>12. \A g \in Fetches : Carried(g)
  BY <1>1, <1>2, <1>7, <1>8 DEF Settle, Retired, Carried, FetchTypes, FreeFetch, FetchInv
<1> QED  BY <1>3, <1>4, <1>11, <1>12

(* A change of the leases alone, of callers that have no place in a fetch.    *)
LEMMA Clearing ==
  ASSUME FetchInv, UNCHANGED <<inflight, fetch, pool, content>>,
         lease' \in [Callers -> [Blocks -> LeaseRecords]],
         \A c \in Callers, i \in Blocks :
           \/ lease'[c][i] = lease[c][i]
           \/ /\ lease[c][i].at = None
              /\ lease'[c][i].at = None /\ lease'[c][i].pc \notin Places
  PROVE  FetchInv'
<1>1. \A f \in Fetches : f # None
  BY BlockFetchAssumption
<1>2. \A f \in Fetches : At(f)' = At(f)
  BY <1>1, SMT DEF At
<1>3. FetchTypes' /\ Listed' /\ Owned'
  BY DEF FetchTypes, Listed, Owned, FetchInv
<1>4. \A f \in Fetches : Stage(f)'
  BY DEF Stage, FetchInv
<1>5. Counted'
  BY <1>2 DEF Counted, FetchInv
<1>6. \A c \in Callers, i \in Blocks : LeaseOK(c, i)'
  BY SMT DEF LeaseOK, Places, FetchInv
<1> QED  BY <1>3, <1>4, <1>5, <1>6 DEF FetchInv

LEMMA Still ==
  ASSUME FetchInv, UNCHANGED <<inflight, fetch, pool, content, lease>>
  PROVE  FetchInv'
BY Clearing DEF FetchInv, FetchTypes

(* beginBlockFetch, by whether a fetch is in flight.                          *)
Joins(c, i, k, want, f) ==
    /\ lease[c][i].pc = "out" /\ inflight[k] = f
    /\ fetch' = [fetch EXCEPT ![f].consumers = @ + 1]
    /\ lease' = [lease EXCEPT ![c][i] = [pc |-> want, at |-> f, buf |-> None]]
    /\ UNCHANGED <<inflight, pool, content>>

Starts(c, i, k, want, f, pc) ==
    /\ lease[c][i].pc = "out" /\ inflight[k] = None
    /\ fetch' = [fetch EXCEPT ![f] = [FreeFetch EXCEPT !.pc = pc, !.key = k,
                                                       !.consumers = 1]]
    /\ inflight' = [inflight EXCEPT ![k] = f]
    /\ lease' = [lease EXCEPT ![c][i] = [pc |-> want, at |-> f, buf |-> None]]
    /\ UNCHANGED <<pool, content>>

LEMMA Beginning ==
  ASSUME FetchInv, NEW c \in Callers, NEW i \in Blocks, NEW v \in Versions,
         NEW want \in {"serve", "cache"}, NEW known,
         beginBlockFetch(c, v, i, want, known)
  PROVE  /\ FetchInv'
         /\ lease[c][i].pc = "out"
         /\ \E f \in Fetches :
              /\ Reseated(c, i, [pc |-> want, at |-> f, buf |-> None])
              /\ fetch'[f].key = <<v, i>> /\ fetch'[f].cache = "open"
         /\ \A g \in Fetches : fetch[g].pc # "free" => Carried(g)
<1>Entering.
      ASSUME Counting, FetchTypes, NEW new \in LeaseRecords,
             Reseated(c, i, new), NEW f \in Fetches, lease[c][i].at = None, new.at = f
      PROVE  /\ Cardinality(At(f)) \in Nat
             /\ Cardinality(At(f)') = Cardinality(At(f)) + 1
             /\ \A g \in Fetches : g # f => At(g)' = At(g)
  <2> USE <1>Entering
  <2>0. None # f
    BY BlockFetchAssumption
  <2>1. At(f)' = At(f) \cup {<<c, i>>}
    BY <2>0, SMT DEF At, Reseated
  <2>2. <<c, i>> \notin At(f)
    BY <2>0 DEF At
  <2>3. \A g \in Fetches : g # f => At(g)' = At(g)
    BY BlockFetchAssumption, SMT DEF At, Reseated
  <2>4. Cardinality(At(f)) \in Nat
    BY SetsOfPlaces
  <2>5. Cardinality(At(f) \cup {<<c, i>>}) = Cardinality(At(f)) + 1
    BY <2>2, SetsOfPlaces DEF Counting
  <2> QED  BY <2>1, <2>3, <2>4, <2>5
<1>NewFetchFree.
      ASSUME NEW f \in NewFetch(i)
      PROVE  f \in Fetches /\ f[1] = i /\ fetch[f].pc = "free"
  <2> USE <1>NewFetchFree
  <2>1. PICK n \in Slots : f = <<i, n>> /\ fetch[<<i, n>>].pc = "free"
    BY DEF NewFetch
  <2> QED  BY <2>1 DEF Fetches
\* A caller enters the fetch in flight.
<1>Joining.
      ASSUME NEW k \in Keys, k[2] = i,
             NEW f \in Fetches, Joins(c, i, k, want, f)
      PROVE  /\ FetchInv'
             /\ Reseated(c, i, [pc |-> want, at |-> f, buf |-> None])
             /\ fetch'[f].key = k /\ fetch'[f].cache = "open"
             /\ \A g \in Fetches : Carried(g)
  <2> USE <1>Joining
  <2> DEFINE new == [pc |-> want, at |-> f, buf |-> None]
  <2>1. new \in LeaseRecords /\ new.at = f /\ new.pc = want
    BY DEF LeaseRecords
  <2>2. Reseated(c, i, new)
    BY <2>1, Reseating DEF Joins, FetchInv
  <2>3. lease[c][i].at = None
    BY DEF LeaseOK, Places, Joins, FetchInv
  <2>4. /\ Cardinality(At(f)) \in Nat
        /\ Cardinality(At(f)') = Cardinality(At(f)) + 1
        /\ \A g \in Fetches : g # f => At(g)' = At(g)
    BY <2>1, <2>2, <2>3, <1>Entering DEF FetchInv
  <2>5. /\ Stage(f) /\ fetch[f] \in FetchRecords
        /\ fetch[f].pc \notin {"free", "done"} /\ fetch[f].key = k
    BY BlockFetchAssumption, SMT DEF Listed, FetchTypes, Joins, FetchInv
  <2>a. /\ fetch'[f] = [fetch[f] EXCEPT !.consumers = @ + 1]
        /\ \A g \in Fetches : g # f => fetch'[g] = fetch[g]
        /\ fetch' = [g \in Fetches |-> fetch'[g]]
    BY DEF FetchTypes, Joins, FetchInv
  <2>b. /\ fetch'[f] \in FetchRecords
        /\ fetch'[f].pc = fetch[f].pc /\ fetch'[f].key = fetch[f].key
        /\ fetch'[f].buf = fetch[f].buf /\ fetch'[f].serve = fetch[f].serve
        /\ fetch'[f].cache = fetch[f].cache
        /\ fetch'[f].consumers = fetch[f].consumers + 1
    BY <2>a, <2>5, SMT DEF FetchRecords
  <2>c. ASSUME NEW g \in Fetches PROVE fetch'[g] \in FetchRecords
    BY <2>a, <2>b DEF FetchTypes, FetchInv
  <2>6. /\ fetch' \in [Fetches -> FetchRecords]
        /\ fetch'[f].consumers = fetch[f].consumers + 1
        /\ \A g \in Fetches : /\ fetch'[g].pc = fetch[g].pc /\ fetch'[g].key = fetch[g].key
                              /\ fetch'[g].buf = fetch[g].buf
                              /\ fetch'[g].serve = fetch[g].serve
                              /\ fetch'[g].cache = fetch[g].cache
                              /\ g # f => fetch'[g] = fetch[g]
    BY <2>a, <2>b, <2>c
  <2>7. FetchTypes'
    BY <2>2, <2>6 DEF FetchTypes, Reseated, Joins, FetchInv
  <2>8. \A g \in Fetches : Stage(g)'
    BY <2>5, <2>6, SMT DEF Stage, Joins, FetchInv
  <2>9. Listed' /\ Owned'
    BY <2>6, SMT DEF Listed, Owned, FetchTypes, Joins, FetchInv
  <2>10. Counted'
    BY <2>4, <2>6 DEF Counted, FetchInv
  <2>11. f[1] = i
    BY <2>5 DEF Stage
  <2>12. ASSUME NEW d \in Callers, NEW j \in Blocks PROVE LeaseOK(d, j)'
    <3>1. CASE d = c /\ j = i
      <4>1. lease'[c][i].at = f /\ lease'[c][i].pc = want
        BY <2>1, <2>2 DEF Reseated
      <4>2. f # None
        BY BlockFetchAssumption
      <4> QED  BY <2>11, <3>1, <4>1, <4>2 DEF LeaseOK, Places
    <3>2. CASE d # c \/ j # i
      <4>1. lease'[d][j] = lease[d][j] /\ LeaseOK(d, j)
        BY <2>2, <3>2 DEF Reseated, FetchInv
      <4>2. lease[d][j].pc = "held" => lease[d][j].at \in Fetches
        BY <4>1, SMT DEF LeaseOK, Places, FetchTypes, LeaseRecords, FetchInv
      <4> QED  BY <2>6, <4>1, <4>2, LeaseStays
    <3> QED  BY <3>1, <3>2
  <2>13. fetch'[f].key = k /\ fetch'[f].cache = "open" /\ \A g \in Fetches : Carried(g)
    BY <2>5, <2>6 DEF Carried, Stage
  <2> QED  BY <2>2, <2>7, <2>8, <2>9, <2>10, <2>12, <2>13 DEF FetchInv
\* A caller starts a fetch.
<1>Starting.
      ASSUME NEW k \in Keys, k[2] = i,
             NEW f \in Fetches, f[1] = i,
             fetch[f].pc = "free", NEW pc \in {"probe", "get"},
             Starts(c, i, k, want, f, pc)
      PROVE  /\ FetchInv'
             /\ Reseated(c, i, [pc |-> want, at |-> f, buf |-> None])
             /\ fetch'[f].key = k /\ fetch'[f].cache = "open"
             /\ \A g \in Fetches : g # f => Carried(g)
  <2> USE <1>Starting
  <2> DEFINE new == [pc |-> want, at |-> f, buf |-> None]
  <2>1. new \in LeaseRecords /\ new.at = f /\ new.pc = want
    BY DEF LeaseRecords
  <2>2. Reseated(c, i, new)
    BY <2>1, Reseating DEF Starts, FetchInv
  <2>3. lease[c][i].at = None
    BY DEF LeaseOK, Places, Starts, FetchInv
  <2>4. /\ Cardinality(At(f)) \in Nat
        /\ Cardinality(At(f)') = Cardinality(At(f)) + 1
        /\ \A g \in Fetches : g # f => At(g)' = At(g)
    BY <2>1, <2>2, <2>3, <1>Entering, SMT DEF FetchInv
  <2>5. fetch[f] = FreeFetch
    BY DEF Stage, FetchInv
  <2>6. Cardinality(At(f)) = 0
    BY <2>5, SMT DEF Counted, FreeFetch, FetchInv
  <2>7. /\ fetch' \in [Fetches -> FetchRecords]
        /\ fetch'[f] = [pc |-> pc, key |-> k, consumers |-> 1, buf |-> None,
                        serve |-> "open", cache |-> "open"]
        /\ \A g \in Fetches : g # f => fetch'[g] = fetch[g]
    BY DEF FetchTypes, FetchRecords, FreeFetch, Starts, FetchInv
  <2>8. /\ inflight' \in [Keys -> Fetches \cup {None}]
        /\ inflight'[k] = f
        /\ \A h \in Keys : h # k => inflight'[h] = inflight[h]
        /\ inflight[k] = None /\ pool' = pool /\ content' = content
    BY DEF FetchTypes, Starts, FetchInv
  <2>9. FetchTypes'
    BY <2>2, <2>7, <2>8 DEF FetchTypes, Reseated, FetchInv
  <2>a. Stage(f)'
    <3>1. /\ fetch'[f].pc = pc /\ fetch'[f].key = k /\ fetch'[f].buf = None
          /\ fetch'[f].serve = "open" /\ fetch'[f].cache = "open"
      BY <2>7, SMT
    <3> QED  BY <3>1 DEF Stage
  <2>b. ASSUME NEW g \in Fetches, g # f PROVE Stage(g)'
    BY <2>7, <2>8, <2>b, SMT DEF Stage, FetchInv
  <2>10. \A g \in Fetches : Stage(g)'
    BY <2>a, <2>b
  <2>11. Listed'
    <3>1. \A h \in Keys : inflight'[h] # None =>
            fetch'[inflight'[h]].pc \notin {"free", "done"} /\ fetch'[inflight'[h]].key = h
      BY <2>7, <2>8, SMT DEF Listed, FetchTypes, FetchInv
    <3>2. ASSUME NEW g \in Fetches, fetch'[g].pc \notin {"free", "done"}
          PROVE  inflight'[fetch'[g].key] = g
      <4>1. CASE g = f
        BY <2>7, <2>8, <4>1, SMT
      <4>2. CASE g # f
        <5>1. fetch[g].key \in Keys /\ inflight[fetch[g].key] = g
          BY <2>7, <3>2, <4>2, SMTT(30) DEF Listed, Stage, FetchInv
        <5>2. fetch[g].key # k
          BY <2>8, <5>1, BlockFetchAssumption
        <5> QED  BY <2>7, <2>8, <4>2, <5>1, <5>2
      <4> QED  BY <4>1, <4>2
    <3> QED  BY <3>1, <3>2 DEF Listed
  <2>12. Owned'
    <3>1. \A g \in Fetches : fetch'[g].buf = fetch[g].buf
      BY <2>5, <2>7, SMT DEF FreeFetch
    <3> QED  BY <2>8, <3>1, SMT DEF Owned, FetchInv
  <2>13. Counted'
    BY <2>4, <2>6, <2>7, SMT DEF Counted, FetchInv
  <2>14. ASSUME NEW d \in Callers, NEW j \in Blocks PROVE LeaseOK(d, j)'
    <3>1. CASE d = c /\ j = i
      <4>1. lease'[c][i].at = f /\ lease'[c][i].pc = want
        BY <2>1, <2>2 DEF Reseated
      <4>2. f # None
        BY BlockFetchAssumption
      <4> QED  BY <3>1, <4>1, <4>2 DEF LeaseOK, Places
    <3>2. CASE d # c \/ j # i
      <4>1. lease'[d][j] = lease[d][j] /\ LeaseOK(d, j)
        BY <2>2, <3>2 DEF Reseated, FetchInv
      <4>2. lease[d][j].pc = "held" => lease[d][j].at \in Fetches
        BY <4>1, SMT DEF LeaseOK, Places, FetchTypes, LeaseRecords, FetchInv
      <4>3. lease[d][j].at # f
        BY <2>6, NobodyThere DEF FetchInv
      <4> QED  BY <2>7, <4>1, <4>2, <4>3, LeaseStays
    <3> QED  BY <3>1, <3>2
  <2>15. fetch'[f].key = k /\ fetch'[f].cache = "open"
    BY <2>7, SMT
  <2>16. \A g \in Fetches : g # f => Carried(g)
    BY <2>7 DEF Carried
  <2> QED  BY <2>2, <2>9, <2>10, <2>11, <2>12, <2>13, <2>14, <2>15, <2>16 DEF FetchInv
<1> DEFINE k == <<v, i>>
<1>1. k \in Keys /\ k[2] = i /\ lease[c][i].pc = "out"
  BY DEF Keys, beginBlockFetch
<1>2. CASE inflight[k] # None
  <2>1. PICK f \in Fetches : inflight[k] = f
    BY <1>1, <1>2 DEF FetchInv, FetchTypes
  <2>2. Joins(c, i, k, want, f)
    BY <1>2, <2>1 DEF beginBlockFetch, Joins
  <2> HIDE DEF k
  <2>3. /\ FetchInv'
        /\ Reseated(c, i, [pc |-> want, at |-> f, buf |-> None])
        /\ fetch'[f].key = k /\ fetch'[f].cache = "open"
        /\ \A g \in Fetches : Carried(g)
    BY <1>1, <2>2, <1>Joining, SMT
  <2> QED  BY <1>1, <2>3 DEF k
<1>3. CASE inflight[k] = None
  <2>1. PICK f \in NewFetch(i) :
          /\ fetch' = [fetch EXCEPT ![f] =
               [FreeFetch EXCEPT !.pc = IF known THEN "get" ELSE "probe",
                                 !.key = k, !.consumers = 1]]
          /\ inflight' = [inflight EXCEPT ![k] = f]
          /\ lease' = [lease EXCEPT ![c][i] = [pc |-> want, at |-> f, buf |-> None]]
    BY <1>3 DEF beginBlockFetch
  <2>2. f \in Fetches /\ f[1] = i /\ fetch[f].pc = "free"
    BY <1>NewFetchFree
  <2>3. PICK pc \in {"probe", "get"} : pc = IF known THEN "get" ELSE "probe"
    OBVIOUS
  <2>4. Starts(c, i, k, want, f, pc)
    BY <1>1, <1>3, <2>1, <2>3 DEF beginBlockFetch, Starts
  <2> HIDE DEF k
  <2>5. /\ FetchInv'
        /\ Reseated(c, i, [pc |-> want, at |-> f, buf |-> None])
        /\ fetch'[f].key = k /\ fetch'[f].cache = "open"
        /\ \A g \in Fetches : g # f => Carried(g)
    BY <1>1, <2>2, <2>4, <1>Starting, SMT
  <2> QED  BY <1>1, <2>2, <2>5 DEF k
<1> QED  BY <1>2, <1>3

(* A step within the task of f, which may take a buffer of the pool.          *)
Works(f, new) ==
    /\ fetch' = [fetch EXCEPT ![f] = new]
    /\ \/ new.buf = fetch[f].buf /\ UNCHANGED <<pool, content>>
       \/ /\ fetch[f].buf = None /\ new.buf \in pool
          /\ pool' = pool \ {new.buf}
          /\ content' = [content EXCEPT ![new.buf] = new.key]
    /\ UNCHANGED <<inflight, lease>>

(* The write of a local owner fails: the buffer goes back, and f fails with   *)
(* nobody holding it.                                                         *)
FailedWrite(f) ==
    /\ fetch[f].pc = "put" /\ fetch[f].serve = "open"
    /\ fetch' = [fetch EXCEPT ![f] = Retired(
         [Finished(f, "error", "error") EXCEPT !.buf = None])]
    /\ pool' = pool \cup {fetch[f].buf}
    /\ content' = [content EXCEPT ![fetch[f].buf] = None]
    /\ inflight' = [inflight EXCEPT ![fetch[f].key] = None]
    /\ UNCHANGED lease

(* A place is always in a fetch that is still there.                          *)
Placed ==
    \A c \in Callers, i \in Blocks : lease[c][i].at # None =>
      lease[c][i].at \in Fetches /\ fetch[lease[c][i].at].pc # "free"

LEMMA Clean == FetchInv => Placed
<1> SUFFICES ASSUME FetchInv, NEW c \in Callers, NEW i \in Blocks, lease[c][i].at # None
             PROVE  lease[c][i].at \in Fetches /\ fetch[lease[c][i].at].pc # "free"
  BY DEF Placed
<1>1. PICK f \in Fetches : f = lease[c][i].at
  BY SMT DEF FetchInv, FetchTypes, LeaseRecords
<1>2. Cardinality(At(f)) # 0
  BY <1>1, NobodyThere DEF FetchInv
<1> QED  BY <1>1, <1>2, SMT DEF FetchInv, Counted, Stage, FreeFetch

(* What a task may change for those who wait for it.                          *)
TaskEffect(f) ==
    /\ lease' = lease /\ upstream' = upstream
    /\ blocks \subseteq blocks' /\ blocks' \subseteq Keys
    /\ \A g \in Fetches : g # f => Carried(g)
    /\ fetch'[f].pc # "free" =>
         /\ fetch[f].pc # "free" /\ fetch'[f].key = fetch[f].key
         /\ fetch'[f].cache = "ok" => fetch[f].key \in blocks'

LEMMA TaskSteps ==
  ASSUME FetchInv, blocks \subseteq Keys, NEW f \in Fetches, FetchTask(f)
  PROVE  FetchInv' /\ TaskEffect(f)
\* The task of f ends, with these outcomes.
<1>Finishing.
      ASSUME fetch[f].pc \in {"probe", "get", "put"},
             NEW serve \in {"ok", "error", "stale"}, NEW cache \in {"ok", "error", "stale"},
             fetch[f].pc = "put" => serve = "ok",
             Settle(f, Finished(f, serve, cache)), UNCHANGED lease
      PROVE  /\ FetchInv'
             /\ \A g \in Fetches : g # f => Carried(g)
             /\ fetch'[f].pc # "free" => fetch'[f].key = fetch[f].key /\ fetch'[f].cache = cache
  <2> USE <1>Finishing
  <2> DEFINE new == Finished(f, serve, cache)
  <2>1. fetch[f] \in FetchRecords /\ Stage(f) /\ fetch[f].consumers = Cardinality(At(f))
    BY DEF FetchTypes, Counted, FetchInv
  <2>2. /\ new \in FetchRecords
        /\ new.pc = "done" /\ new.serve = serve /\ new.cache = cache
        /\ new.key = fetch[f].key /\ new.buf = fetch[f].buf
        /\ new.consumers = fetch[f].consumers
    BY <2>1 DEF Finished, FetchRecords
  <2> HIDE DEF new
  <2>3. \A g \in Fetches : At(g)' = At(g)
    BY DEF At
  <2>4. /\ fetch[f].pc # "free" /\ new.pc # "free"
        /\ (new.pc = "done") <=> (new.cache # "open")
        /\ new.pc = "done" => new.serve # "open"
        /\ new.pc # "done" => new.pc = fetch[f].pc /\ new.serve = fetch[f].serve
        /\ fetch[f].serve = "ok" => new.serve = "ok"
    BY <2>1, <2>2 DEF Stage
  <2>5. /\ lease' \in [Callers -> [Blocks -> LeaseRecords]]
        /\ \A c \in Callers, i \in Blocks :
             \/ lease'[c][i] = lease[c][i]
             \/ lease'[c][i].at = None /\ lease'[c][i].pc \notin Places
    BY DEF FetchTypes, FetchInv
  <2>6. Settle(f, new)
    BY DEF new
  <2>7. FetchInv'
    BY <2>1, <2>2, <2>3, <2>4, <2>5, <2>6, Settling
  <2>8. /\ \A g \in Fetches : g # f => Carried(g)
        /\ fetch'[f].pc # "free" => fetch'[f].key = fetch[f].key /\ fetch'[f].cache = cache
    BY <2>2, <2>6, SMT DEF Settle, Retired, Carried, FetchTypes, FreeFetch, FetchInv
  <2> QED  BY <2>7, <2>8
<1>Working.
      ASSUME NEW new \in FetchRecords, Works(f, new),
             fetch[f].pc \notin {"free", "done"}, new.pc \notin {"free", "done"},
             new.key = fetch[f].key, new.consumers = fetch[f].consumers,
             new.cache = "open", fetch[f].serve = "ok" => new.serve = "ok",
             fetch[f].buf # None => new.buf = fetch[f].buf,
             new.pc \in {"probe", "get"} => new.buf = None /\ new.serve = "open",
             new.pc \in {"publish", "put"} => new.buf # None /\ new.serve \in {"open", "ok"}
      PROVE  /\ FetchInv'
             /\ \A g \in Fetches : Carried(g)
  <2> USE <1>Working
  <2>1. /\ fetch' \in [Fetches -> FetchRecords] /\ fetch'[f] = new
        /\ \A g \in Fetches : g # f => fetch'[g] = fetch[g]
    BY DEF Works, FetchTypes, FetchInv
  <2>2. inflight' = inflight /\ lease' = lease
    BY DEF Works
  <2>3. Stage(f) /\ new.key \in Keys
    BY DEF Stage, FetchInv
  <2>4. \/ new.buf = fetch[f].buf /\ pool' = pool /\ content' = content
        \/ /\ fetch[f].buf = None /\ new.buf \in pool /\ new.buf \in Bufs
           /\ pool' = pool \ {new.buf}
           /\ content' \in [Bufs -> Keys \cup {None}]
           /\ content'[new.buf] = new.key
           /\ \A b \in Bufs : b # new.buf => content'[b] = content[b]
    BY <2>3 DEF Works, FetchTypes, FetchInv
  <2>5. FetchTypes'
    BY <2>1, <2>2, <2>4 DEF FetchTypes, FetchInv
  <2>6. \A g \in Fetches : g # f /\ fetch[g].buf # None =>
          fetch[g].buf # new.buf /\ fetch[g].buf \in Bufs
    BY <2>4, SMT DEF Owned, FetchTypes, FetchRecords, FetchInv
  <2>7. Stage(f)'
    BY <2>1, <2>3, <2>4 DEF Stage
  <2>8. ASSUME NEW g \in Fetches, g # f PROVE Stage(g)'
    BY <2>1, <2>4, <2>6, <2>8, SMT DEF Stage, FetchInv
  <2>9. Listed'
    BY <2>1, <2>2, SMT DEF Listed, FetchTypes, FetchInv
  <2>10. Owned'
    <3>1. \A g \in Fetches : fetch'[g].buf # None =>
            /\ fetch'[g].buf \notin pool'
            /\ \A h \in Fetches \ {g} : fetch'[h].buf # fetch'[g].buf
      BY <2>1, <2>4, <2>6, SMT DEF Owned, FetchInv
    <3>2. \A b \in Bufs : b \in pool' \/ \E g \in Fetches : fetch'[g].buf = b
      <4> SUFFICES ASSUME NEW b \in Bufs, b \notin pool'
                   PROVE  \E g \in Fetches : fetch'[g].buf = b
        OBVIOUS
      <4>1. CASE b = new.buf
        BY <2>1, <4>1
      <4>2. CASE b # new.buf
        <5>1. PICK g \in Fetches : fetch[g].buf = b
          BY <2>4, <4>2 DEF Owned, FetchInv
        <5>2. b # None
          BY BlockFetchAssumption
        <5> QED  BY <2>1, <4>2, <5>1, <5>2
      <4> QED  BY <4>1, <4>2
    <3> QED  BY <3>1, <3>2 DEF Owned
  <2>11. ASSUME NEW c \in Callers, NEW i \in Blocks PROVE LeaseOK(c, i)'
    <3>1. LeaseOK(c, i) /\ (lease[c][i].pc = "held" => lease[c][i].at \in Fetches)
      BY SMTT(30) DEF LeaseOK, Places, FetchTypes, LeaseRecords, FetchInv
    <3>2. \A g \in Fetches : fetch[g].serve = "ok" =>
            fetch'[g].serve = "ok" /\ (fetch[g].buf # None => fetch'[g].buf = fetch[g].buf)
      BY <2>1
    <3>3. lease[c][i].pc = "held" => fetch[lease[c][i].at].buf # None
      BY <3>1 DEF LeaseOK
    <3> QED  BY <2>2, <3>1, <3>2, <3>3, LeaseStays
  <2>12. Counted'
    <3>1. \A g \in Fetches : At(g)' = At(g)
      BY <2>2 DEF At
    <3> QED  BY <2>1, <3>1 DEF Counted, FetchInv
  <2>13. \A g \in Fetches : Carried(g)
    BY <2>1, <2>3, SMT DEF Carried, Stage
  <2> QED  BY <2>5, <2>7, <2>8, <2>9, <2>10, <2>11, <2>12, <2>13 DEF FetchInv
<1>FailingWrite.
      ASSUME FailedWrite(f)
      PROVE  /\ FetchInv'
             /\ \A g \in Fetches : g # f => Carried(g)
             /\ fetch'[f].pc # "free" => fetch'[f].key = fetch[f].key /\ fetch'[f].cache = "error"
  <2> USE <1>FailingWrite
  <2> DEFINE new == [Finished(f, "error", "error") EXCEPT !.buf = None]
             b == fetch[f].buf
  <2>1. fetch[f] \in FetchRecords /\ Stage(f) /\ fetch[f].consumers = Cardinality(At(f))
    BY DEF FetchTypes, Counted, FetchInv
  <2>2. /\ new \in FetchRecords
        /\ new.pc = "done" /\ new.serve = "error" /\ new.cache = "error"
        /\ new.key = fetch[f].key /\ new.buf = None
        /\ new.consumers = fetch[f].consumers
    BY <2>1 DEF Finished, FetchRecords
  <2>3. /\ fetch[f].pc = "put" /\ fetch[f].serve = "open" /\ lease' = lease
        /\ b \in Bufs /\ fetch[f].key \in Keys
    BY <2>1 DEF FailedWrite, Stage, FetchRecords
  <2>4. FreeFetch \in FetchRecords
    BY DEF FreeFetch, FetchRecords
  <2>5. fetch' = [fetch EXCEPT ![f] = Retired(new)]
    BY DEF FailedWrite
  <2> HIDE DEF new
  <2>6. /\ fetch' \in [Fetches -> FetchRecords]
        /\ fetch'[f] = IF new.consumers = 0 THEN FreeFetch ELSE new
        /\ \A g \in Fetches : g # f => fetch'[g] = fetch[g]
    BY <2>2, <2>4, <2>5 DEF Retired, FetchTypes, FetchInv
  <2>7. /\ inflight' \in [Keys -> Fetches \cup {None}]
        /\ \A k \in Keys : inflight'[k] = IF k = fetch[f].key THEN None ELSE inflight[k]
    BY <2>3 DEF FailedWrite, FetchTypes, FetchInv
  <2>8. /\ pool' = pool \cup {b}
        /\ content' \in [Bufs -> Keys \cup {None}]
        /\ \A x \in Bufs : x # b => content'[x] = content[x]
    BY <2>3 DEF FailedWrite, FetchTypes, FetchInv
  <2>9. \A g \in Fetches : g # f /\ fetch[g].buf # None =>
          fetch[g].buf # b /\ fetch[g].buf \in Bufs
    BY <2>3, BlockFetchAssumption, SMT DEF Owned, FetchTypes, FetchRecords, FetchInv
  <2>10. FetchTypes'
    BY <2>3, <2>6, <2>7, <2>8 DEF FetchTypes, FetchInv
  <2>11. Stage(f)'
    BY <2>1, <2>2, <2>3, <2>6, SMT DEF Stage, FreeFetch
  <2>12. ASSUME NEW g \in Fetches, g # f PROVE Stage(g)'
    BY <2>6, <2>8, <2>9, <2>12, SMT DEF Stage, FetchInv
  <2>13. Listed'
    <3>1. \A k \in Keys : inflight'[k] # None =>
            fetch'[inflight'[k]].pc \notin {"free", "done"} /\ fetch'[inflight'[k]].key = k
      BY <2>3, <2>6, <2>7, SMT DEF Listed, FetchTypes, FetchInv
    <3>2. ASSUME NEW g \in Fetches, fetch'[g].pc \notin {"free", "done"}
          PROVE  inflight'[fetch'[g].key] = g
      <4>1. g # f
        BY <2>2, <2>6, <3>2, SMT DEF FreeFetch
      <4>2. fetch[g].key \in Keys /\ inflight[fetch[g].key] = g
        BY <2>6, <3>2, <4>1, SMT DEF Listed, Stage, FetchInv
      <4>3. inflight[fetch[f].key] = f
        BY <2>3 DEF Listed, FetchInv
      <4> QED  BY <2>6, <2>7, <4>1, <4>2, <4>3
    <3> QED  BY <3>1, <3>2 DEF Listed
  <2>14. Owned'
    <3>1. \A g \in Fetches : fetch'[g].buf # None => g # f /\ fetch'[g].buf = fetch[g].buf
      BY <2>2, <2>6, SMTT(30) DEF FreeFetch
    <3>2. \A x \in Bufs : x \in pool' \/ \E g \in Fetches : fetch'[g].buf = x
      BY <2>6, <2>8 DEF Owned, FetchInv
    <3> QED  BY <2>8, <2>9, <3>1, <3>2, SMT DEF Owned, FetchInv
  <2>15. ASSUME NEW c \in Callers, NEW i \in Blocks PROVE LeaseOK(c, i)'
    <3>1. LeaseOK(c, i) /\ (lease[c][i].pc = "held" => lease[c][i].at \in Fetches)
      BY SMTT(30) DEF LeaseOK, Places, FetchTypes, LeaseRecords, FetchInv
    <3>2. lease[c][i].pc = "held" => lease[c][i].at # f
      BY <2>3, <3>1 DEF LeaseOK
    <3> QED  BY <2>3, <2>6, <3>1, <3>2 DEF LeaseOK
  <2>16. Counted'
    <3>1. \A g \in Fetches : At(g)' = At(g)
      BY <2>3 DEF At
    <3> QED  BY <2>1, <2>2, <2>6, <3>1, SMT DEF Counted, FreeFetch, FetchInv
  <2>17. /\ \A g \in Fetches : g # f => Carried(g)
         /\ fetch'[f].pc # "free" => fetch'[f].key = fetch[f].key /\ fetch'[f].cache = "error"
    BY <2>2, <2>6, SMTT(30) DEF Carried, FreeFetch
  <2> QED  BY <2>10, <2>11, <2>12, <2>13, <2>14, <2>15, <2>16, <2>17 DEF FetchInv
<1>0. fetch[f] \in FetchRecords /\ Stage(f)
  BY DEF FetchTypes, FetchInv
<1>1. CASE ProbeFetch(f)
  <2>0. fetch[f].pc = "probe" /\ UNCHANGED <<upstream, blocks, lease>>
    BY <1>1 DEF ProbeFetch
  <2>1. CASE fetch[f].key \in blocks /\ Settle(f, Finished(f, "ok", "ok"))
    BY <2>0, <2>1, <1>Finishing DEF TaskEffect
  <2>2. CASE fetch' = [fetch EXCEPT ![f].pc = "get"] /\ UNCHANGED <<inflight, pool, content>>
    <3> DEFINE new == [fetch[f] EXCEPT !.pc = "get"]
    <3>1. /\ new \in FetchRecords
          /\ new.pc = "get" /\ new.key = fetch[f].key /\ new.consumers = fetch[f].consumers
          /\ new.buf = fetch[f].buf /\ new.serve = fetch[f].serve
          /\ new.cache = fetch[f].cache
      BY <1>0 DEF FetchRecords
    <3>2. fetch' = [fetch EXCEPT ![f] = new]
      BY <2>2
    <3> HIDE DEF new
    <3>3. Works(f, new)
      BY <2>0, <2>2, <3>1, <3>2 DEF Works
    <3>4. FetchInv' /\ \A g \in Fetches : Carried(g)
      BY <1>0, <2>0, <3>1, <3>3, <1>Working DEF Stage
    <3>5. fetch'[f].cache = "open"
      BY <1>0, <2>0, <3>1, <3>2 DEF Stage, FetchTypes, FetchInv
    <3> QED  BY <2>0, <3>4, <3>5 DEF TaskEffect, Carried
  <2> QED  BY <1>1, <2>1, <2>2 DEF ProbeFetch
<1>2. CASE GetBlock(f)
  <2>0. fetch[f].pc = "get" /\ UNCHANGED <<upstream, blocks, lease>>
    BY <1>2 DEF GetBlock
  <2>1. ASSUME upstream = fetch[f].key[1], NEW b \in NewBuf, NEW pc \in {"publish", "put"},
               pool' = pool \ {b},
               content' = [content EXCEPT ![b] = <<upstream, fetch[f].key[2]>>],
               fetch' = [fetch EXCEPT ![f].buf = b, ![f].pc = pc],
               UNCHANGED inflight
        PROVE  FetchInv' /\ TaskEffect(f)
    <3> DEFINE new == [fetch[f] EXCEPT !.buf = b, !.pc = pc]
    <3>0. b \in pool /\ b \in Bufs /\ b # None
      BY <2>1, BlockFetchAssumption DEF NewBuf, FetchTypes, FetchInv
    <3>1. /\ new \in FetchRecords
          /\ new.pc = pc /\ new.key = fetch[f].key /\ new.consumers = fetch[f].consumers
          /\ new.buf = b /\ new.serve = fetch[f].serve /\ new.cache = fetch[f].cache
      BY <1>0, <3>0 DEF FetchRecords
    <3>2. fetch' = [fetch EXCEPT ![f] = new]
      BY <2>1
    <3>3. <<upstream, fetch[f].key[2]>> = new.key
      BY <1>0, <2>0, <2>1, <3>1, SMT DEF Stage, Keys
    <3> HIDE DEF new
    <3>4. Works(f, new)
      BY <1>0, <2>0, <2>1, <3>0, <3>1, <3>2, <3>3 DEF Works, Stage
    <3>5. FetchInv' /\ \A g \in Fetches : Carried(g)
      BY <1>0, <2>0, <3>0, <3>1, <3>4, <1>Working DEF Stage
    <3>6. fetch'[f].cache = "open"
      BY <1>0, <2>0, <3>1, <3>2 DEF Stage, FetchTypes, FetchInv
    <3> QED  BY <2>0, <3>5, <3>6 DEF TaskEffect, Carried
  <2>2. CASE Settle(f, Finished(f, "stale", "stale"))
    BY <2>0, <2>2, <1>Finishing DEF TaskEffect
  <2>3. CASE Settle(f, Finished(f, "error", "error"))
    BY <2>0, <2>3, <1>Finishing DEF TaskEffect
  <2> QED  BY <1>2, <2>1, <2>2, <2>3 DEF GetBlock
<1>3. CASE Publish(f)
  <2> DEFINE new == [fetch[f] EXCEPT !.serve = "ok", !.pc = "put"]
  <2>0. fetch[f].pc = "publish" /\ UNCHANGED <<upstream, blocks, inflight, pool, content, lease>>
    BY <1>3 DEF Publish
  <2>1. /\ new \in FetchRecords
        /\ new.pc = "put" /\ new.key = fetch[f].key /\ new.consumers = fetch[f].consumers
        /\ new.buf = fetch[f].buf /\ new.serve = "ok" /\ new.cache = fetch[f].cache
    BY <1>0 DEF FetchRecords
  <2>2. fetch' = [fetch EXCEPT ![f] = new]
    BY <1>3 DEF Publish
  <2> HIDE DEF new
  <2>3. Works(f, new)
    BY <2>0, <2>1, <2>2 DEF Works
  <2>4. FetchInv' /\ \A g \in Fetches : Carried(g)
    BY <1>0, <2>0, <2>1, <2>3, <1>Working DEF Stage
  <2>5. fetch'[f].cache = "open"
    BY <1>0, <2>0, <2>1, <2>2 DEF Stage, FetchTypes, FetchInv
  <2> QED  BY <2>0, <2>4, <2>5 DEF TaskEffect, Carried
<1>4. CASE PutBlock(f)
  <2>0. fetch[f].pc = "put" /\ UNCHANGED <<upstream, lease>>
    BY <1>4 DEF PutBlock
  <2>1. content[fetch[f].buf] = fetch[f].key /\ fetch[f].key \in Keys
    BY <1>0, <2>0 DEF Stage
  <2>2. blocks' \in {blocks, blocks \cup {fetch[f].key}}
    BY <1>4, <2>1 DEF PutBlock
  <2>3. CASE blocks' = blocks \cup {content[fetch[f].buf]}
             /\ Settle(f, Finished(f, "ok", "ok"))
    BY <2>0, <2>1, <2>3, <1>Finishing DEF TaskEffect
  <2>4. CASE Settle(f, Finished(f, "ok", "error"))
    BY <2>0, <2>1, <2>2, <2>4, <1>Finishing DEF TaskEffect
  <2>5. CASE FailedWrite(f)
    BY <2>0, <2>1, <2>2, <2>5, <1>FailingWrite DEF TaskEffect
  <2> QED  BY <1>4, <2>0, <2>3, <2>4, <2>5 DEF PutBlock, FailedWrite
<1> QED  BY <1>1, <1>2, <1>3, <1>4 DEF FetchTask

(* What a caller of a fetch may come to have.                                 *)
CallerEffect(c, i) ==
    /\ lease[c][i].pc \in {"serve", "cache"}
    /\ blocks' = blocks /\ upstream' = upstream
    /\ \A g \in Fetches : Carried(g)
    /\ \E new \in LeaseRecords :
         /\ Reseated(c, i, new)
         /\ \/ /\ lease[c][i].pc = "serve" /\ new.pc = "held"
               /\ new.at = lease[c][i].at
            \/ /\ new.at = None /\ new.pc \in {"ok", "error", "stale", "canceled"}
               /\ lease[c][i].pc = "cache" /\ new.pc = "ok" =>
                    fetch[lease[c][i].at].cache = "ok"

LEMMA CallerSteps ==
  ASSUME FetchInv, NEW c \in Callers, NEW i \in Blocks,
         TakeLease(c, i) \/ AwaitCache(c, i) \/ StopWaiting(c, i)
  PROVE  FetchInv' /\ CallerEffect(c, i)
<1>Staying.
      ASSUME FetchTypes, NEW new \in LeaseRecords,
             Reseated(c, i, new), lease[c][i].at = new.at
      PROVE  \A g \in Fetches : At(g)' = At(g)
  BY <1>Staying, SMT DEF At, Reseated
\* A caller takes its lease.
<1>Holding.
      ASSUME lease[c][i].pc = "serve",
             fetch[lease[c][i].at].serve = "ok", fetch[lease[c][i].at].buf # None,
             NEW new \in LeaseRecords, new.pc = "held", new.at = lease[c][i].at,
             new.buf = fetch[lease[c][i].at].buf,
             Reseated(c, i, new), UNCHANGED <<inflight, fetch, pool, content>>
      PROVE  FetchInv'
  <2> USE <1>Holding
  <2>1. lease[c][i].at \in Fetches /\ LeaseOK(c, i)
    BY DEF LeaseOK, Places, FetchTypes, LeaseRecords, FetchInv
  <2>3. \A g \in Fetches : At(g)' = At(g)
    BY <1>Staying DEF FetchInv
  <2>4. FetchTypes' /\ Listed' /\ Owned'
    BY SMTT(30) DEF FetchTypes, Listed, Owned, Reseated, FetchInv
  <2>5. \A f \in Fetches : Stage(f)'
    BY DEF Stage, FetchInv
  <2>6. Counted'
    BY <2>3 DEF Counted, FetchInv
  <2>7. \A d \in Callers, j \in Blocks : LeaseOK(d, j)'
    <3> SUFFICES ASSUME NEW d \in Callers, NEW j \in Blocks PROVE LeaseOK(d, j)'
      OBVIOUS
    <3>1. CASE d = c /\ j = i
      BY <2>1, <3>1 DEF LeaseOK, Places, Reseated
    <3>2. CASE d # c \/ j # i
      <4>1. LeaseOK(d, j) /\ lease'[d][j] = lease[d][j]
        BY <3>2 DEF FetchInv, Reseated
      <4> QED  BY <4>1, LeaseStays
    <3> QED  BY <3>1, <3>2
  <2> QED  BY <2>4, <2>5, <2>6, <2>7 DEF FetchInv
<1> DEFINE f == lease[c][i].at
<1>0. /\ lease[c][i].pc \in {"serve", "cache"} /\ lease[c][i].pc \in Places
      /\ blocks' = blocks /\ upstream' = upstream
  BY DEF TakeLease, AwaitCache, StopWaiting, Places
<1>1. f \in Fetches /\ fetch[f] \in FetchRecords
  BY <1>0, SMTT(30) DEF LeaseOK, FetchTypes, LeaseRecords, FetchInv
<1>2. ASSUME NEW answer \in {"ok", "error", "stale", "canceled"}, Release(c, i, answer),
             lease[c][i].pc = "cache" /\ answer = "ok" => fetch[f].cache = "ok"
      PROVE  FetchInv' /\ CallerEffect(c, i)
  <2>1. /\ FetchInv'
        /\ Reseated(c, i, Answered(answer))
        /\ Answered(answer) = [pc |-> answer, at |-> None, buf |-> None]
        /\ \A g \in Fetches : Carried(g)
    BY <1>0, <1>2, Releasing
  <2>2. Answered(answer) \in LeaseRecords /\ Answered(answer).pc = answer
        /\ Answered(answer).at = None
    BY <2>1, SMT DEF LeaseRecords
  <2> QED  BY <1>0, <1>2, <2>1, <2>2 DEF CallerEffect
<1>3. CASE TakeLease(c, i)
  <2>1. CASE fetch[f].serve = "ok" /\ fetch[f].buf # None
    <3> DEFINE new == [lease[c][i] EXCEPT !.pc = "held", !.buf = fetch[f].buf]
    <3>1. lease[c][i].pc = "serve" /\ UNCHANGED <<fetch, pool, content, inflight>>
      BY <1>3, <2>1 DEF TakeLease
    <3>2. lease' = [lease EXCEPT ![c][i] = new]
      BY <1>3, <2>1 DEF TakeLease
    <3>3. /\ new \in LeaseRecords
          /\ new.pc = "held" /\ new.at = f /\ new.buf = fetch[f].buf
      <4>1. lease[c][i] \in LeaseRecords
        BY DEF FetchTypes, FetchInv
      <4>2. fetch[f].buf \in Bufs \cup {None}
        BY <1>1 DEF FetchRecords
      <4> HIDE DEF f
      <4> QED  BY <4>1, <4>2 DEF LeaseRecords, f
    <3> HIDE DEF new
    <3>4. Reseated(c, i, new)
      BY <3>2, <3>3, Reseating DEF FetchInv
    <3>5. FetchInv'
      BY <2>1, <3>1, <3>3, <3>4, <1>Holding
    <3>6. \A g \in Fetches : Carried(g)
      BY <3>1 DEF Carried
    <3> QED  BY <1>0, <3>1, <3>3, <3>4, <3>5, <3>6 DEF CallerEffect
  <2>2. CASE ~(fetch[f].serve = "ok" /\ fetch[f].buf # None)
    <3>1. /\ Release(c, i, fetch[f].serve) /\ fetch[f].serve # "open"
          /\ lease[c][i].pc = "serve"
      BY <1>3, <2>2 DEF TakeLease
    <3>2. fetch[f].serve \in {"ok", "error", "stale", "canceled"}
      BY <1>1, <3>1 DEF FetchRecords
    <3> QED  BY <1>2, <3>1, <3>2
  <2> QED  BY <2>1, <2>2
<1>4. CASE AwaitCache(c, i)
  <2>1. Release(c, i, fetch[f].cache) /\ fetch[f].cache # "open"
    BY <1>4 DEF AwaitCache
  <2>2. fetch[f].cache \in {"ok", "error", "stale", "canceled"}
    BY <1>1, <2>1 DEF FetchRecords
  <2> QED  BY <1>2, <2>1, <2>2
<1>5. CASE StopWaiting(c, i)
  <2>1. Release(c, i, "canceled")
    BY <1>5 DEF StopWaiting
  <2> QED  BY <1>2, <2>1
<1> QED  BY <1>3, <1>4, <1>5

-----------------------------------------------------------------------------
(* A request that does not take the step itself keeps its invariant.          *)

(* Every write of the row takes a new version.                                *)
EntryMoves ==
    /\ entry' \in Entries /\ entry'.ver # 0
    /\ entry' = entry \/ entry'.ver > entry.ver

SeenMoves ==
    seen' = IF ~entry'.live THEN {}
            ELSE {i \in Blocks : <<entry'.etag, i>> \in blocks'}
                 \cup (IF entry.live THEN seen ELSE {})

\* A fetch record and a lease nobody uses, and a row just written.
LEMMA Vacant ==
  /\ FreeFetch.pc = "free" /\ FreeFetch.cache = "open" /\ FreeFetch.buf = None
  /\ FreeFetch.consumers = 0
  /\ NoLease.pc = "out" /\ NoLease.at = None /\ "out" \notin Places
  /\ 1 \in Nat /\ 1 # 0
<1>1. 1 \in Nat /\ 1 # 0
  BY SMT
<1> QED  BY <1>1 DEF FreeFetch, NoLease, Places

LEMMA SeenTyped ==
  ASSUME Outside, SeenMoves
  PROVE  seen' \subseteq Blocks
BY DEF Outside, SeenMoves

LEMMA VerTyped ==
  ASSUME entry \in Entries
  PROVE  entry.ver \in Nat /\ entry.etag \in Versions
BY DEF Entries

(* A request whose token is still that of the row sees what others cached.    *)
LEMMA IdleControl ==
  ASSUME NEW r \in Readers, rd[r].pc \in {"idle", "done"}, rd[r].token = 0,
         entry.ver \in Nat
  PROVE  Control(r)
BY SMTT(30) DEF Control

LEMMA RowKept ==
  ASSUME Outside, EntryMoves, SeenMoves, NEW r \in Readers,
         rd'[r].token = rd[r].token, rd'[r].etag = rd[r].etag,
         rd[r].token \in Nat, rd[r].token <= entry.ver, Current(r)'
  PROVE  /\ entry' = entry /\ Current(r)
         /\ seen \subseteq seen'
         /\ \A i \in Blocks : <<rd[r].etag, i>> \in blocks' => i \in seen'
<1>1. entry.ver \in Nat
  BY VerTyped DEF Outside
<1>2. entry' = entry
  BY <1>1, SMT DEF EntryMoves, Current
<1>3. Current(r)
  BY <1>2 DEF Current
<1> QED  BY <1>2, <1>3 DEF SeenMoves, Current

SeatMoves(r, i) ==
    /\ \/ lease'[r][i] = lease[r][i]
       \/ /\ lease[r][i].pc = "serve" /\ lease'[r][i].pc = "held"
          /\ lease'[r][i].at = lease[r][i].at
       \/ /\ lease[r][i].pc \in {"serve", "cache"}
          /\ lease'[r][i].at = None
          /\ lease'[r][i].pc \in {"ok", "error", "stale", "canceled"}
          /\ lease[r][i].pc = "cache" /\ lease'[r][i].pc = "ok" =>
               fetch[lease[r][i].at].cache = "ok"
    /\ lease'[r][i].at # None =>
         /\ fetch'[lease[r][i].at].key = fetch[lease[r][i].at].key
         /\ fetch'[lease[r][i].at].cache = "ok" =>
              \/ fetch[lease[r][i].at].cache = "ok"
              \/ fetch[lease[r][i].at].key \in blocks'

LEMMA ControlKept ==
  ASSUME NEW r \in Readers, Control(r), rd'[r] = rd[r], rd[r].token \in Nat,
         Outside, EntryMoves
  PROVE  Control(r)'
<1>1. entry.ver \in Nat /\ entry'.ver \in Nat
  BY VerTyped DEF Outside, EntryMoves, Entries
<1>2. rd[r].token <= entry'.ver
  BY <1>1, SMT DEF Control, EntryMoves
<1> QED  BY <1>2 DEF Control

LEMMA ReaderKept ==
  ASSUME FetchInv, Outside, EntryMoves, SeenMoves, NEW r \in Readers, ReaderInv(r),
         rd'[r] = rd[r], \A i \in Blocks : SeatMoves(r, i)
  PROVE  ReaderInv(r)'
<1>SeatKept.
      ASSUME NEW i \in Blocks, LeaseOK(r, i), Seat(r, i), SeatMoves(r, i),
             rd'[r] = rd[r]
      PROVE  Seat(r, i)'
  <2> USE <1>SeatKept
  <2>1. Missing(r)' = Missing(r)
    BY DEF Missing, Needed
  <2>2. CASE lease'[r][i] = lease[r][i]
    BY <2>1, <2>2 DEF Seat, SeatMoves
  <2>3. CASE /\ lease[r][i].pc = "serve" /\ lease'[r][i].pc = "held"
             /\ lease'[r][i].at = lease[r][i].at
    BY <2>1, <2>3 DEF Seat, SeatMoves
  <2>4. CASE /\ lease[r][i].pc \in {"serve", "cache"}
             /\ lease'[r][i].at = None
             /\ lease'[r][i].pc \in {"ok", "error", "stale", "canceled"}
    BY <2>1, <2>4 DEF Seat, SeatMoves
  <2> QED  BY <2>2, <2>3, <2>4 DEF SeatMoves
<1>TokenTyped.
      ASSUME NEW x, x \in RecordOf(x)
      PROVE  x.token \in Nat
  BY <1>TokenTyped DEF RecordOf
<1>1. rd'[r] \in RecordOf(rd'[r]) /\ rd[r].token \in Nat
  BY <1>TokenTyped DEF ReaderInv
<1>2. \A i \in Blocks : Seat(r, i)'
  BY <1>SeatKept DEF FetchInv, ReaderInv, Readers
<1>3. Control(r)'
  BY <1>1, ControlKept DEF ReaderInv
<1>4. Tracks(r)'
  <2> SUFFICES ASSUME Current(r)' PROVE Tracks(r)'
    BY DEF Tracks
  <2>1. /\ entry' = entry /\ Current(r)
        /\ seen \subseteq seen'
        /\ \A i \in Blocks : <<rd[r].etag, i>> \in blocks' => i \in seen'
    BY <1>1, RowKept DEF ReaderInv, Control
  <2>2. seen' \subseteq Blocks
    BY SeenTyped
  <2>3. ASSUME rd[r].pc = "scan", NEW i \in Blocks, rd[r].got[i] \in Keys
        PROVE  i \in seen'
    BY <2>1, <2>3 DEF ReaderInv, Tracks
  <2>4. ASSUME rd[r].pc = "fetch", rd[r].path = "probe", NEW i \in Blocks,
               \/ rd[r].got[i] # Absent
               \/ lease'[r][i].pc = "ok"
               \/ lease'[r][i].at # None /\ fetch'[lease'[r][i].at].cache = "ok"
        PROVE  i \in seen'
    <3>1. Seat(r, i) /\ SeatMoves(r, i) /\ LeaseOK(r, i)
      BY DEF ReaderInv, FetchInv, Readers
    <3>2. \/ rd[r].got[i] # Absent
          \/ lease[r][i].pc = "ok"
          \/ lease[r][i].at # None /\ fetch[lease[r][i].at].cache = "ok"
          => i \in seen
      BY <2>1, <2>4 DEF ReaderInv, Tracks
    <3>3. CASE rd[r].got[i] # Absent
      BY <2>1, <3>2, <3>3
    <3>4. CASE lease'[r][i].pc = "ok"
      <4>1. lease[r][i].pc = "ok" \/ lease[r][i].pc \in {"serve", "cache"}
        BY <3>1, <3>4 DEF SeatMoves
      <4>2. lease[r][i].pc # "serve"
        BY <2>4, <3>1 DEF Seat
      <4>3. lease[r][i].pc = "cache" =>
              lease[r][i].at # None /\ fetch[lease[r][i].at].cache = "ok"
        BY <3>1, <3>4 DEF SeatMoves, LeaseOK, Places
      <4> QED  BY <2>1, <3>2, <4>1, <4>2, <4>3
    <3>5. CASE lease'[r][i].at # None /\ fetch'[lease'[r][i].at].cache = "ok"
      <4>1. lease'[r][i].at = lease[r][i].at
        BY <3>1, <3>5 DEF SeatMoves
      <4>2. \/ fetch[lease[r][i].at].cache = "ok"
            \/ fetch[lease[r][i].at].key \in blocks'
        BY <3>1, <3>5, <4>1 DEF SeatMoves
      <4>3. fetch[lease[r][i].at].key = <<rd[r].etag, i>>
        BY <3>1, <3>5, <4>1 DEF Seat
      <4> QED  BY <2>1, <3>2, <3>5, <4>1, <4>2, <4>3
    <3> QED  BY <2>4, <3>3, <3>4, <3>5
  <2>5. rd[r].pc \in {"stream", "recover", "refetch", "remainder", "done"} => seen' = Blocks
    BY <2>1, <2>2 DEF ReaderInv, Tracks
  <2> QED  BY <2>3, <2>4, <2>5 DEF Tracks
<1> QED  BY <1>1, <1>2, <1>3, <1>4 DEF ReaderInv

-----------------------------------------------------------------------------
(* Records, blocks and leases of a request.                                   *)

LEMMA DivMonotone ==
  ASSUME NEW b \in Nat \ {0}, NEW u \in Nat, NEW v \in Nat, u <= v
  PROVE  (u \div b) \in Nat /\ (v \div b) \in Nat /\ (u \div b) <= (v \div b)
BY SMT

LEMMA Sizes ==
  /\ Size \in Nat /\ Size >= 1 /\ BlockSize \in Nat \ {0}
  /\ LastBlock \in Nat /\ Blocks = 0..LastBlock
<1>1. Size \in Nat /\ BlockSize \in 1..Size /\ Blocks = 0..((Size - 1) \div BlockSize)
  BY BlockServeAssumption
<1>2. Size >= 1 /\ BlockSize \in Nat \ {0} /\ Size - 1 \in Nat
  BY <1>1, SMT
<1>3. (Size - 1) \div BlockSize \in Nat
  BY <1>2, DivMonotone, SMT
<1> QED  BY <1>1, <1>2, <1>3 DEF LastBlock

LEMMA Covering ==
  /\ \A s \in 0..(Size - 1) : s \div BlockSize \in Blocks
  /\ \A s, e \in 0..(Size - 1) : coveringBlocks(s, e) \subseteq Blocks
  /\ coveringBlocks(0, Size - 1) = Blocks
<1>1. ASSUME NEW s \in 0..(Size - 1)
      PROVE  s \div BlockSize \in 0..LastBlock
  BY Sizes, DivMonotone, SMT DEF LastBlock
<1>2. 0 \div BlockSize = 0
  BY Sizes, SMT
<1>3. ASSUME NEW s \in 0..(Size - 1), NEW e \in 0..(Size - 1)
      PROVE  coveringBlocks(s, e) \subseteq 0..LastBlock
  <2>1. PICK a \in 0..LastBlock : a = s \div BlockSize
    BY <1>1
  <2>2. PICK b \in 0..LastBlock : b = e \div BlockSize
    BY <1>1
  <2>3. a..b \subseteq 0..LastBlock
    BY Sizes, SMT
  <2> QED  BY <2>1, <2>2, <2>3 DEF coveringBlocks
<1>4. coveringBlocks(0, Size - 1) = 0..LastBlock
  BY <1>2 DEF coveringBlocks, LastBlock
<1> QED  BY <1>1, <1>3, <1>4, Sizes

LEMMA Fields ==
  ASSUME NEW x, x \in RecordOf(x)
  PROVE  /\ x.req \in Jobs \cup {NoJob}
         /\ x.start \in 0..(Size - 1) /\ x.end \in 0..(Size - 1)
         /\ x.etag \in Versions /\ x.token \in Nat /\ x.i \in Blocks
         /\ x.got \in [Blocks -> Keys \cup {None, Absent}]
BY DEF RecordOf

LEMMA NeededBlocks ==
  ASSUME NEW r \in Readers, rd[r] \in RecordOf(rd[r])
  PROVE  /\ Needed(r) \subseteq Blocks
         /\ rd[r].start = 0 /\ rd[r].end = Size - 1 => Needed(r) = Blocks
BY Fields, Covering DEF Needed

LEMMA NothingTyped == Nothing \in [Blocks -> Keys \cup {None, Absent}]
BY DEF Nothing

(* Outside the steps that fetch, a request has no lease.                      *)
LEMMA Unseated ==
  ASSUME NEW r \in Readers, NEW i \in Blocks, Seat(r, i),
         rd[r].pc \notin {"fetch", "copy", "giveup", "refetch"}
  PROVE  lease[r][i].pc = "out"
BY DEF Seat

LEMMA OutSeat ==
  ASSUME FetchInv', NEW r \in Readers,
         \A i \in Blocks : lease'[r][i].pc = "out"
  PROVE  \A i \in Blocks : Seat(r, i)'
<1>1. \A i \in Blocks : lease'[r][i].at = None
  BY DEF FetchInv, LeaseOK, Places, Readers
<1> QED  BY <1>1 DEF Seat

LEMMA VersGrow ==
  ASSUME Outside, EntryMoves
  PROVE  entry.ver \in Nat /\ entry'.ver \in Nat /\ entry.ver <= entry'.ver
<1>1. entry.ver \in Nat /\ entry'.ver \in Nat
  BY VerTyped DEF Outside, EntryMoves, Entries
<1> QED  BY <1>1, SMT DEF EntryMoves

-----------------------------------------------------------------------------
(* The steps of a request preserve its invariant.                             *)

(* What every step of a request may rely on.                                  *)
Base(r) ==
    /\ FetchInv /\ FetchInv' /\ Outside /\ EntryMoves /\ SeenMoves
    /\ rd = [q \in Readers |-> rd[q]]
    /\ r \in Readers /\ ReaderInv(r)

Ground(r) == Base(r) /\ rd'[r] \in RecordOf(rd'[r])

Idles(r) == \A i \in Blocks : lease'[r][i].pc = "out"

LEMMA TokenBelow ==
  ASSUME NEW r, Ground(r)
  PROVE  rd[r].token \in Nat /\ rd[r].token <= entry'.ver
BY VersGrow, Fields, SMT DEF Ground, Base, ReaderInv, Control

(* The request goes on as it is, but for where it stands.                     *)
Same(r) ==
    /\ rd'[r].path = rd[r].path /\ rd'[r].req = rd[r].req
    /\ rd'[r].start = rd[r].start /\ rd'[r].end = rd[r].end
    /\ rd'[r].etag = rd[r].etag /\ rd'[r].token = rd[r].token

(* The request streams on.                                                    *)
LEMMA Flowing ==
  ASSUME NEW r, Ground(r), \A i \in Blocks : Seat(r, i)', Same(r),
         rd[r].pc \in {"first", "stream", "recover", "refetch"},
         rd'[r].pc \in {"stream", "recover", "refetch", "remainder"}
  PROVE  ReaderInv(r)'
<1>0. Control(r) /\ Tracks(r)
  BY DEF ReaderInv, Base, Ground, Same
<1>1. Control(r)'
  BY <1>0, TokenBelow DEF Control, Base, Ground, Same
<1>2. Tracks(r)'
  <2> SUFFICES ASSUME Current(r)' PROVE seen' = Blocks
    BY DEF Tracks
  <2>1. Current(r) /\ seen \subseteq seen'
    BY <1>0, TokenBelow, RowKept DEF Control, Base, Ground, Same
  <2>2. rd[r].pc # "first"
    BY <1>0, <2>1 DEF Control, Current
  <2>3. seen = Blocks
    BY <1>0, <2>1, <2>2 DEF Tracks
  <2> QED  BY <2>1, <2>3, SeenTyped DEF Base, Ground, Same
<1> QED  BY <1>1, <1>2 DEF ReaderInv, Base, Ground, Same

LEMMA Streaming ==
  ASSUME NEW r, Ground(r), Idles(r), Same(r),
         rd[r].pc \in {"first", "stream", "recover", "refetch"},
         rd'[r].pc \in {"stream", "recover", "remainder"}
  PROVE  ReaderInv(r)'
<1>1. \A i \in Blocks : Seat(r, i)'
  BY OutSeat DEF Idles, Ground, Base
<1> QED  BY <1>1, Flowing

(* Only the record of r changes.                                              *)
Alone(r) ==
    /\ rd' = [q \in Readers |-> rd'[q]]
    /\ \A q \in Readers : q # r => rd'[q] = rd[q]

LEMMA Becoming ==
  ASSUME rd = [q \in Readers |-> rd[q]], NEW r \in Readers, NEW rec, Become(r, rec)
  PROVE  rd'[r] = rec /\ Alone(r)
BY DEF Become, Alone

LEMMA IdleShape ==
  ASSUME NEW q \in Jobs \cup {NoJob, None}
  PROVE  /\ Idle(q) \in RecordOf(Idle(q))
         /\ Idle(q).pc \in {"idle", "done"} /\ Idle(q).path = "probe"
         /\ Idle(q).token = 0
<1>0. PICK idle : idle = Idle(q)
  OBVIOUS
<1>1. 0 \in 0..(Size - 1) /\ 0 \in Blocks /\ 0 \in Nat /\ 1 \in Versions
  BY Sizes, BlockServeAssumption, SMT
<1>2. PICK req \in Jobs \cup {NoJob} : req = IF q = None THEN NoJob ELSE q
  OBVIOUS
<1>3. PICK pc : pc = IF q = None THEN "done" ELSE "idle"
  OBVIOUS
<1>4. idle = [pc |-> pc, path |-> "probe", piped |-> FALSE, req |-> req,
          start |-> 0, end |-> 0, etag |-> 1, complete |-> FALSE, token |-> 0,
          i |-> 0, got |-> Nothing, left |-> 0, mostly |-> FALSE,
          sent |-> <<>>, answer |-> "none"]
  BY <1>0, <1>2, <1>3 DEF Idle
<1>5. idle \in RecordOf(idle)
  BY <1>1, <1>4, NothingTyped DEF RecordOf
<1>6. idle.pc \in {"idle", "done"} /\ idle.path = "probe" /\ idle.token = 0
  BY <1>3, <1>4
<1> QED  BY <1>0, <1>5, <1>6

LEMMA Ends ==
  ASSUME NEW r \in Readers, Base(r), Idles(r), NEW a, NEW s, NEW rec, Become(r, rec),
         rec \in {Ended(r, a), [Ended(r, a) EXCEPT !.sent = s]},
         \/ a = "upstream" \/ rd[r].token = 0
         \/ rd[r].pc \in {"stream", "recover", "refetch", "remainder"}
  PROVE  ReaderInv(r)' /\ Alone(r)
\* The request ends.  Its promotion is pending only if it came to stream.
<1>Ending.
      ASSUME Ground(r), rd'[r].pc = "done", rd'[r].path = "probe",
             rd'[r].etag = rd[r].etag, rd'[r].token \in {0, rd[r].token},
             rd'[r].token # 0 => rd[r].pc \in {"stream", "recover", "refetch", "remainder"}
      PROVE  ReaderInv(r)'
  <2> USE <1>Ending
  <2>1. \A i \in Blocks : Seat(r, i)'
    BY OutSeat DEF Idles, Base, Ground
  <2>2. Control(r)'
    BY TokenBelow, VersGrow, SMT DEF Control, Base, Ground
  <2>3. Tracks(r)'
    <3> SUFFICES ASSUME Current(r)' PROVE seen' = Blocks
      BY DEF Tracks
    <3>1. rd'[r].token = rd[r].token /\ rd[r].token \in Nat /\ rd[r].token # 0
      BY Fields DEF Current, ReaderInv, Base, Ground
    <3>2. Current(r) /\ seen \subseteq seen'
      BY <3>1, RowKept DEF ReaderInv, Control, Base, Ground
    <3>3. seen = Blocks
      BY <3>1, <3>2 DEF ReaderInv, Tracks, Base, Ground
    <3> QED  BY <3>2, <3>3, SeenTyped DEF Base, Ground
  <2> QED  BY <2>1, <2>2, <2>3 DEF ReaderInv, Base, Ground
<1>2. /\ rec \in RecordOf(rec)
      /\ rec.pc = "done" /\ rec.path = "probe" /\ rec.etag = rd[r].etag
      /\ rec.token = (IF a = "upstream" THEN 0 ELSE rd[r].token)
  <2>0. rd[r] \in RecordOf(rd[r])
    BY DEF Base, ReaderInv
  <2>1. /\ rd[r].req \in Jobs \cup {NoJob} /\ rd[r].etag \in Versions /\ rd[r].token \in Nat
    BY <2>0, Fields
  <2>2. PICK t \in Nat : t = IF a = "upstream" THEN 0 ELSE rd[r].token
    BY <2>1
  <2>3. PICK idle : idle = Idle(rd[r].req)
    OBVIOUS
  <2>4. idle \in RecordOf(idle) /\ idle.path = "probe"
    BY <2>1, <2>3, IdleShape
  <2>5. PICK e : e = [idle EXCEPT !.pc = "done", !.etag = rd[r].etag,
                        !.sent = rd[r].sent, !.answer = a, !.token = t]
    OBVIOUS
  <2>6. rec = e \/ rec = [e EXCEPT !.sent = s]
    BY <2>2, <2>3, <2>5 DEF Ended
  <2>7. e \in RecordOf(e)
    BY <2>1, <2>4, <2>5 DEF RecordOf
  <2>8. /\ e.pc = "done" /\ e.path = "probe" /\ e.etag = rd[r].etag /\ e.token = t
    BY <2>4, <2>5 DEF RecordOf
  <2>9. CASE rec = e
    BY <2>2, <2>7, <2>8, <2>9
  <2>10. CASE rec = [e EXCEPT !.sent = s]
    <3>1. rec \in RecordOf(rec)
      BY <2>7, <2>10 DEF RecordOf
    <3>2. rec.pc = e.pc /\ rec.path = e.path /\ rec.etag = e.etag /\ rec.token = e.token
      BY <2>7, <2>10 DEF RecordOf
    <3> QED  BY <2>2, <2>8, <3>1, <3>2
  <2> QED  BY <2>6, <2>9, <2>10
<1>1. rd'[r] = rec /\ Alone(r)
  BY Becoming DEF Base
<1>3. Ground(r)
  BY <1>1, <1>2 DEF Ground
<1> QED  BY <1>1, <1>2, <1>3, <1>Ending

LEMMA Sends ==
  ASSUME NEW r \in Readers, Base(r), Idles(r), Send(r),
         rd[r].pc \in {"first", "stream", "recover", "refetch"}
  PROVE  ReaderInv(r)' /\ Alone(r)
<1> DEFINE i == rd[r].i
           sent == rd[r].sent \o Part(r, <<rd[r].etag, i>>, i)
<1>0. rd[r] \in RecordOf(rd[r]) /\ Control(r) /\ i \in Blocks
  BY Fields DEF Base, ReaderInv
<1>1. CASE i + 1 \in Needed(r)
  <2>1. PICK s : s = sent
    OBVIOUS
  <2>2. PICK got, n, rec : /\ got = [rd[r].got EXCEPT ![i] = None] /\ n = i + 1
                           /\ rec = [rd[r] EXCEPT !.pc = "stream", !.sent = s, !.i = n, !.got = got]
    OBVIOUS
  <2>3. Become(r, rec)
    BY <1>1, <2>1, <2>2 DEF Send
  <2>4. got \in [Blocks -> Keys \cup {None, Absent}]
    BY <1>0, <2>2, Fields
  <2>5. n \in Blocks
    BY <1>0, <1>1, <2>2, NeededBlocks
  <2>6. rec \in RecordOf(rec)
    BY <1>0, <2>2, <2>4, <2>5 DEF RecordOf
  <2>7. /\ rec.pc = "stream" /\ rec.path = rd[r].path /\ rec.req = rd[r].req
        /\ rec.start = rd[r].start /\ rec.end = rd[r].end
        /\ rec.etag = rd[r].etag /\ rec.token = rd[r].token
    BY <1>0, <2>2 DEF RecordOf
  <2>8. rd'[r] = rec /\ Alone(r)
    BY <2>3, Becoming DEF Base
  <2>9. Ground(r) /\ Same(r)
    BY <2>6, <2>7, <2>8 DEF Ground, Same
  <2> QED  BY <2>7, <2>8, <2>9, Streaming
<1>2. CASE i + 1 \notin Needed(r)
  <2>1. Become(r, [Ended(r, "ok") EXCEPT !.sent = sent])
    BY <1>2 DEF Send
  <2>2. \/ rd[r].token = 0
        \/ rd[r].pc \in {"stream", "recover", "refetch", "remainder"}
    BY <1>0 DEF Control
  <2> HIDE DEF sent
  <2> QED  BY <2>1, <2>2, Ends
<1> QED  BY <1>1, <1>2

LEMMA Degrades ==
  ASSUME NEW r \in Readers, Base(r), Idles(r), NEW mostly, NEW n, Degrade(r, mostly, n),
         rd[r].pc \in {"first", "stream", "recover", "refetch"}
  PROVE  ReaderInv(r)' /\ Alone(r)
<1>0. rd[r] \in RecordOf(rd[r]) /\ Control(r)
  BY DEF Base, ReaderInv
<1>1. CASE Committed(r)
  <2>1. PICK rec : rec = [rd[r] EXCEPT !.pc = "remainder", !.mostly = mostly,
             !.sent = @ \o SubSeq(Part(r, <<rd[r].etag, rd[r].i>>, rd[r].i), 1, n)]
    OBVIOUS
  <2>2. rd'[r] = rec /\ Alone(r)
    BY <1>1, <2>1, Becoming DEF Base, Degrade
  <2>3. rec \in RecordOf(rec)
    BY <1>0, <2>1 DEF RecordOf
  <2>4. /\ rec.pc = "remainder" /\ rec.path = rd[r].path /\ rec.req = rd[r].req
        /\ rec.start = rd[r].start /\ rec.end = rd[r].end
        /\ rec.etag = rd[r].etag /\ rec.token = rd[r].token
    BY <1>0, <2>1 DEF RecordOf
  <2>5. Ground(r) /\ Same(r)
    BY <2>2, <2>3, <2>4 DEF Ground, Same
  <2> QED  BY <2>2, <2>4, <2>5, Streaming
<1>2. CASE ~Committed(r)
  BY <1>2, Ends DEF Degrade, End
<1> QED  BY <1>1, <1>2

(* A change of state within the stream that leaves the rest of the record.    *)
LEMMA Enters ==
  ASSUME NEW r \in Readers, Base(r), Idles(r), NEW rec, rec \in RecordOf(rec),
         NEW path \in {"assemble", "certified", "first", "probe"}, Enter(r, rec, path),
         rec.token = 0, rec.req.full => rec.start = 0 /\ rec.end = Size - 1,
         rec.req.full => path \in {"first", "probe"}
  PROVE  ReaderInv(r)' /\ Alone(r)
\* A request takes a way to serve, with no token yet.
<1>Taking.
      ASSUME Ground(r), rd'[r].token = 0,
             rd'[r].path \in {"assemble", "certified", "first", "probe"},
             rd'[r].req.full => rd'[r].start = 0 /\ rd'[r].end = Size - 1,
             \/ rd'[r].pc = "first" /\ rd'[r].path = "first"
             \/ /\ rd'[r].pc = "token" /\ rd'[r].path = "probe"
                /\ rd'[r].req.full /\ rd'[r].got = Nothing
             \/ rd'[r].pc = "scan" /\ rd'[r].path # "first" /\ rd'[r].got = Nothing
      PROVE  ReaderInv(r)'
  <2> USE <1>Taking
  <2>1. \A i \in Blocks : Seat(r, i)'
    BY OutSeat DEF Idles, Base, Ground
  <2>2. Control(r)'
    <3>1. \A i \in Blocks : Nothing[i] # Absent
      BY BlockServeAssumption DEF Nothing
    <3>2. entry'.ver \in Nat
      BY VersGrow DEF Base, Ground
    <3> QED  BY <3>1, <3>2, SMTT(30) DEF Control
  <2>3. Tracks(r)'
    BY DEF Tracks, Current
  <2> QED  BY <2>1, <2>2, <2>3 DEF ReaderInv, Base, Ground
<1>1. PICK piped : Become(r, [rec EXCEPT
        !.path = path, !.got = Nothing, !.left = InlineFetches,
        !.piped = piped /\ path \in {"first", "probe"},
        !.i = rec.start \div BlockSize,
        !.pc = IF path = "first" THEN "first"
               ELSE IF rec.req.full /\ ~rec.complete THEN "token" ELSE "scan"])
  BY DEF Enter
<1>2. PICK p : p = (piped /\ path \in {"first", "probe"})
  OBVIOUS
<1>3. PICK pc : pc = IF path = "first" THEN "first"
                     ELSE IF rec.req.full /\ ~rec.complete THEN "token" ELSE "scan"
  OBVIOUS
<1>4. PICK i \in Blocks : i = rec.start \div BlockSize
  BY Fields, Covering
<1>5. PICK new : new = [rec EXCEPT !.path = path, !.got = Nothing, !.left = InlineFetches,
                                   !.piped = p, !.i = i, !.pc = pc]
  OBVIOUS
<1>6. rd'[r] = new /\ Alone(r)
  BY <1>1, <1>2, <1>3, <1>4, <1>5, Becoming DEF Base
<1>7. new \in RecordOf(new)
  BY <1>5, NothingTyped, ZenonT(60) DEF RecordOf
<1>8. /\ new.pc = pc /\ new.path = path /\ new.req = rec.req
      /\ new.start = rec.start /\ new.end = rec.end
      /\ new.token = rec.token /\ new.got = Nothing
  BY <1>5 DEF RecordOf
<1>9. Ground(r)
  BY <1>6, <1>7 DEF Ground
<1>10. \/ pc = "first" /\ path = "first"
       \/ pc = "token" /\ path = "probe" /\ rec.req.full
       \/ pc = "scan" /\ path # "first"
  BY <1>3
<1> QED  BY <1>6, <1>8, <1>9, <1>10, <1>Taking

-----------------------------------------------------------------------------
(* The actions of a request, one by one.                                      *)

(* What a step of r does to everything but its own record.                    *)
Aside(r) ==
    /\ FetchInv' /\ EntryMoves
    /\ upstream' = upstream /\ blocks' \subseteq Keys
    /\ \A q \in Readers \ {r}, i \in Blocks : lease'[q][i] = lease[q][i]
    /\ \A g \in Fetches : fetch[g].pc # "free" => Carried(g)

OwnEffect(r) == Aside(r) /\ Alone(r) /\ ReaderInv(r)'

LEMMA Quietly ==
  ASSUME Inv, SeenMoves, NEW r \in Readers, EntryMoves, upstream' = upstream,
         blocks' \subseteq Keys, UNCHANGED <<inflight, fetch, pool, content, lease>>
  PROVE  /\ Aside(r) /\ Base(r)
         /\ rd[r].pc \notin {"fetch", "copy", "giveup", "refetch"} => Idles(r)
<1>1. FetchInv'
  BY Still DEF Inv
<1>2. Aside(r)
  BY <1>1 DEF Aside, Carried
<1>3. Base(r)
  BY <1>1 DEF Inv, Base
<1>4. ASSUME rd[r].pc \notin {"fetch", "copy", "giveup", "refetch"} PROVE Idles(r)
  BY <1>4, Unseated DEF Inv, ReaderInv, Idles
<1> QED  BY <1>2, <1>3, <1>4

LEMMA RowStays ==
  ASSUME Outside, UNCHANGED entry
  PROVE  EntryMoves
BY DEF Outside, EntryMoves

LEMMA RowDropped ==
  ASSUME Outside, entry' = [entry EXCEPT !.live = FALSE, !.ver = @ + 1]
  PROVE  EntryMoves
<1>1. entry.ver \in Nat
  BY VerTyped DEF Outside
<1>2. PICK v \in Nat : v = entry.ver + 1
  BY <1>1, SMT
<1>3. entry' = [entry EXCEPT !.live = FALSE, !.ver = v]
  BY <1>2
<1>4. entry' \in Entries
  BY <1>3 DEF Outside, Entries
<1>5. entry'.ver = v
  BY <1>3 DEF Outside, Entries
<1> QED  BY <1>1, <1>2, <1>4, <1>5, SMT DEF EntryMoves

LEMMA RouteStep ==
  ASSUME Inv, SeenMoves, NEW r \in Readers, Route(r)
  PROVE  OwnEffect(r)
<1>MinTwo.
      ASSUME NEW a \in Int, NEW b \in Int
      PROVE  /\ min(a, b) \in Int /\ min(a, b) <= a /\ min(a, b) <= b
             /\ max(a, b) \in Int
  BY <1>MinTwo, SMT DEF min, max
<1>ParsedRange.
      ASSUME NEW q \in Jobs, Len(parseRangeHeader(q.parts)) = 1
      PROVE  /\ parseRangeHeader(q.parts)[1].start \in 0..(Size - 1)
             /\ parseRangeHeader(q.parts)[1].end \in 0..(Size - 1)
  <2> USE <1>ParsedRange
  <2> DEFINE parts == q.parts
             ranges == [n \in 1..Len(parts) |-> ParsePart(parts[n])]
             Invalid(b) == b.start < 0 \/ b.start >= Size \/ b.start > b.end
             Specs == [from: Nat \cup {Nil}, to: Nat \cup {Nil}]
  <2>1. parts \in Seq(Specs)
    BY BlockServeAssumption
  <2>2. parseRangeHeader(parts) =
          IF \E n \in 1..Len(parts) : Invalid(ranges[n]) THEN <<>> ELSE ranges
    BY DEF parseRangeHeader
  <2>3. ~\E n \in 1..Len(parts) : Invalid(ranges[n])
    <3> HIDE DEF Invalid, ranges
    <3> QED  BY <2>2, SMT
  <2>4. parseRangeHeader(parts) = ranges
    BY <2>2, <2>3
  <2>5. Len(parts) \in Nat /\ Len(ranges) = Len(parts)
    <3> HIDE DEF Specs
    <3> QED  BY <2>1, SMT
  <2>6. 1 \in 1..Len(parts) /\ Len(parts) = 1
    <3>1. Len(ranges) = 1
      BY <2>4
    <3>2. Len(parts) = 1
      BY <2>5, <3>1
    <3>3. 1 \in 1..1
      BY SMT
    <3> QED  BY <3>2, <3>3
  <2>7. PICK p \in Specs : p = parts[1]
    <3> HIDE DEF Specs
    <3> QED  BY <2>1, <2>6, SMT
  <2>8. PICK b : b = ParsePart(p)
    OBVIOUS
  <2>9. b = ranges[1] /\ ~Invalid(b)
    BY <2>3, <2>6, <2>7, <2>8
  <2>10. p.from \in Int /\ p.to \in Int
    BY SMT DEF Nil
  <2>11. PICK u \in Int : u = Size - 1
    BY Sizes, SMT
  <2>12. PICK v \in Int : v = Size - p.to
    BY <2>10, Sizes, SMT
  <2>13. PICK m \in Int : m = min(p.to, u) /\ m <= u
    BY <2>10, <1>MinTwo
  <2>14. PICK x \in Int : x = max(0, v)
    <3>1. 0 \in Int
      BY SMT
    <3> QED  BY <3>1, <1>MinTwo
  <2>15. /\ b.start = (IF p.from = Nil THEN x ELSE p.from)
         /\ b.end = (IF p.from = Nil \/ p.to = Nil THEN u ELSE m)
    BY <2>8, <2>11, <2>12, <2>13, <2>14 DEF ParsePart
  <2>16. b.start \in Int /\ b.end \in Int /\ b.end <= u
    BY <2>10, <2>13, <2>15, SMT
  <2>17. b.start \in 0..(Size - 1) /\ b.end \in 0..(Size - 1)
    BY <2>9, <2>11, <2>16, Sizes, SMT
  <2> QED  BY <2>4, <2>9, <2>17
<1>1. /\ rd[r].pc = "idle" /\ rd[r].req.job = "get"
      /\ UNCHANGED <<upstream, blocks, inflight, fetch, pool, content, lease, entry>>
  BY DEF Route, fetchVars
<1>2. Aside(r) /\ Base(r) /\ Idles(r)
  BY <1>1, Quietly, RowStays DEF Inv, Outside
<1>3. /\ rd[r] \in RecordOf(rd[r]) /\ rd[r].token = 0 /\ rd[r].req \in Jobs
      /\ entry.etag \in Versions
  <2>1. rd[r] \in RecordOf(rd[r]) /\ rd[r].token = 0
    BY <1>1 DEF Inv, ReaderInv, Control
  <2>2. rd[r].req \in Jobs
    BY <1>1, <2>1, Fields, SMT DEF NoJob
  <2> QED  BY <2>1, <2>2, VerTyped DEF Inv, Outside
<1> DEFINE q == rd[r].req
           ranges == IF q.full THEN <<[start |-> 0, end |-> Size - 1]>>
                     ELSE parseRangeHeader(q.parts)
           b == ranges[1]
<1>4. CASE Len(ranges) # 1
  <2>1. Become(r, Ended(r, "416"))
    BY <1>4 DEF Route, End
  <2> QED  BY <1>2, <1>3, <2>1, Ends DEF OwnEffect
<1>5. CASE Len(ranges) = 1
  <2>1. PICK path \in Paths(q.full, b.start, b.end) :
          Enter(r, [rd[r] EXCEPT !.start = b.start, !.end = b.end,
                      !.etag = entry.etag, !.complete = entry.complete], path)
    BY <1>5 DEF Route
  <2>2. b.start \in 0..(Size - 1) /\ b.end \in 0..(Size - 1)
    <3>1. CASE q.full
      BY <3>1, Sizes, SMT
    <3>2. CASE ~q.full
      BY <1>3, <1>5, <3>2, <1>ParsedRange
    <3> QED  BY <3>1, <3>2
  <2>3. q.full => b.start = 0 /\ b.end = Size - 1
    OBVIOUS
  <2>4. /\ path \in {"assemble", "certified", "first", "probe"}
        /\ q.full => path \in {"first", "probe"}
    BY DEF Paths
  <2>5. PICK st \in 0..(Size - 1) : st = b.start
    BY <2>2
  <2>6. PICK en \in 0..(Size - 1) : en = b.end
    BY <2>2
  <2>7. PICK rec : rec = [rd[r] EXCEPT !.start = st, !.end = en,
                      !.etag = entry.etag, !.complete = entry.complete]
    OBVIOUS
  <2>8. Enter(r, rec, path)
    BY <2>1, <2>5, <2>6, <2>7
  <2>9. rec \in RecordOf(rec)
    BY <1>3, <2>7, ZenonT(60) DEF RecordOf
  <2>10. rec.token = rd[r].token /\ rec.req = rd[r].req /\ rec.start = st /\ rec.end = en
    BY <1>3, <2>7 DEF RecordOf
  <2>11. ReaderInv(r)' /\ Alone(r)
    <3> HIDE DEF ranges
    <3> QED  BY <1>2, <1>3, <2>3, <2>4, <2>5, <2>6, <2>8, <2>9, <2>10, Enters
  <2> QED  BY <1>2, <2>11 DEF OwnEffect
<1> QED  BY <1>4, <1>5

LEMMA TokenStep ==
  ASSUME Inv, SeenMoves, NEW r \in Readers, ReadToken(r)
  PROVE  OwnEffect(r)
<1>1. /\ rd[r].pc = "token"
      /\ UNCHANGED <<upstream, blocks, inflight, fetch, pool, content, lease, entry>>
  BY DEF ReadToken, fetchVars
<1>2. Aside(r) /\ Base(r) /\ Idles(r)
  BY <1>1, Quietly, RowStays DEF Inv, Outside
<1>3. /\ rd[r] \in RecordOf(rd[r]) /\ Control(r) /\ entry.ver \in Nat
  BY VerTyped DEF Inv, Outside, ReaderInv
<1>4. PICK pc \in {"fetch", "scan"} :
        pc = IF rd[r].path = "populate" THEN "fetch" ELSE "scan"
  OBVIOUS
<1>5. PICK t \in {0, entry.ver} : Become(r, [rd[r] EXCEPT !.pc = pc, !.token = t])
  BY <1>4 DEF ReadToken
<1>6. t \in Nat /\ t <= entry.ver
  BY <1>3, <1>5, SMT
<1>7. PICK rec : rec = [rd[r] EXCEPT !.pc = pc, !.token = t]
  OBVIOUS
<1>8. rd'[r] = rec /\ Alone(r)
  BY <1>2, <1>5, <1>7, Becoming DEF Base
<1>9. rec \in RecordOf(rec)
  BY <1>3, <1>6, <1>7 DEF RecordOf
<1>10. /\ rec.pc = pc /\ rec.token = t /\ rec.path = rd[r].path /\ rec.req = rd[r].req
       /\ rec.start = rd[r].start /\ rec.end = rd[r].end
       /\ rec.got = rd[r].got /\ rec.etag = rd[r].etag
  BY <1>3, <1>7 DEF RecordOf
<1>11. \A i \in Blocks : Seat(r, i)'
  BY <1>2, OutSeat DEF Idles, Base
<1>12. Control(r)'
  BY <1>1, <1>3, <1>4, <1>6, <1>8, <1>10 DEF Control
<1>13. Tracks(r)'
  <2>1. pc = "scan" => rd'[r].got = Nothing
    BY <1>1, <1>3, <1>4, <1>8, <1>10 DEF Control
  <2>2. \A i \in Blocks : Nothing[i] \notin Keys
    BY BlockFetchAssumption DEF Nothing
  <2>3. pc = "fetch" => rd'[r].path = "populate"
    BY <1>4, <1>8, <1>10
  <2> QED  BY <1>4, <1>8, <1>10, <2>1, <2>2, <2>3 DEF Tracks
<1> QED  BY <1>2, <1>8, <1>9, <1>11, <1>12, <1>13 DEF OwnEffect, ReaderInv

(* The scan of one block.                                                     *)
LEMMA ScanStep ==
  ASSUME Inv, SeenMoves, NEW r \in Readers, NEW i \in Blocks, Scan(r, i)
  PROVE  OwnEffect(r)
<1>1. /\ rd[r].pc = "scan" /\ i \in Needed(r)
      /\ UNCHANGED <<upstream, blocks, inflight, fetch, pool, content, lease>>
  BY DEF Scan
<1>2. EntryMoves
  <2>1. UNCHANGED entry
    BY DEF Scan, invalidateStaleMeta
  <2> QED  BY <2>1, RowStays DEF Inv
<1>3. Aside(r) /\ Base(r) /\ Idles(r)
  BY <1>1, <1>2, Quietly DEF Inv, Outside
<1>4. rd[r] \in RecordOf(rd[r]) /\ Control(r) /\ Tracks(r)
  BY DEF Inv, ReaderInv
<1>5. PICK got : got = [rd[r].got EXCEPT ![i] =
                          IF Cached(r, i) THEN <<rd[r].etag, i>> ELSE Absent]
  OBVIOUS
<1> DEFINE last == \A j \in Needed(r) : got[j] # None
<1>6. \/ End(r, "upstream")
      \/ rd[r].path = "certified" /\ Retry(r)
      \/ /\ ~(rd[r].path = "certified" /\ got[i] = Absent)
         /\ last /\ AfterScan(r, got)
      \/ /\ ~(rd[r].path = "certified" /\ got[i] = Absent)
         /\ ~last /\ Become(r, [rd[r] EXCEPT !.got = got])
  BY <1>5 DEF Scan
<1>7. /\ got \in [Blocks -> Keys \cup {None, Absent}]
      /\ \A j \in Blocks : j # i => got[j] = rd[r].got[j]
      /\ got[i] = IF Cached(r, i) THEN <<rd[r].etag, i>> ELSE Absent
  <2>1. rd[r].got \in [Blocks -> Keys \cup {None, Absent}] /\ <<rd[r].etag, i>> \in Keys
    BY <1>4, Fields DEF Keys
  <2>2. PICK x \in Keys \cup {None, Absent} :
          x = IF Cached(r, i) THEN <<rd[r].etag, i>> ELSE Absent
    BY <2>1
  <2>3. got = [rd[r].got EXCEPT ![i] = x]
    BY <1>5, <2>2
  <2> QED  BY <2>1, <2>2, <2>3
<1>8. CASE End(r, "upstream")
  BY <1>3, <1>8, Ends DEF End, OwnEffect
<1>9. CASE rd[r].path = "certified" /\ Retry(r)
  <2>1. PICK path \in {"first", "probe"} : Enter(r, rd[r], path)
    BY <1>9 DEF Retry
  <2>2. /\ rd[r].token = 0
        /\ rd[r].req.full => rd[r].start = 0 /\ rd[r].end = Size - 1
    BY <1>1, <1>4, <1>9 DEF Control
  <2>3. path \in {"assemble", "certified", "first", "probe"}
    OBVIOUS
  <2>4. ReaderInv(r)' /\ Alone(r)
    BY <1>3, <1>4, <2>1, <2>2, <2>3, Enters
  <2> QED  BY <1>3, <2>4 DEF OwnEffect
<1>10. ASSUME rd'[r].token = rd[r].token, rd'[r].etag = rd[r].etag, Current(r)'
       PROVE  /\ \A j \in Blocks : got[j] \in Keys => j \in seen'
              /\ rd[r].path = "probe" /\ Needed(r) = Blocks
  <2>1. rd[r].token \in Nat /\ rd[r].token <= entry.ver
    BY <1>4, Fields DEF Control
  <2>2. /\ entry' = entry /\ Current(r) /\ seen \subseteq seen'
        /\ \A j \in Blocks : <<rd[r].etag, j>> \in blocks' => j \in seen'
    BY <1>10, <2>1, <1>3, RowKept DEF Base
  <2>3. \A j \in Blocks : rd[r].got[j] \in Keys => j \in seen
    BY <1>1, <1>4, <2>2 DEF Tracks
  <2>4. got[i] \in Keys => i \in seen'
    BY <1>1, <1>7, <2>2, BlockServeAssumption DEF Cached
  <2>5. rd[r].path = "probe" /\ rd[r].req.full
    BY <1>1, <1>4, <2>2 DEF Control, Current
  <2>6. Needed(r) = Blocks
    BY <1>1, <1>4, <2>5, NeededBlocks DEF Control
  <2> QED  BY <1>7, <2>2, <2>3, <2>4, <2>5, <2>6
<1>11. \A j \in Blocks : Seat(r, j)'
  BY <1>3, OutSeat DEF Idles, Base
<1>12. ASSUME rd[r].path = "certified", got[i] # Absent
       PROVE  \A j \in Blocks : got[j] # Absent
  BY <1>1, <1>4, <1>7, <1>12 DEF Control
<1>13. Needed(r) \subseteq Blocks
  BY <1>4, NeededBlocks
<1>14. CASE /\ ~(rd[r].path = "certified" /\ got[i] = Absent)
            /\ ~last /\ Become(r, [rd[r] EXCEPT !.got = got])
  <2>1. PICK rec : rec = [rd[r] EXCEPT !.got = got]
    OBVIOUS
  <2>2. rd'[r] = rec /\ Alone(r)
    BY <1>3, <1>14, <2>1, Becoming DEF Base
  <2>3. rec \in RecordOf(rec)
    BY <1>4, <1>7, <2>1 DEF RecordOf
  <2>4. /\ rec.pc = rd[r].pc /\ rec.path = rd[r].path /\ rec.req = rd[r].req
        /\ rec.start = rd[r].start /\ rec.end = rd[r].end
        /\ rec.etag = rd[r].etag /\ rec.token = rd[r].token /\ rec.got = got
    BY <1>4, <2>1 DEF RecordOf
  <2>5. Ground(r)
    BY <1>3, <2>2, <2>3 DEF Ground
  <2>6. Control(r)'
    BY <1>1, <1>4, <1>12, <1>14, <2>2, <2>4, <2>5, TokenBelow DEF Control
  <2>7. Tracks(r)'
    BY <1>1, <1>10, <2>2, <2>4 DEF Tracks
  <2> QED  BY <1>3, <1>11, <2>2, <2>3, <2>6, <2>7 DEF OwnEffect, ReaderInv
<1>15. CASE /\ ~(rd[r].path = "certified" /\ got[i] = Absent)
            /\ last /\ \E j \in Needed(r) : got[j] = Absent
            /\ Become(r, [rd[r] EXCEPT !.got = got, !.pc = "fetch"])
  <2>1. PICK rec : rec = [rd[r] EXCEPT !.got = got, !.pc = "fetch"]
    OBVIOUS
  <2>2. rd'[r] = rec /\ Alone(r)
    BY <1>3, <1>15, <2>1, Becoming DEF Base
  <2>3. rec \in RecordOf(rec)
    BY <1>4, <1>7, <2>1 DEF RecordOf
  <2>4. /\ rec.pc = "fetch" /\ rec.path = rd[r].path /\ rec.req = rd[r].req
        /\ rec.start = rd[r].start /\ rec.end = rd[r].end
        /\ rec.etag = rd[r].etag /\ rec.token = rd[r].token /\ rec.got = got
    BY <1>4, <2>1 DEF RecordOf
  <2>5. Ground(r)
    BY <1>3, <2>2, <2>3 DEF Ground
  <2>6. rd[r].path # "certified"
    BY <1>12, <1>13, <1>15
  <2>7. Control(r)'
    BY <1>1, <1>4, <2>2, <2>4, <2>5, <2>6, TokenBelow DEF Control
  <2>8. Tracks(r)'
    <3> SUFFICES ASSUME Current(r)', NEW j \in Blocks,
                        \/ got[j] # Absent
                        \/ lease'[r][j].pc = "ok" \/ lease'[r][j].at # None
                 PROVE  j \in seen'
      BY <2>2, <2>4 DEF Tracks
    <3>1. lease'[r][j].pc = "out" /\ lease'[r][j].at = None
      BY <1>3 DEF Idles, Base, FetchInv, LeaseOK, Places, Readers
    <3>2. /\ \A k \in Blocks : got[k] \in Keys => k \in seen'
          /\ Needed(r) = Blocks
      BY <1>10, <2>2, <2>4
    <3>3. got[j] \in Keys
      BY <1>7, <1>15, <3>1, <3>2
    <3> QED  BY <3>2, <3>3
  <2> QED  BY <1>3, <1>11, <2>2, <2>3, <2>7, <2>8 DEF OwnEffect, ReaderInv
<1>16. CASE /\ last /\ \A j \in Needed(r) : got[j] # Absent
            /\ rd[r].path = "probe"
            /\ Become(r, [rd[r] EXCEPT !.pc = "stream", !.got = Nothing])
  <2>1. PICK rec : rec = [rd[r] EXCEPT !.pc = "stream", !.got = Nothing]
    OBVIOUS
  <2>2. rd'[r] = rec /\ Alone(r)
    BY <1>3, <1>16, <2>1, Becoming DEF Base
  <2>3. rec \in RecordOf(rec)
    BY <1>4, NothingTyped, <2>1 DEF RecordOf
  <2>4. /\ rec.pc = "stream" /\ rec.path = rd[r].path /\ rec.req = rd[r].req
        /\ rec.start = rd[r].start /\ rec.end = rd[r].end
        /\ rec.etag = rd[r].etag /\ rec.token = rd[r].token
    BY <1>4, <2>1 DEF RecordOf
  <2>5. Ground(r)
    BY <1>3, <2>2, <2>3 DEF Ground
  <2>6. Control(r)'
    BY <1>1, <1>4, <1>16, <2>2, <2>4, <2>5, TokenBelow DEF Control
  <2>7. Tracks(r)'
    <3> SUFFICES ASSUME Current(r)' PROVE seen' = Blocks
      BY <2>2, <2>4 DEF Tracks
    <3>1. /\ \A k \in Blocks : got[k] \in Keys => k \in seen'
          /\ Needed(r) = Blocks
      BY <1>10, <2>2, <2>4
    <3>2. \A k \in Blocks : got[k] \in Keys
      BY <1>7, <1>16, <3>1
    <3> QED  BY <1>3, <3>1, <3>2, SeenTyped DEF Base
  <2> QED  BY <1>3, <1>11, <2>2, <2>3, <2>6, <2>7 DEF OwnEffect, ReaderInv
<1>17. CASE /\ rd[r].path # "probe"
            /\ Become(r, [Ended(r, "ok") EXCEPT !.sent = Assembled(r, got)])
  <2>1. rd[r].token = 0
    BY <1>1, <1>4, <1>17 DEF Control
  <2>2. PICK s : s = Assembled(r, got)
    OBVIOUS
  <2>3. ReaderInv(r)' /\ Alone(r)
    BY <1>3, <1>17, <2>1, <2>2, Ends
  <2> QED  BY <1>3, <2>3 DEF OwnEffect
<1>18. last /\ AfterScan(r, got) =>
         \/ /\ \E j \in Needed(r) : got[j] = Absent
            /\ Become(r, [rd[r] EXCEPT !.got = got, !.pc = "fetch"])
         \/ /\ \A j \in Needed(r) : got[j] # Absent
            /\ rd[r].path = "probe"
            /\ Become(r, [rd[r] EXCEPT !.pc = "stream", !.got = Nothing])
         \/ /\ rd[r].path # "probe"
            /\ Become(r, [Ended(r, "ok") EXCEPT !.sent = Assembled(r, got)])
  BY DEF AfterScan
<1> HIDE DEF last
<1> QED  BY <1>6, <1>8, <1>9, <1>14, <1>15, <1>16, <1>17, <1>18

(* The assembled range is committed.                                          *)
LEMMA CommitStep ==
  ASSUME Inv, SeenMoves, NEW r \in Readers, CommitAssembled(r)
  PROVE  OwnEffect(r)
<1>1. /\ rd[r].pc = "copy" /\ Missing(r) = {}
      /\ UNCHANGED <<upstream, blocks, inflight, fetch, pool, content, lease, entry>>
  BY DEF CommitAssembled, fetchVars
<1>2. Aside(r) /\ Base(r)
  BY <1>1, Quietly, RowStays DEF Inv, Outside
<1>3. Idles(r)
  BY <1>1 DEF Inv, ReaderInv, Seat, Idles
<1>4. rd[r].token = 0
  BY <1>1 DEF Inv, ReaderInv, Control
<1>5. PICK s : s = Assembled(r, rd[r].got)
  OBVIOUS
<1>6. Become(r, [Ended(r, "ok") EXCEPT !.sent = s])
  BY <1>5 DEF CommitAssembled
<1>7. ReaderInv(r)' /\ Alone(r)
  BY <1>2, <1>3, <1>4, <1>6, Ends
<1> QED  BY <1>2, <1>7 DEF OwnEffect

LEMMA FirstStep ==
  ASSUME Inv, SeenMoves, NEW r \in Readers, FirstSlice(r) \/ StreamBlock(r)
  PROVE  OwnEffect(r)
<1>Recovers.
      ASSUME Base(r), Idles(r), Become(r, [rd[r] EXCEPT !.pc = "recover"]),
             rd[r].pc \in {"first", "stream"}
      PROVE  ReaderInv(r)' /\ Alone(r)
  <2> USE <1>Recovers
  <2>0. rd[r] \in RecordOf(rd[r])
    BY DEF Base, ReaderInv
  <2>1. PICK rec : rec = [rd[r] EXCEPT !.pc = "recover"]
    OBVIOUS
  <2>2. rd'[r] = rec /\ Alone(r)
    BY <2>1, Becoming DEF Base
  <2>3. rec \in RecordOf(rec)
    BY <2>0, <2>1 DEF RecordOf
  <2>4. /\ rec.pc = "recover" /\ rec.path = rd[r].path /\ rec.req = rd[r].req
        /\ rec.start = rd[r].start /\ rec.end = rd[r].end
        /\ rec.etag = rd[r].etag /\ rec.token = rd[r].token
    BY <2>0, <2>1 DEF RecordOf
  <2>5. Ground(r) /\ Same(r)
    BY <2>2, <2>3, <2>4 DEF Ground, Same
  <2> QED  BY <2>2, <2>4, <2>5, Streaming
<1>1. /\ rd[r].pc \in {"first", "stream"}
      /\ UNCHANGED <<upstream, blocks, inflight, fetch, pool, content, lease, entry>>
      /\ \/ Send(r) \/ Become(r, [rd[r] EXCEPT !.pc = "recover"])
         \/ \E n : Degrade(r, FALSE, n)
  BY DEF FirstSlice, StreamBlock, ReadFails
<1>2. Aside(r) /\ Base(r) /\ Idles(r)
  BY <1>1, Quietly, RowStays DEF Inv, Outside
<1>3. ReaderInv(r)' /\ Alone(r)
  BY <1>1, <1>2, Sends, <1>Recovers, Degrades
<1> QED  BY <1>2, <1>3 DEF OwnEffect

(* A step that keeps the leases and where the request is.                     *)
LEMMA SameSeats ==
  ASSUME NEW r \in Readers, \A i \in Blocks : Seat(r, i), UNCHANGED <<lease, fetch>>,
         rd[r].pc \notin {"fetch", "copy"},
         rd'[r].pc = rd[r].pc, rd'[r].path = rd[r].path,
         rd'[r].i = rd[r].i, rd'[r].etag = rd[r].etag
  PROVE  \A i \in Blocks : Seat(r, i)'
BY DEF Seat

LEMMA PrefetchStep ==
  ASSUME Inv, SeenMoves, NEW r \in Readers, NEW j \in Blocks, Prefetch(r, j)
  PROVE  OwnEffect(r)
<1>1. /\ rd[r].pc \in {"stream", "recover", "refetch"}
      /\ UNCHANGED <<upstream, blocks, inflight, fetch, pool, content, lease, entry>>
  BY DEF Prefetch, fetchVars
<1>2. Aside(r) /\ Base(r)
  BY <1>1, Quietly, RowStays DEF Inv, Outside
<1>3. rd[r] \in RecordOf(rd[r]) /\ \A i \in Blocks : Seat(r, i)
  BY DEF Inv, ReaderInv
<1>4. PICK x \in Keys \cup {None, Absent} :
        x = IF Cached(r, j) THEN <<rd[r].etag, j>> ELSE Absent
  BY <1>3, Fields DEF Keys
<1>5. PICK rec : rec = [rd[r] EXCEPT !.got[j] = x]
  OBVIOUS
<1>6. rd'[r] = rec /\ Alone(r)
  BY <1>2, <1>4, <1>5, Becoming DEF Base, Prefetch
<1>7. [rd[r].got EXCEPT ![j] = x] \in [Blocks -> Keys \cup {None, Absent}]
  BY <1>3, Fields
<1>8. rec \in RecordOf(rec)
  BY <1>3, <1>5, <1>7 DEF RecordOf
<1>9. /\ rec.pc = rd[r].pc /\ rec.path = rd[r].path /\ rec.req = rd[r].req
      /\ rec.start = rd[r].start /\ rec.end = rd[r].end
      /\ rec.etag = rd[r].etag /\ rec.token = rd[r].token /\ rec.i = rd[r].i
  BY <1>3, <1>5 DEF RecordOf
<1>10. Ground(r) /\ Same(r)
  BY <1>2, <1>6, <1>8, <1>9 DEF Ground, Same
<1>11. \A i \in Blocks : Seat(r, i)'
  BY <1>1, <1>3, <1>6, <1>9, SameSeats
<1>12. ReaderInv(r)'
  BY <1>1, <1>6, <1>9, <1>10, <1>11, Flowing
<1> QED  BY <1>2, <1>6, <1>12 DEF OwnEffect

LEMMA RemainderStep ==
  ASSUME Inv, SeenMoves, NEW r \in Readers, Remainder(r)
  PROVE  OwnEffect(r)
<1>1. /\ rd[r].pc = "remainder"
      /\ UNCHANGED <<upstream, blocks, inflight, fetch, pool, content, lease>>
  BY DEF Remainder
<1>2. EntryMoves
  <2>1. UNCHANGED entry
    BY DEF Remainder, invalidateStaleMeta
  <2> QED  BY <2>1, RowStays DEF Inv
<1>3. Aside(r) /\ Base(r) /\ Idles(r)
  BY <1>1, <1>2, Quietly DEF Inv, Outside
<1>4. \E a, s : \E rec \in {Ended(r, a), [Ended(r, a) EXCEPT !.sent = s]} : Become(r, rec)
  BY DEF Remainder, End
<1>5. PICK a, s, rec : /\ rec \in {Ended(r, a), [Ended(r, a) EXCEPT !.sent = s]}
                       /\ Become(r, rec)
  BY <1>4, ZenonT(60)
<1>6. ReaderInv(r)' /\ Alone(r)
  BY <1>1, <1>3, <1>5, Ends
<1> QED  BY <1>3, <1>6 DEF OwnEffect

LEMMA PromoteStep ==
  ASSUME Inv, SeenMoves, NEW r \in Readers, Promote(r)
  PROVE  OwnEffect(r)
<1>1. /\ rd[r].pc \in {"stream", "recover", "refetch", "remainder", "done"}
      /\ UNCHANGED <<upstream, blocks, inflight, fetch, pool, content, lease>>
      /\ Become(r, [rd[r] EXCEPT !.token = 0])
  BY DEF Promote, fetchVars
<1>2. EntryMoves
  <2>1. entry \in Entries /\ entry.ver \in Nat /\ entry.ver # 0
    BY VerTyped DEF Inv, Outside
  <2>2. PICK v \in Nat : v = entry.ver + 1
    BY <2>1, SMT
  <2>3. entry' = entry \/ entry' = [entry EXCEPT !.complete = TRUE, !.ver = v]
    BY <2>2 DEF Promote
  <2>4. CASE entry' = [entry EXCEPT !.complete = TRUE, !.ver = v]
    <3>1. entry' \in Entries /\ entry'.ver = v
      BY <2>1, <2>4 DEF Entries
    <3> QED  BY <2>1, <2>2, <3>1, SMT DEF EntryMoves
  <2> QED  BY <2>1, <2>3, <2>4 DEF EntryMoves
<1>3. Aside(r) /\ Base(r)
  BY <1>1, <1>2, Quietly DEF Inv, Outside
<1>4. rd[r] \in RecordOf(rd[r]) /\ Control(r) /\ \A i \in Blocks : Seat(r, i)
  BY DEF Inv, ReaderInv
<1>5. PICK rec : rec = [rd[r] EXCEPT !.token = 0]
  OBVIOUS
<1>6. rd'[r] = rec /\ Alone(r)
  BY <1>1, <1>3, <1>5, Becoming DEF Base
<1>7. 0 \in Nat
  OBVIOUS
<1>8. rec \in RecordOf(rec)
  BY <1>4, <1>5, <1>7 DEF RecordOf
<1>9. /\ rec.pc = rd[r].pc /\ rec.path = rd[r].path /\ rec.req = rd[r].req
      /\ rec.start = rd[r].start /\ rec.end = rd[r].end
      /\ rec.etag = rd[r].etag /\ rec.token = 0 /\ rec.i = rd[r].i
  BY <1>4, <1>5 DEF RecordOf
<1>10. \A i \in Blocks : Seat(r, i)'
  BY <1>1, <1>4, <1>6, <1>9, SameSeats
<1>11. Control(r)'
  BY <1>1, <1>3, <1>4, <1>6, <1>9, VersGrow, SMT DEF Control, Base
<1>12. Tracks(r)'
  BY <1>6, <1>9 DEF Tracks, Current
<1> QED  BY <1>3, <1>6, <1>8, <1>10, <1>11, <1>12 DEF OwnEffect, ReaderInv

LEMMA StartPopulateStep ==
  ASSUME Inv, SeenMoves, NEW r \in Readers, StartPopulate(r)
  PROVE  OwnEffect(r)
<1>1. /\ rd[r].pc = "idle" /\ upstream # None
      /\ UNCHANGED <<upstream, blocks, inflight, fetch, pool, content, lease, entry>>
  BY DEF StartPopulate, fetchVars
<1>2. Aside(r) /\ Base(r) /\ Idles(r)
  BY <1>1, Quietly, RowStays DEF Inv, Outside
<1>3. rd[r] \in RecordOf(rd[r]) /\ Control(r)
  BY DEF Inv, ReaderInv
<1>4. upstream \in Versions
  BY <1>1 DEF Inv, Outside
<1>5. PICK e \in 0..(Size - 1) : e = Size - 1
  BY Sizes, SMT
<1>6. PICK got \in [Blocks -> Keys \cup {None, Absent}] :
        got = [i \in Blocks |-> IF i \in rd[r].req.touched THEN Absent ELSE None]
  OBVIOUS
<1>7. PICK rec : rec = [rd[r] EXCEPT !.pc = "token", !.path = "populate",
                          !.etag = upstream, !.end = e, !.got = got]
  OBVIOUS
<1>8. rd'[r] = rec /\ Alone(r)
  BY <1>2, <1>5, <1>6, <1>7, Becoming DEF Base, StartPopulate
<1>9. rec \in RecordOf(rec)
  BY <1>3, <1>4, <1>7, ZenonT(60) DEF RecordOf
<1>10. rec.pc = "token" /\ rec.path = "populate" /\ rec.token = rd[r].token
  BY <1>3, <1>7 DEF RecordOf
<1>11. rec.token = 0
  BY <1>1, <1>3, <1>10 DEF Control
<1>12. \A i \in Blocks : Seat(r, i)'
  BY <1>2, OutSeat DEF Idles, Base
<1>13. Control(r)'
  BY <1>2, <1>8, <1>10, <1>11, VersGrow, SMT DEF Control, Base
<1>14. Tracks(r)'
  BY <1>8, <1>11 DEF Tracks, Current
<1> QED  BY <1>2, <1>8, <1>9, <1>12, <1>13, <1>14 DEF OwnEffect, ReaderInv

LEMMA StartSplitStep ==
  ASSUME Inv, SeenMoves, NEW r \in Readers, StartSplit(r)
  PROVE  OwnEffect(r)
<1>1. /\ rd[r].pc = "idle" /\ upstream # None
      /\ UNCHANGED <<upstream, blocks, inflight, fetch, pool, content, lease, entry>>
  BY DEF StartSplit, fetchVars
<1>2. Aside(r) /\ Base(r) /\ Idles(r)
  BY <1>1, Quietly, RowStays DEF Inv, Outside
<1>3. rd[r] \in RecordOf(rd[r])
  BY DEF Inv, ReaderInv
<1>4. upstream \in Versions /\ entry.ver \in Nat
  BY <1>1, VerTyped DEF Inv, Outside
<1>5. PICK rec : rec = [rd[r] EXCEPT !.pc = "split", !.path = "split",
                          !.etag = upstream, !.token = entry.ver]
  OBVIOUS
<1>6. rd'[r] = rec /\ Alone(r)
  BY <1>2, <1>5, Becoming DEF Base, StartSplit
<1>7. rec \in RecordOf(rec)
  BY <1>3, <1>4, <1>5 DEF RecordOf
<1>8. rec.pc = "split" /\ rec.path = "split" /\ rec.token = entry.ver
  BY <1>3, <1>5 DEF RecordOf
<1>9. \A i \in Blocks : Seat(r, i)'
  BY <1>2, OutSeat DEF Idles, Base
<1>10. Control(r)'
  BY <1>2, <1>6, <1>8, VersGrow DEF Control, Base
<1>11. Tracks(r)'
  BY <1>6, <1>8 DEF Tracks
<1> QED  BY <1>2, <1>6, <1>7, <1>9, <1>10, <1>11 DEF OwnEffect, ReaderInv

LEMMA SplitStep ==
  ASSUME Inv, SeenMoves, NEW r \in Readers, SplitBlock(r)
  PROVE  OwnEffect(r)
<1>1. /\ rd[r].pc = "split"
      /\ UNCHANGED <<upstream, inflight, fetch, pool, content, lease, entry>>
      /\ blocks' = blocks \/ blocks' = blocks \cup {<<rd[r].etag, rd[r].i>>}
  BY DEF SplitBlock
<1>2. /\ rd[r] \in RecordOf(rd[r]) /\ Control(r)
      /\ rd[r].etag \in Versions /\ rd[r].i \in Blocks
  BY Fields DEF Inv, ReaderInv
<1>3. blocks' \subseteq Keys
  BY <1>1, <1>2, SMT DEF Inv, Outside, Keys
<1>4. Aside(r) /\ Base(r) /\ Idles(r)
  BY <1>1, <1>3, Quietly, RowStays DEF Inv
<1>5. CASE End(r, "upstream")
  BY <1>4, <1>5, Ends DEF End, OwnEffect
<1>6. ASSUME NEW rec, Become(r, rec), rec \in RecordOf(rec),
             rec.pc \in {"split", "publish"}, rec.path = rd[r].path,
             rec.token = rd[r].token
      PROVE  OwnEffect(r)
  <2>1. rd'[r] = rec /\ Alone(r)
    BY <1>4, <1>6, Becoming DEF Base
  <2>2. \A i \in Blocks : Seat(r, i)'
    BY <1>4, OutSeat DEF Idles, Base
  <2>3. Ground(r)
    BY <1>4, <1>6, <2>1 DEF Ground
  <2>4. Control(r)'
    BY <1>1, <1>2, <1>6, <2>1, <2>3, TokenBelow DEF Control
  <2>5. Tracks(r)'
    BY <1>6, <2>1 DEF Tracks
  <2> QED  BY <1>4, <1>6, <2>1, <2>2, <2>4, <2>5 DEF OwnEffect, ReaderInv
<1>7. CASE rd[r].i < LastBlock /\ Become(r, [rd[r] EXCEPT !.i = @ + 1])
  <2>1. PICK n \in Blocks : n = rd[r].i + 1
    BY <1>2, <1>7, Sizes, SMT
  <2>2. PICK rec : rec = [rd[r] EXCEPT !.i = n]
    OBVIOUS
  <2>3. Become(r, rec)
    BY <1>7, <2>1, <2>2
  <2>4. rec \in RecordOf(rec)
    BY <1>2, <2>2 DEF RecordOf
  <2>5. rec.pc = rd[r].pc /\ rec.path = rd[r].path /\ rec.token = rd[r].token
    BY <1>2, <2>2 DEF RecordOf
  <2> QED  BY <1>1, <1>6, <2>3, <2>4, <2>5
<1>8. CASE Become(r, [rd[r] EXCEPT !.pc = "publish"])
  <2>1. PICK rec : rec = [rd[r] EXCEPT !.pc = "publish"]
    OBVIOUS
  <2>2. rec \in RecordOf(rec)
    BY <1>2, <2>1 DEF RecordOf
  <2>3. rec.pc = "publish" /\ rec.path = rd[r].path /\ rec.token = rd[r].token
    BY <1>2, <2>1 DEF RecordOf
  <2> QED  BY <1>6, <1>8, <2>1, <2>2, <2>3
<1>9. \/ End(r, "upstream")
      \/ rd[r].i < LastBlock /\ Become(r, [rd[r] EXCEPT !.i = @ + 1])
      \/ Become(r, [rd[r] EXCEPT !.pc = "publish"])
  BY DEF SplitBlock
<1> QED  BY <1>5, <1>7, <1>8, <1>9

LEMMA PublishStep ==
  ASSUME Inv, SeenMoves, NEW r \in Readers, PublishEntry(r)
  PROVE  OwnEffect(r)
<1>1. /\ rd[r].pc = "publish" /\ End(r, "upstream")
      /\ UNCHANGED <<upstream, blocks, inflight, fetch, pool, content, lease>>
  BY DEF PublishEntry, fetchVars
<1>2. rd[r] \in RecordOf(rd[r]) /\ rd[r].etag \in Versions
  BY Fields DEF Inv, ReaderInv
<1>3. EntryMoves
  <2>1. entry \in Entries /\ entry.ver \in Nat /\ entry.ver # 0
    BY VerTyped DEF Inv, Outside
  <2>2. PICK v \in Nat : v = entry.ver + 1
    BY <2>1, SMT
  <2>3. Missing(r) \subseteq Blocks
    BY <1>2, NeededBlocks DEF Missing
  <2>4. PICK span \in SUBSET Blocks :
          span = IF rd[r].path = "split" THEN {} ELSE blockSpanForRange(Missing(r))
    BY <2>3 DEF blockSpanForRange
  <2>5. PICK whole \in BOOLEAN : whole = (rd[r].path = "split")
    OBVIOUS
  <2>6. \/ entry' = entry
        \/ entry' = [live |-> TRUE, ver |-> v, etag |-> rd[r].etag,
                     complete |-> whole, span |-> span]
    BY <2>2, <2>4, <2>5 DEF PublishEntry
  <2>7. CASE entry' = [live |-> TRUE, ver |-> v, etag |-> rd[r].etag,
                       complete |-> whole, span |-> span]
    <3>1. entry' \in Entries
      BY <1>2, <2>7 DEF Entries
    <3>2. entry'.ver = v
      BY <2>7
    <3> QED  BY <2>1, <2>2, <3>1, <3>2, SMT DEF EntryMoves
  <2> QED  BY <2>1, <2>6, <2>7 DEF EntryMoves
<1>4. Aside(r) /\ Base(r) /\ Idles(r)
  BY <1>1, <1>3, Quietly DEF Inv, Outside
<1>5. ReaderInv(r)' /\ Alone(r)
  BY <1>1, <1>4, Ends DEF End
<1> QED  BY <1>4, <1>5 DEF OwnEffect

-----------------------------------------------------------------------------
(* The actions that begin, read and release fetches.                          *)

(* A lease that stays, while its fetch goes on.                               *)
LEMMA Undisturbed ==
  ASSUME FetchInv, FetchInv', \A g \in Fetches : fetch[g].pc # "free" => Carried(g),
         NEW r \in Readers, NEW i \in Blocks, lease'[r][i] = lease[r][i]
  PROVE  /\ SeatMoves(r, i)
         /\ lease[r][i].at # None =>
              /\ fetch'[lease[r][i].at].key = fetch[lease[r][i].at].key
              /\ fetch'[lease[r][i].at].cache = fetch[lease[r][i].at].cache
<1>1. lease[r][i].at # None =>
        lease[r][i].at \in Fetches /\ fetch[lease[r][i].at].pc # "free"
  BY Clean DEF Readers, Placed
<1>2. Placed'
  BY Clean, PTL
<1>3. lease'[r][i].at # None => fetch'[lease'[r][i].at].pc # "free"
  BY <1>2 DEF Readers, Placed
<1> QED  BY <1>1, <1>3 DEF Carried, SeatMoves

(* The leases of r are dropped once none of them has a place in a fetch.      *)
LEMMA Emptied ==
  ASSUME FetchInv, NEW r \in Readers,
         \A i \in Blocks : lease[r][i].pc \notin Places,
         lease' = [lease EXCEPT ![r] = [i \in Blocks |-> NoLease]],
         UNCHANGED <<inflight, fetch, pool, content>>
  PROVE  /\ FetchInv' /\ Idles(r)
         /\ \A q \in Readers \ {r}, i \in Blocks : lease'[q][i] = lease[q][i]
         /\ \A g \in Fetches : fetch[g].pc # "free" => Carried(g)
<1>1. lease \in [Callers -> [Blocks -> LeaseRecords]] /\ r \in Callers
  BY DEF FetchInv, FetchTypes, Readers
<1>2. NoLease \in LeaseRecords /\ NoLease.pc = "out" /\ NoLease.at = None
  BY DEF NoLease, LeaseRecords
<1>3. PICK row \in [Blocks -> LeaseRecords] : row = [i \in Blocks |-> NoLease]
  BY <1>2
<1>4. lease' = [lease EXCEPT ![r] = row]
  BY <1>3
<1>5. /\ lease' \in [Callers -> [Blocks -> LeaseRecords]]
      /\ lease'[r] = row /\ \A q \in Callers : q # r => lease'[q] = lease[q]
  BY <1>1, <1>4
<1>6. \A i \in Blocks : lease'[r][i] = NoLease
  BY <1>3, <1>5
<1>7. \A i \in Blocks : lease[r][i].at = None
  BY <1>1 DEF FetchInv, LeaseOK
<1>8. FetchInv'
  BY <1>2, <1>5, <1>6, <1>7, Clearing DEF Places
<1> QED  BY <1>2, <1>5, <1>6, <1>8 DEF Idles, Carried, Readers

LEMMA MissingStep ==
  ASSUME Inv, SeenMoves, NEW r \in Readers, NEW i \in Blocks, FetchMissing(r, i)
  PROVE  OwnEffect(r)
<1>1. rd[r].pc = "fetch" /\ i \in Missing(r) /\ UNCHANGED <<entry, rd>>
  BY DEF FetchMissing
<1>2. /\ rd[r] \in RecordOf(rd[r]) /\ Control(r) /\ Tracks(r)
      /\ rd[r].etag \in Versions /\ rd[r].token \in Nat
      /\ \A j \in Blocks : Seat(r, j)
  BY Fields DEF Inv, ReaderInv
<1>3. PICK want \in {"serve", "cache"} :
        /\ want = "serve" => rd[r].path = "assemble"
        /\ \E known : beginBlockFetch(r, rd[r].etag, i, want, known)
  BY DEF FetchMissing
<1>4. PICK known : beginBlockFetch(r, rd[r].etag, i, want, known)
  BY <1>3
<1>5. /\ FetchInv'
      /\ \E f \in Fetches :
           /\ Reseated(r, i, [pc |-> want, at |-> f, buf |-> None])
           /\ fetch'[f].key = <<rd[r].etag, i>> /\ fetch'[f].cache = "open"
      /\ \A g \in Fetches : fetch[g].pc # "free" => Carried(g)
  <2>1. r \in Callers
    BY DEF Readers
  <2> QED  BY <1>2, <1>4, <2>1, Beginning DEF Inv
<1>6. PICK f \in Fetches :
        /\ Reseated(r, i, [pc |-> want, at |-> f, buf |-> None])
        /\ fetch'[f].key = <<rd[r].etag, i>> /\ fetch'[f].cache = "open"
  BY <1>5
<1>7. /\ lease'[r][i].pc = want /\ lease'[r][i].at = f
      /\ \A q \in Readers, j \in Blocks :
           q # r \/ j # i => lease'[q][j] = lease[q][j]
  <2>1. PICK new : new = [pc |-> want, at |-> f, buf |-> None]
    OBVIOUS
  <2>2. Reseated(r, i, new)
    BY <1>6, <2>1
  <2>3. new.pc = want /\ new.at = f
    BY <2>1
  <2>4. lease'[r][i] = new
    BY <2>2 DEF Reseated
  <2>5. \A q \in Readers, j \in Blocks : q # r \/ j # i => lease'[q][j] = lease[q][j]
    BY <2>2 DEF Reseated, Readers
  <2> QED  BY <2>3, <2>4, <2>5
<1>8. upstream' = upstream /\ blocks' = blocks
  BY <1>4 DEF beginBlockFetch
<1>9. Aside(r) /\ Alone(r)
  BY <1>1, <1>5, <1>7, <1>8, RowStays DEF Aside, Alone, Inv, Outside
<1>10. Missing(r)' = Missing(r)
  BY <1>1 DEF Missing, Needed
<1>11. ASSUME NEW j \in Blocks
       PROVE  Seat(r, j)'
  <2>1. CASE j = i
    BY <1>1, <1>3, <1>6, <1>7, <1>10, <2>1 DEF Seat
  <2>2. CASE j # i
    <3>1. lease'[r][j] = lease[r][j]
      BY <1>7, <2>2
    <3>2. lease[r][j].at # None =>
            fetch'[lease[r][j].at].key = fetch[lease[r][j].at].key
      BY <1>5, <3>1, Undisturbed DEF Inv
    <3> QED  BY <1>1, <1>2, <1>10, <3>1, <3>2 DEF Seat
  <2> QED  BY <2>1, <2>2
<1>12. Control(r)'
  BY <1>1, <1>2, <1>9, ControlKept DEF Inv, Aside
<1>13. Tracks(r)'
  <2> SUFFICES ASSUME Current(r)', rd[r].path = "probe", NEW j \in Blocks,
                      \/ rd[r].got[j] # Absent
                      \/ lease'[r][j].pc = "ok"
                      \/ lease'[r][j].at # None /\ fetch'[lease'[r][j].at].cache = "ok"
               PROVE  j \in seen'
    BY <1>1 DEF Tracks
  <2>1. Current(r) /\ seen \subseteq seen'
    BY <1>1, <1>2, <1>9, RowKept DEF Inv, Aside, Control
  <2>2. j # i
    BY <1>1, <1>6, <1>7 DEF Missing
  <2>3. lease'[r][j] = lease[r][j]
    BY <1>7, <2>2
  <2>4. lease[r][j].at # None =>
          fetch'[lease[r][j].at].cache = fetch[lease[r][j].at].cache
    BY <1>5, <2>3, Undisturbed DEF Inv
  <2> QED  BY <1>1, <1>2, <2>1, <2>3, <2>4 DEF Tracks
<1> QED  BY <1>1, <1>2, <1>9, <1>11, <1>12, <1>13 DEF OwnEffect, ReaderInv

LEMMA DoneStep ==
  ASSUME Inv, SeenMoves, NEW r \in Readers, FetchesDone(r)
  PROVE  OwnEffect(r)
<1>1. /\ rd[r].pc = "fetch" /\ Answers(r) \cap {"out", "serve", "cache"} = {}
      /\ UNCHANGED <<upstream, blocks, inflight, fetch, pool, content>>
  BY DEF FetchesDone
<1>2. /\ rd[r] \in RecordOf(rd[r]) /\ Control(r) /\ Tracks(r)
      /\ rd[r].token \in Nat /\ rd[r].got \in [Blocks -> Keys \cup {None, Absent}]
      /\ \A j \in Blocks : Seat(r, j)
  BY Fields DEF Inv, ReaderInv
<1>3. EntryMoves
  <2>1. UNCHANGED entry
    BY DEF FetchesDone, invalidateStaleMeta
  <2> QED  BY <2>1, RowStays DEF Inv
<1>4. \A i \in Missing(r) : lease[r][i].pc \in Answers(r)
  BY DEF Answers
<1>5. \A i \in Blocks : lease[r][i].pc \notin {"serve", "cache"}
  BY <1>1, <1>2, <1>4 DEF Seat
<1>6. PICK pc : pc = IF Answers(r) \cap {"stale", "error", "canceled"} # {} THEN "giveup"
          ELSE IF rd[r].path = "assemble" THEN "copy"
          ELSE IF rd[r].path = "populate" THEN "publish" ELSE "stream"
  OBVIOUS
<1>7. PICK got \in [Blocks -> Keys \cup {None, Absent}] :
        got = IF rd[r].path = "probe" THEN Nothing ELSE rd[r].got
  BY <1>2, NothingTyped
<1>8. PICK rec : rec = [rd[r] EXCEPT !.pc = pc, !.got = got]
  OBVIOUS
<1>9. Become(r, rec)
  BY <1>6, <1>7, <1>8 DEF FetchesDone
<1>10. rec \in RecordOf(rec)
  BY <1>2, <1>8 DEF RecordOf
<1>11. /\ rec.pc = pc /\ rec.path = rd[r].path /\ rec.req = rd[r].req /\ rec.got = got
       /\ rec.start = rd[r].start /\ rec.end = rd[r].end
       /\ rec.etag = rd[r].etag /\ rec.token = rd[r].token
  BY <1>2, <1>8 DEF RecordOf
<1>12. rd'[r] = rec /\ Alone(r)
  BY <1>9, Becoming DEF Inv
<1>13. /\ Aside(r)
       /\ \A j \in Blocks : Seat(r, j)'
  <2>1. CASE rd[r].path = "assemble"
    <3>1. lease' = lease
      BY <2>1 DEF FetchesDone
    <3>2. Aside(r)
      BY <1>1, <1>3, <3>1, Quietly DEF Inv, Outside
    <3>3. Missing(r)' = Missing(r)
      BY <1>7, <1>11, <1>12, <2>1 DEF Missing, Needed
    <3>4. pc \in {"giveup", "copy"}
      BY <1>6, <2>1
    <3>5. \A j \in Blocks : Seat(r, j)'
      <4> SUFFICES ASSUME NEW j \in Blocks PROVE Seat(r, j)'
        OBVIOUS
      <4>1. /\ rd'[r].pc \in {"giveup", "copy"} /\ rd'[r].path = "assemble"
            /\ rd'[r].etag = rd[r].etag /\ lease'[r][j] = lease[r][j] /\ fetch' = fetch
            /\ lease[r][j].pc \notin {"serve", "cache"} /\ Seat(r, j)
        BY <1>1, <1>2, <1>5, <1>11, <1>12, <2>1, <3>1, <3>4
      <4> QED  BY <1>1, <3>3, <4>1 DEF Seat
    <3> QED  BY <3>2, <3>5
  <2>2. CASE rd[r].path # "assemble"
    <3>1. lease' = [lease EXCEPT ![r] = [i \in Blocks |-> NoLease]]
      BY <2>2 DEF FetchesDone
    <3>2. \A i \in Blocks : lease[r][i].pc \notin Places
      BY <1>2, <1>5, <2>2 DEF Seat, Places
    <3>3. /\ FetchInv' /\ Idles(r)
          /\ \A q \in Readers \ {r}, i \in Blocks : lease'[q][i] = lease[q][i]
          /\ \A g \in Fetches : fetch[g].pc # "free" => Carried(g)
      BY <1>1, <3>1, <3>2, Emptied DEF Inv
    <3>4. Aside(r)
      BY <1>1, <1>3, <3>3 DEF Aside, Inv, Outside
    <3> QED  BY <3>3, <3>4, OutSeat DEF Idles
  <2> QED  BY <2>1, <2>2
<1>14. Ground(r)
  BY <1>3, <1>10, <1>12, <1>13 DEF Ground, Base, Inv, Aside
<1>15. /\ pc \in {"giveup", "copy", "publish", "stream"}
       /\ pc = "copy" => rd[r].path = "assemble"
       /\ pc = "publish" => rd[r].path = "populate"
       /\ pc = "stream" => /\ rd[r].path = "probe"
                           /\ Answers(r) \cap {"stale", "error", "canceled"} = {}
  BY <1>1, <1>2, <1>6 DEF Control
<1>16. Control(r)'
  BY <1>1, <1>2, <1>11, <1>12, <1>14, <1>15, TokenBelow DEF Control
<1>17. Tracks(r)'
  <2> SUFFICES ASSUME Current(r)', pc = "stream" PROVE seen' = Blocks
    BY <1>11, <1>12, <1>15 DEF Tracks
  <2>1. Current(r) /\ seen \subseteq seen'
    BY <1>2, <1>3, <1>11, <1>12, RowKept DEF Inv, Control
  <2>2. rd[r].path = "probe" /\ rd[r].req.full
    BY <1>1, <1>2, <1>15, <2>1 DEF Control, Current
  <2>3. Needed(r) = Blocks
    BY <1>1, <1>2, <2>2, NeededBlocks DEF Control
  <2>4. ASSUME NEW i \in Blocks, rd[r].got[i] = Absent
        PROVE  lease[r][i].pc = "ok"
    <3>1. i \in Missing(r)
      BY <2>3, <2>4 DEF Missing
    <3>2. lease[r][i].pc \notin {"out", "serve", "cache", "stale", "error", "canceled"}
      BY <1>1, <1>4, <1>15, <3>1
    <3>3. lease[r][i].pc # "held"
      BY <1>2, <2>2 DEF Seat
    <3>4. lease[r][i] \in LeaseRecords
      BY DEF Inv, FetchInv, FetchTypes, Readers
    <3> QED  BY <3>2, <3>3, <3>4 DEF LeaseRecords
  <2>5. \A i \in Blocks : i \in seen
    BY <1>1, <1>2, <2>1, <2>2, <2>4 DEF Tracks
  <2> QED  BY <2>1, <2>5, SeenTyped DEF Inv
<1> QED  BY <1>10, <1>12, <1>13, <1>16, <1>17 DEF OwnEffect, ReaderInv

LEMMA GiveUpStep ==
  ASSUME Inv, SeenMoves, NEW r \in Readers, GiveUp(r)
  PROVE  OwnEffect(r)
<1>1. rd[r].pc = "giveup" /\ UNCHANGED <<upstream, blocks, entry>>
  BY DEF GiveUp
<1>2. /\ rd[r] \in RecordOf(rd[r]) /\ Control(r) /\ rd[r].token \in Nat
      /\ \A j \in Blocks : Seat(r, j)
  BY Fields DEF Inv, ReaderInv
<1>3. EntryMoves
  BY <1>1, RowStays DEF Inv
<1>4. CASE /\ \E i \in Blocks : lease[r][i].pc = "held" /\ Release(r, i, "error")
           /\ UNCHANGED rd
  <2>1. PICK i \in Blocks : lease[r][i].pc = "held" /\ Release(r, i, "error")
    BY <1>4
  <2>2. /\ FetchInv' /\ Reseated(r, i, Answered("error"))
        /\ Answered("error") = [pc |-> "error", at |-> None, buf |-> None]
        /\ \A g \in Fetches : Carried(g)
    BY <2>1, Releasing DEF Inv, Readers, Places
  <2>3. /\ lease'[r][i].pc = "error" /\ lease'[r][i].at = None
        /\ \A q \in Readers, j \in Blocks :
             q # r \/ j # i => lease'[q][j] = lease[q][j]
    <3>1. PICK new : new = [pc |-> "error", at |-> None, buf |-> None]
      OBVIOUS
    <3>2. Reseated(r, i, new)
      BY <2>2, <3>1
    <3>3. new.pc = "error" /\ new.at = None
      BY <3>1
    <3>4. lease'[r][i] = new
      BY <3>2 DEF Reseated
    <3>5. \A q \in Readers, j \in Blocks : q # r \/ j # i => lease'[q][j] = lease[q][j]
      BY <3>2 DEF Reseated, Readers
    <3> QED  BY <3>3, <3>4, <3>5
  <2>4. Aside(r) /\ Alone(r)
    BY <1>1, <1>3, <1>4, <2>2, <2>3 DEF Aside, Alone, Inv, Outside
  <2>5. ASSUME NEW j \in Blocks PROVE Seat(r, j)'
    <3>1. CASE j = i
      BY <1>1, <1>4, <2>3, <3>1 DEF Seat
    <3>2. CASE j # i
      <4>1. lease'[r][j] = lease[r][j]
        BY <2>3, <3>2
      <4>2. lease[r][j].at # None =>
              fetch'[lease[r][j].at].key = fetch[lease[r][j].at].key
        BY <2>2, <4>1, Undisturbed DEF Inv
      <4> QED  BY <1>1, <1>2, <1>4, <4>1, <4>2 DEF Seat
    <3> QED  BY <3>1, <3>2
  <2>6. Control(r)'
    BY <1>2, <1>3, <1>4, ControlKept DEF Inv
  <2>7. Tracks(r)'
    BY <1>1, <1>4 DEF Tracks
  <2> QED  BY <1>2, <1>4, <2>4, <2>5, <2>6, <2>7 DEF OwnEffect, ReaderInv
<1>5. CASE /\ \A i \in Blocks : lease[r][i].pc # "held"
           /\ lease' = [lease EXCEPT ![r] = [i \in Blocks |-> NoLease]]
           /\ End(r, "upstream")
           /\ UNCHANGED <<inflight, fetch, pool, content>>
  <2>1. \A i \in Blocks : lease[r][i].pc \notin Places
    BY <1>1, <1>2, <1>5 DEF Seat, Places
  <2>2. /\ FetchInv' /\ Idles(r)
        /\ \A q \in Readers \ {r}, i \in Blocks : lease'[q][i] = lease[q][i]
        /\ \A g \in Fetches : fetch[g].pc # "free" => Carried(g)
    BY <1>5, <2>1, Emptied DEF Inv
  <2>3. Aside(r) /\ Base(r)
    BY <1>1, <1>3, <2>2 DEF Aside, Base, Inv, Outside
  <2>4. ReaderInv(r)' /\ Alone(r)
    BY <1>5, <2>2, <2>3, Ends DEF End
  <2> QED  BY <2>3, <2>4 DEF OwnEffect
<1> QED  BY <1>4, <1>5 DEF GiveUp

(* An assembled range copies block i.                                         *)
LEMMA CopyStep ==
  ASSUME Inv, SeenMoves, NEW r \in Readers, NEW i \in Blocks, CopyBlock(r, i)
  PROVE  OwnEffect(r)
<1>Copying.
      ASSUME i \in Missing(r),
             rd[r].pc = "copy", NEW x \in Keys \cup {None, Absent},
             Become(r, [rd[r] EXCEPT !.got[i] = x]), FetchInv', Reseated(r, i, NoLease),
             \A g \in Fetches : fetch[g].pc # "free" => Carried(g),
             UNCHANGED <<upstream, blocks, entry>>
      PROVE  OwnEffect(r)
  <2> USE <1>Copying
  <2>1. /\ rd[r] \in RecordOf(rd[r]) /\ Control(r) /\ rd[r].token = 0
        /\ rd[r].path = "assemble" /\ rd[r].got \in [Blocks -> Keys \cup {None, Absent}]
        /\ \A j \in Blocks : Seat(r, j)
    BY Fields DEF Inv, ReaderInv, Control
  <2>2. EntryMoves
    BY RowStays DEF Inv
  <2>3. /\ lease'[r][i].pc = "out" /\ lease'[r][i].at = None
        /\ \A q \in Readers, j \in Blocks :
             q # r \/ j # i => lease'[q][j] = lease[q][j]
    BY SMT DEF Reseated, Readers, NoLease
  <2>4. Aside(r)
    BY <2>2, <2>3 DEF Aside, Inv, Outside
  <2>5. PICK got : got = [rd[r].got EXCEPT ![i] = x]
    OBVIOUS
  <2>6. /\ got \in [Blocks -> Keys \cup {None, Absent}]
        /\ \A j \in Blocks : j # i => got[j] = rd[r].got[j]
    BY <2>1, <2>5
  <2>7. PICK rec : rec = [rd[r] EXCEPT !.got = got]
    OBVIOUS
  <2>8. rd'[r] = rec /\ Alone(r)
    BY <2>5, <2>7, Becoming DEF Inv
  <2>9. rec \in RecordOf(rec)
    BY <2>1, <2>6, <2>7 DEF RecordOf
  <2>10. /\ rec.pc = rd[r].pc /\ rec.path = rd[r].path /\ rec.req = rd[r].req
         /\ rec.start = rd[r].start /\ rec.end = rd[r].end
         /\ rec.etag = rd[r].etag /\ rec.token = rd[r].token /\ rec.got = got
    BY <2>1, <2>7 DEF RecordOf
  <2>11. \A j \in Blocks : j # i /\ j \in Missing(r) => j \in Missing(r)'
    BY <2>6, <2>8, <2>10 DEF Missing, Needed
  <2>12. ASSUME NEW j \in Blocks PROVE Seat(r, j)'
    <3>1. CASE j = i
      BY <2>3, <3>1 DEF Seat
    <3>2. CASE j # i
      <4>1. lease'[r][j] = lease[r][j]
        BY <2>3, <3>2
      <4>2. lease[r][j].at # None =>
              fetch'[lease[r][j].at].key = fetch[lease[r][j].at].key
        BY <4>1, Undisturbed DEF Inv
      <4>3. /\ rd'[r].pc = "copy" /\ rd'[r].path = rd[r].path /\ rd'[r].etag = rd[r].etag
            /\ j \in Missing(r) => j \in Missing(r)'
        BY <2>8, <2>10, <2>11, <3>2
      <4>4. Seat(r, j)
        BY <2>1
      <4> QED  BY <4>1, <4>2, <4>3, <4>4 DEF Seat
    <3> QED  BY <3>1, <3>2
  <2>13. Control(r)'
    BY <2>1, <2>2, <2>8, <2>10, VersGrow DEF Control, Inv
  <2>14. Tracks(r)'
    BY <2>1, <2>8, <2>10 DEF Tracks, Current
  <2> QED  BY <2>4, <2>8, <2>9, <2>12, <2>13, <2>14 DEF OwnEffect, ReaderInv
<1>1. rd[r].pc = "copy" /\ i \in Missing(r) /\ UNCHANGED <<upstream, blocks, entry>>
  BY DEF CopyBlock
<1>2. /\ rd[r] \in RecordOf(rd[r]) /\ Control(r) /\ rd[r].token = 0
      /\ rd[r].etag \in Versions /\ \A j \in Blocks : Seat(r, j)
  BY <1>1, Fields DEF Inv, ReaderInv, Control
<1>3. lease[r][i] \in LeaseRecords /\ LeaseOK(r, i)
  BY DEF Inv, FetchInv, FetchTypes, Readers
<1>4. CASE /\ lease[r][i].pc = "held"
           /\ Become(r, [rd[r] EXCEPT !.got[i] = content[lease[r][i].buf]])
           /\ Release(r, i, "out")
  <2>1. lease[r][i].buf \in Bufs
    BY <1>3, <1>4 DEF LeaseOK, LeaseRecords
  <2>2. PICK x \in Keys \cup {None, Absent} : x = content[lease[r][i].buf]
    BY <2>1 DEF Inv, FetchInv, FetchTypes
  <2>3. /\ FetchInv' /\ Reseated(r, i, Answered("out"))
        /\ Answered("out") = [pc |-> "out", at |-> None, buf |-> None]
        /\ \A g \in Fetches : Carried(g)
    BY <1>4, Releasing DEF Inv, Readers, Places
  <2>4. Reseated(r, i, NoLease)
    BY <2>3 DEF NoLease
  <2>5. Become(r, [rd[r] EXCEPT !.got[i] = x])
    BY <1>4, <2>2
  <2> QED  BY <1>1, <2>3, <2>4, <2>5, <1>Copying
<1>5. CASE /\ lease[r][i].pc = "ok"
           /\ Become(r, [rd[r] EXCEPT !.got[i] = <<rd[r].etag, i>>])
           /\ lease' = [lease EXCEPT ![r][i] = NoLease]
           /\ UNCHANGED <<fetch, pool, content, inflight>>
  <2>1. <<rd[r].etag, i>> \in Keys \cup {None, Absent}
    BY <1>2 DEF Keys
  <2>2. NoLease \in LeaseRecords /\ NoLease.pc = "out" /\ NoLease.at = None
    BY DEF NoLease, LeaseRecords
  <2>3. Reseated(r, i, NoLease)
    BY <1>5, <2>2, Reseating DEF Inv, FetchInv, Readers
  <2>4. lease[r][i].at = None
    BY <1>3, <1>5 DEF LeaseOK, Places
  <2>5. FetchInv'
    BY <1>5, <2>2, <2>3, <2>4, Clearing DEF Inv, Reseated, Places
  <2>6. \A g \in Fetches : Carried(g)
    BY <1>5 DEF Carried
  <2> QED  BY <1>1, <1>5, <2>1, <2>3, <2>5, <2>6, <1>Copying
<1>6. CASE /\ lease[r][i].pc = "ok"
           /\ Become(r, [rd[r] EXCEPT !.pc = "giveup"])
           /\ UNCHANGED <<fetch, pool, content, inflight, lease>>
  <2>1. Aside(r) /\ Base(r)
    BY <1>1, <1>6, Quietly, RowStays DEF Inv, Outside
  <2>2. PICK rec : rec = [rd[r] EXCEPT !.pc = "giveup"]
    OBVIOUS
  <2>3. rd'[r] = rec /\ Alone(r)
    BY <1>6, <2>2, Becoming DEF Inv
  <2>4. rec \in RecordOf(rec)
    BY <1>2, <2>2 DEF RecordOf
  <2>5. /\ rec.pc = "giveup" /\ rec.path = rd[r].path /\ rec.req = rd[r].req
        /\ rec.start = rd[r].start /\ rec.end = rd[r].end
        /\ rec.etag = rd[r].etag /\ rec.token = rd[r].token
    BY <1>2, <2>2 DEF RecordOf
  <2>6. \A j \in Blocks : Seat(r, j)'
    BY <1>1, <1>2, <1>6, <2>3, <2>5 DEF Seat
  <2>7. Control(r)'
    BY <1>1, <1>2, <2>1, <2>3, <2>5, VersGrow DEF Control, Base
  <2>8. Tracks(r)'
    BY <2>3, <2>5 DEF Tracks
  <2> QED  BY <2>1, <2>3, <2>4, <2>6, <2>7, <2>8 DEF OwnEffect, ReaderInv
<1> QED  BY <1>4, <1>5, <1>6 DEF CopyBlock

LEMMA RecoverStep ==
  ASSUME Inv, SeenMoves, NEW r \in Readers, Recover(r)
  PROVE  OwnEffect(r)
<1>1. rd[r].pc = "recover" /\ UNCHANGED entry
  BY DEF Recover
<1>2. /\ rd[r] \in RecordOf(rd[r]) /\ Control(r)
      /\ rd[r].etag \in Versions /\ rd[r].i \in Blocks /\ rd[r].token \in Nat
      /\ \A j \in Blocks : lease[r][j].pc = "out"
  BY <1>1, Fields, Unseated DEF Inv, ReaderInv
<1>3. EntryMoves
  BY <1>1, RowStays DEF Inv
<1>4. CASE /\ UNCHANGED <<upstream, blocks, inflight, fetch, pool, content, lease>>
           /\ Send(r) \/ \E mostly, n : Degrade(r, mostly, n)
  <2>1. Aside(r) /\ Base(r) /\ Idles(r)
    BY <1>1, <1>3, <1>4, Quietly DEF Inv, Outside
  <2>2. ReaderInv(r)' /\ Alone(r)
    BY <1>1, <1>4, <2>1, Sends, Degrades
  <2> QED  BY <2>1, <2>2 DEF OwnEffect
<1>5. CASE /\ Become(r, [rd[r] EXCEPT !.pc = "refetch",
                           !.left = IF Committed(r) THEN @ - 1 ELSE @])
           /\ beginBlockFetch(r, rd[r].etag, rd[r].i, "cache", FALSE)
  <2>1. PICK i \in Blocks : i = rd[r].i
    BY <1>2
  <2>2. beginBlockFetch(r, rd[r].etag, i, "cache", FALSE)
    BY <1>5, <2>1
  <2>3. /\ FetchInv'
        /\ \E f \in Fetches :
             /\ Reseated(r, i, [pc |-> "cache", at |-> f, buf |-> None])
             /\ fetch'[f].key = <<rd[r].etag, i>>
        /\ \A g \in Fetches : fetch[g].pc # "free" => Carried(g)
    BY <1>2, <2>2, Beginning DEF Inv, Readers
  <2>4. PICK f \in Fetches :
          /\ Reseated(r, i, [pc |-> "cache", at |-> f, buf |-> None])
          /\ fetch'[f].key = <<rd[r].etag, i>>
    BY <2>3
  <2>5. /\ lease'[r][i].pc = "cache" /\ lease'[r][i].at = f
        /\ \A q \in Readers, j \in Blocks :
             q # r \/ j # i => lease'[q][j] = lease[q][j]
    <3>1. PICK new : new = [pc |-> "cache", at |-> f, buf |-> None]
      OBVIOUS
    <3>2. Reseated(r, i, new)
      BY <2>4, <3>1
    <3>3. new.pc = "cache" /\ new.at = f
      BY <3>1
    <3>4. lease'[r][i] = new
      BY <3>2 DEF Reseated
    <3>5. \A q \in Readers, j \in Blocks : q # r \/ j # i => lease'[q][j] = lease[q][j]
      BY <3>2 DEF Reseated, Readers
    <3> QED  BY <3>3, <3>4, <3>5
  <2>6. upstream' = upstream /\ blocks' = blocks
    BY <2>2 DEF beginBlockFetch
  <2>7. Aside(r) /\ Base(r)
    BY <1>3, <2>3, <2>5, <2>6 DEF Aside, Base, Inv, Outside
  <2>8. PICK left : left = IF Committed(r) THEN rd[r].left - 1 ELSE rd[r].left
    OBVIOUS
  <2>9. PICK rec : rec = [rd[r] EXCEPT !.pc = "refetch", !.left = left]
    OBVIOUS
  <2>10. rd'[r] = rec /\ Alone(r)
    BY <1>5, <2>8, <2>9, Becoming DEF Inv
  <2>11. rec \in RecordOf(rec)
    BY <1>2, <2>9 DEF RecordOf
  <2>12. /\ rec.pc = "refetch" /\ rec.path = rd[r].path /\ rec.req = rd[r].req
         /\ rec.start = rd[r].start /\ rec.end = rd[r].end
         /\ rec.etag = rd[r].etag /\ rec.token = rd[r].token /\ rec.i = rd[r].i
    BY <1>2, <2>9 DEF RecordOf
  <2>13. ASSUME NEW j \in Blocks PROVE Seat(r, j)'
    <3>1. CASE j = i
      BY <2>1, <2>4, <2>5, <2>10, <2>12, <3>1 DEF Seat
    <3>2. CASE j # i
      <4>1. lease'[r][j] = lease[r][j] /\ lease[r][j].pc = "out"
        BY <1>2, <2>5, <3>2
      <4>2. lease[r][j].at = None
        BY <4>1 DEF Inv, FetchInv, LeaseOK, Places, Readers
      <4> QED  BY <4>1, <4>2 DEF Seat
    <3> QED  BY <3>1, <3>2
  <2>14. Ground(r) /\ Same(r)
    BY <2>7, <2>10, <2>11, <2>12 DEF Ground, Same
  <2>15. ReaderInv(r)'
    BY <1>1, <2>10, <2>12, <2>13, <2>14, Flowing
  <2> QED  BY <2>7, <2>10, <2>15 DEF OwnEffect
<1>6. \/ /\ UNCHANGED <<upstream, blocks, inflight, fetch, pool, content, lease>>
         /\ Send(r) \/ \E mostly, n : Degrade(r, mostly, n)
      \/ /\ Become(r, [rd[r] EXCEPT !.pc = "refetch",
                           !.left = IF Committed(r) THEN @ - 1 ELSE @])
         /\ beginBlockFetch(r, rd[r].etag, rd[r].i, "cache", FALSE)
  BY DEF Recover, ReadFails, fetchVars
<1> QED  BY <1>4, <1>5, <1>6

LEMMA RefetchedStep ==
  ASSUME Inv, SeenMoves, NEW r \in Readers, Refetched(r)
  PROVE  OwnEffect(r)
<1>1. /\ rd[r].pc = "refetch"
      /\ lease[r][rd[r].i].pc \in {"ok", "error", "stale", "canceled"}
      /\ lease' = [lease EXCEPT ![r] = [i \in Blocks |-> NoLease]]
      /\ UNCHANGED <<upstream, blocks, inflight, fetch, pool, content>>
  BY DEF Refetched
<1>2. EntryMoves
  <2>1. UNCHANGED entry
    BY DEF Refetched, invalidateStaleMeta
  <2> QED  BY <2>1, RowStays DEF Inv
<1>3. \A i \in Blocks : lease[r][i].pc \notin Places
  BY <1>1 DEF Inv, ReaderInv, Seat, Places
<1>4. /\ FetchInv' /\ Idles(r)
      /\ \A q \in Readers \ {r}, i \in Blocks : lease'[q][i] = lease[q][i]
      /\ \A g \in Fetches : fetch[g].pc # "free" => Carried(g)
  BY <1>1, <1>3, Emptied DEF Inv
<1>5. Aside(r) /\ Base(r)
  BY <1>1, <1>2, <1>4 DEF Aside, Base, Inv, Outside
<1>6. \/ Send(r) \/ \E mostly, n : Degrade(r, mostly, n)
      \/ \E a : End(r, a)
  BY DEF Refetched, ReadFails
<1>7. ReaderInv(r)' /\ Alone(r)
  BY <1>1, <1>4, <1>5, <1>6, Sends, Degrades, Ends DEF End
<1> QED  BY <1>5, <1>7 DEF OwnEffect

-----------------------------------------------------------------------------
(* The two store calls of an invalidation leave the request where it is.      *)
LEMMA DropStep ==
  ASSUME Inv, SeenMoves, NEW r \in Readers, DropRead(r) \/ DropDelete(r)
  PROVE  OwnEffect(r)
<1>1. UNCHANGED <<upstream, blocks, inflight, fetch, pool, content, lease, rd>>
  BY DEF DropRead, DropDelete
<1>2. EntryMoves
  BY RowStays, RowDropped DEF Inv, DropRead, DropDelete
<1>3. Aside(r)
  BY <1>1, <1>2, Quietly DEF Inv, Outside
<1>4. Alone(r)
  BY <1>1 DEF Alone, Inv
<1>5. ReaderInv(r)'
  <2>1. \A i \in Blocks : SeatMoves(r, i)
    BY <1>1 DEF SeatMoves
  <2> QED  BY <1>1, <1>2, <2>1, ReaderKept DEF Inv
<1> QED  BY <1>3, <1>4, <1>5 DEF OwnEffect

-----------------------------------------------------------------------------
(* Every step preserves the invariant.                                        *)

(* The steps of request r, those that start it included.                      *)
OwnStep(r) == ReaderStep(r) \/ Route(r) \/ StartPopulate(r) \/ StartSplit(r)

LEMMA OwnSteps ==
  ASSUME Inv, SeenMoves, NEW r \in Readers, OwnStep(r)
  PROVE  OwnEffect(r)
<1>1. ASSUME NEW i \in Blocks, Scan(r, i) \/ FetchMissing(r, i) \/ CopyBlock(r, i)
      PROVE  OwnEffect(r)
  BY <1>1, ScanStep, MissingStep, CopyStep
<1>2. ASSUME NEW j \in Blocks, Prefetch(r, j) PROVE OwnEffect(r)
  BY <1>2, PrefetchStep
<1>3. CASE ReadToken(r) \/ FetchesDone(r) \/ GiveUp(r) \/ CommitAssembled(r)
  BY <1>3, TokenStep, DoneStep, GiveUpStep, CommitStep
<1>4. CASE FirstSlice(r) \/ StreamBlock(r) \/ Recover(r) \/ Refetched(r)
  BY <1>4, FirstStep, RecoverStep, RefetchedStep
<1>5. CASE Remainder(r) \/ Promote(r) \/ SplitBlock(r) \/ PublishEntry(r)
  BY <1>5, RemainderStep, PromoteStep, SplitStep, PublishStep
<1>6. CASE Route(r) \/ StartPopulate(r) \/ StartSplit(r)
  BY <1>6, RouteStep, StartPopulateStep, StartSplitStep
<1>7. CASE DropRead(r) \/ DropDelete(r)
  BY <1>7, DropStep
<1> QED  BY <1>1, <1>2, <1>3, <1>4, <1>5, <1>6, <1>7 DEF OwnStep, ReaderStep

LEMMA OwnKeeps ==
  ASSUME Inv, SeenMoves, NEW r \in Readers, OwnEffect(r)
  PROVE  Inv'
<1>1. Aside(r) /\ Alone(r) /\ ReaderInv(r)'
  BY DEF OwnEffect
<1>2. FetchInv' /\ EntryMoves
  BY <1>1 DEF Aside
<1>3. Outside'
  BY <1>1, SeenTyped DEF Aside, Inv, Outside, EntryMoves
<1>4. rd' = [q \in Readers |-> rd'[q]]
  BY <1>1 DEF Alone
<1>5. ASSUME NEW q \in Readers, q # r PROVE ReaderInv(q)'
  <2>1. \A i \in Blocks : SeatMoves(q, i)
    BY <1>1, <1>5, Undisturbed DEF Aside, Inv
  <2>2. rd'[q] = rd[q]
    BY <1>1, <1>5 DEF Alone
  <2> QED  BY <1>2, <2>1, <2>2, ReaderKept DEF Inv
<1> QED  BY <1>1, <1>2, <1>3, <1>4, <1>5 DEF Inv

(* A step of the fetches or of the outside.                                   *)
LEMMA OtherKeeps ==
  ASSUME Inv, SeenMoves, FetchInv', EntryMoves, rd' = rd, blocks' \subseteq Keys,
         upstream' \in Versions \cup {None},
         \A q \in Readers, i \in Blocks : SeatMoves(q, i)
  PROVE  Inv'
<1>1. Outside'
  BY SeenTyped DEF Inv, Outside, EntryMoves
<1>2. ASSUME NEW q \in Readers PROVE ReaderInv(q)'
  BY ReaderKept DEF Inv
<1> QED  BY <1>1, <1>2 DEF Inv

LEMMA TaskKeeps ==
  ASSUME Inv, SeenMoves, NEW f \in Fetches, TaskStep(f)
  PROVE  Inv'
<1>1. FetchTask(f) /\ UNCHANGED <<entry, rd>>
  BY DEF TaskStep
<1>2. FetchInv' /\ TaskEffect(f)
  BY <1>1, TaskSteps DEF Inv, Outside
<1>3. Placed'
  BY <1>2, Clean, PTL
<1>4. ASSUME NEW q \in Readers, NEW i \in Blocks PROVE SeatMoves(q, i)
  <2>1. lease'[q][i] = lease[q][i]
    BY <1>2 DEF TaskEffect
  <2>2. lease'[q][i].at # None =>
          lease'[q][i].at \in Fetches /\ fetch'[lease'[q][i].at].pc # "free"
    BY <1>3 DEF Placed, Readers
  <2> QED  BY <1>2, <2>1, <2>2 DEF SeatMoves, TaskEffect, Carried
<1>5. EntryMoves
  BY <1>1, RowStays DEF Inv
<1> QED  BY <1>1, <1>2, <1>4, <1>5, OtherKeeps DEF TaskEffect, Inv, Outside

LEMMA CallerKeeps ==
  ASSUME Inv, SeenMoves, NEW r \in Readers, NEW j \in Blocks,
         TakeLease(r, j) \/ AwaitCache(r, j) \/ StopWaiting(r, j), UNCHANGED <<entry, rd>>
  PROVE  Inv'
<1>1. FetchInv' /\ CallerEffect(r, j)
  BY CallerSteps DEF Inv, Readers
<1>2. PICK new \in LeaseRecords :
        /\ Reseated(r, j, new)
        /\ \/ /\ lease[r][j].pc = "serve" /\ new.pc = "held"
              /\ new.at = lease[r][j].at
           \/ /\ new.at = None /\ new.pc \in {"ok", "error", "stale", "canceled"}
              /\ lease[r][j].pc = "cache" /\ new.pc = "ok" =>
                   fetch[lease[r][j].at].cache = "ok"
  BY <1>1 DEF CallerEffect
<1>3. Placed'
  BY <1>1, Clean, PTL
<1>4. ASSUME NEW q \in Readers, NEW i \in Blocks PROVE SeatMoves(q, i)
  <2>1. CASE q = r /\ i = j
    <3>1. lease'[r][j] = new
      BY <1>2 DEF Reseated
    <3>2. new.at # None => new.at \in Fetches /\ fetch'[new.at].pc # "free"
      BY <1>3, <3>1 DEF Placed, Readers
    <3> QED  BY <1>1, <1>2, <2>1, <3>1, <3>2 DEF SeatMoves, CallerEffect, Carried
  <2>2. CASE q # r \/ i # j
    <3>1. lease'[q][i] = lease[q][i]
      BY <1>2, <2>2 DEF Reseated, Readers
    <3> QED  BY <1>1, <3>1, Undisturbed DEF Inv, CallerEffect
  <2> QED  BY <2>1, <2>2
<1>5. EntryMoves
  BY RowStays DEF Inv
<1> QED  BY <1>1, <1>4, <1>5, OtherKeeps DEF CallerEffect, Inv, Outside

(* Evictions, writes of others and invalidations.                             *)
LEMMA OutsideKeeps ==
  ASSUME Inv, SeenMoves, EntryMoves, blocks' \subseteq blocks,
         upstream' \in Versions \cup {None},
         UNCHANGED <<inflight, fetch, pool, content, lease, rd>>
  PROVE  Inv'
<1>1. FetchInv'
  BY Still DEF Inv
<1>2. \A q \in Readers, i \in Blocks : SeatMoves(q, i)
  BY DEF SeatMoves
<1> QED  BY <1>1, <1>2, OtherKeeps DEF Inv, Outside

LEMMA Stutters ==
  ASSUME Inv, UNCHANGED vars
  PROVE  Inv'
<1>1. UNCHANGED <<upstream, blocks, inflight, fetch, pool, content, lease, entry, rd, seen>>
  BY DEF vars, fetchVars
<1>2. FetchInv'
  BY <1>1, Still DEF Inv
<1>3. Outside'
  BY <1>1 DEF Inv, Outside
<1>4. ASSUME NEW r \in Readers PROVE ReaderInv(r)'
  <2>1. ReaderInv(r)
    BY DEF Inv
  <2> QED  BY <1>1, <2>1 DEF ReaderInv, Seat, Control, Tracks, Current, Missing, Needed
<1> QED  BY <1>1, <1>2, <1>3, <1>4 DEF Inv

LEMMA Keeps ==
  ASSUME Inv, [Next]_vars
  PROVE  Inv'
<1> SUFFICES ASSUME Next PROVE Inv'
  BY Stutters
<1>1. SeenMoves /\ Step
  BY DEF Next, SeenMoves
<1>2. ASSUME NEW r \in Readers, OwnStep(r) PROVE Inv'
  BY <1>1, <1>2, OwnSteps, OwnKeeps
<1>3. ASSUME NEW r \in Readers, NEW i \in Blocks,
             TakeLease(r, i) \/ AwaitCache(r, i) \/ StopWaiting(r, i), UNCHANGED <<entry, rd>>
      PROVE  Inv'
  BY <1>1, <1>3, CallerKeeps
<1>4. ASSUME NEW f \in Fetches, TaskStep(f) PROVE Inv'
  BY <1>1, <1>4, TaskKeeps
<1>5. ASSUME NEW k \in Keys, EvictBlock(k), UNCHANGED <<entry, rd>> PROVE Inv'
  <2>1. /\ blocks' \subseteq blocks /\ upstream' = upstream
        /\ UNCHANGED <<inflight, fetch, pool, content, lease, rd>>
    BY <1>5 DEF EvictBlock
  <2> QED  BY <1>1, <1>5, <2>1, OutsideKeeps, RowStays DEF Inv, Outside
<1>6. ASSUME NEW v \in Versions \cup {None}, Overwrite(v) PROVE Inv'
  <2>1. EntryMoves
    BY <1>6, RowStays, RowDropped DEF Inv, Overwrite
  <2> QED  BY <1>1, <1>6, <2>1, OutsideKeeps DEF Overwrite
<1>7. CASE Invalidate
  BY <1>1, <1>7, RowDropped, OutsideKeeps DEF Inv, Outside, Invalidate, fetchVars
<1>8. CASE Quiet
  BY <1>1, <1>8, RowStays, OutsideKeeps DEF Inv, Outside, Quiet, fetchVars
<1> QED
  BY <1>1, <1>2, <1>3, <1>4, <1>5, <1>6, <1>7, <1>8
  DEF Step, OwnStep, CallerStep, Environment

-----------------------------------------------------------------------------
(* A step that may turn a live row complete is a promotion of that very row.  *)
LEMMA RowSteps ==
  ASSUME Inv, Next, entry.live, entry'.live, entry' # entry
  PROVE  \E r \in Readers : Promote(r) /\ Current(r)
<1>0. entry \in Entries
  BY DEF Inv, Outside
<1>1. ASSUME entry' = [entry EXCEPT !.live = FALSE, !.ver = @ + 1] PROVE FALSE
  BY <1>0, <1>1 DEF Entries
<1>2. ASSUME NEW r \in Readers PROVE ~invalidateStaleMeta(r) /\ ~DropRead(r) /\ ~DropDelete(r)
  BY <1>1 DEF invalidateStaleMeta, DropRead, DropDelete
<1>3. ASSUME NEW v \in Versions \cup {None}, Overwrite(v) PROVE FALSE
  BY <1>1, <1>3 DEF Overwrite
<1>4. ~Invalidate /\ ~Quiet
  BY <1>1 DEF Invalidate, Quiet
<1>5. ASSUME NEW r \in Readers, OwnStep(r), ~Promote(r) PROVE FALSE
  <2>1. \A j \in Blocks : ~Scan(r, j)
    BY <1>2 DEF Scan
  <2>2. \A j \in Blocks : ~CopyBlock(r, j) /\ ~FetchMissing(r, j) /\ ~Prefetch(r, j)
    BY DEF CopyBlock, FetchMissing, Prefetch
  <2>3. ~FetchesDone(r) /\ ~Refetched(r) /\ ~Remainder(r)
    BY <1>2 DEF FetchesDone, Refetched, Remainder
  <2>4. /\ ~ReadToken(r) /\ ~GiveUp(r) /\ ~CommitAssembled(r)
        /\ ~FirstSlice(r) /\ ~StreamBlock(r) /\ ~Recover(r)
        /\ ~SplitBlock(r) /\ ~Route(r) /\ ~StartPopulate(r) /\ ~StartSplit(r)
    BY DEF ReadToken, GiveUp, CommitAssembled, FirstSlice, StreamBlock, Recover,
                 SplitBlock, Route, StartPopulate, StartSplit
  <2>5. ~PublishEntry(r)
    BY DEF PublishEntry
  <2> QED  BY <1>2, <1>5, <2>1, <2>2, <2>3, <2>4, <2>5 DEF OwnStep, ReaderStep
<1>6. PICK r \in Readers : Promote(r)
  BY <1>3, <1>4, <1>5
  DEF Next, Step, OwnStep, CallerStep, TaskStep, Environment
<1>7. Current(r)
  BY <1>6 DEF Promote, Current
<1> QED  BY <1>6, <1>7

-----------------------------------------------------------------------------
(* Invalidations.  The row a request doomed, while it lives under the version *)
(* it was doomed with, has the ETag of the request, and the request has a     *)
(* stale answer to act on, or an invalidation under way or failed.            *)
Threat(r) ==
    \/ rd[r].pc \in {"fetch", "refetch"} /\ \E i \in Blocks : lease[r][i].pc = "stale"
    \/ drop[r].pc \in {"read", "failed"}
    \/ drop[r].pc = "delete" /\ drop[r].ver = entry.ver

Going(r) ==
    doomed[r] # 0 /\ entry.live /\ entry.ver = doomed[r]
      => entry.etag = rd[r].etag /\ Threat(r)

(* A request drops a row only on its way out.                                 *)
Leaving(r) == drop[r].pc # "none" => rd[r].pc \in {"giveup", "done"}

DropInv ==
    /\ drop \in [Readers -> DropRecords] /\ doomed \in [Readers -> Nat]
    /\ \A r \in Readers : doomed[r] <= entry.ver /\ Leaving(r) /\ Going(r)

(* What a step leaves of request r's drop, of the row and of a threat to it.  *)
DropMoves(r) ==
    /\ drop' \in [Readers -> DropRecords]
    /\ Leaving(r)'
    /\ entry' = entry /\ entry.live /\ entry.etag = rd[r].etag /\ Threat(r)
         => rd'[r].etag = rd[r].etag /\ Threat(r)'

\* A step before the request has anything to act on.
LEMMA Unaware ==
  ASSUME DropInv, NEW r \in Readers, drop' = drop,
         rd[r].pc \notin {"fetch", "refetch", "giveup", "done"}
  PROVE  DropMoves(r)
<1>1. drop[r].pc = "none"
  BY DEF DropInv, Leaving
<1>2. ~Threat(r)
  BY <1>1 DEF Threat
<1> QED  BY <1>1, <1>2 DEF DropMoves, DropInv, Leaving

\* The request, still where it is, or over, keeps its drop and its answers.
LEMMA Lingers ==
  ASSUME DropInv, NEW r \in Readers, drop' = drop, rd'[r].etag = rd[r].etag,
         rd'[r].pc = rd[r].pc \/ (rd[r].pc = "giveup" /\ rd'[r].pc = "done"),
         rd[r].pc \in {"fetch", "refetch"} =>
           \A i \in Blocks : lease[r][i].pc = "stale" => lease'[r][i].pc = "stale"
  PROVE  DropMoves(r)
<1>1. Leaving(r)'
  BY DEF DropInv, Leaving
<1>2. ASSUME entry' = entry, Threat(r) PROVE Threat(r)'
  BY <1>2 DEF Threat
<1> QED  BY <1>1, <1>2 DEF DropMoves, DropInv

\* The request is on its way out and sets out to drop its row.
LEMMA Drops ==
  ASSUME DropInv, NEW r \in Readers, invalidateStaleMeta(r),
         rd'[r].pc \in {"giveup", "done"},
         rd[r].pc \in {"scan", "remainder"} \/ rd'[r].etag = rd[r].etag
  PROVE  DropMoves(r)
<1>1. PICK d \in DropRecords : d = drop[r]
  BY DEF DropInv
<1>2. PICK new : new = [d EXCEPT !.pc = "read"]
  OBVIOUS
<1>3. new \in DropRecords /\ new.pc = "read"
  BY <1>1, <1>2 DEF DropRecords
<1>4. drop' = [drop EXCEPT ![r] = new]
  BY <1>1, <1>2 DEF invalidateStaleMeta
<1>5. drop' \in [Readers -> DropRecords] /\ drop'[r].pc = "read"
  BY <1>3, <1>4 DEF DropInv
<1>6. rd[r].pc \in {"scan", "remainder"} => ~Threat(r)
  BY DEF DropInv, Leaving, Threat
<1> QED  BY <1>5, <1>6 DEF DropMoves, Leaving, Threat

\* A request that is over keeps its ETag.
LEMMA EndsRecord ==
  ASSUME Inv, NEW r \in Readers, NEW a, NEW s, NEW rec, Become(r, rec),
         rec \in {Ended(r, a), [Ended(r, a) EXCEPT !.sent = s]}
  PROVE  rd'[r].pc = "done" /\ rd'[r].etag = rd[r].etag
<1>1. rd'[r] = rec
  BY Becoming DEF Inv
<1>2. PICK idle : idle = Idle(rd[r].req)
  OBVIOUS
<1>3. idle \in RecordOf(idle)
  <2>1. rd[r].req \in Jobs \cup {NoJob}
    BY Fields DEF Inv, ReaderInv
  <2> QED  BY <1>2, <2>1, IdleShape
<1>4. PICK t, e : e = [idle EXCEPT !.pc = "done", !.etag = rd[r].etag,
                         !.sent = rd[r].sent, !.answer = a, !.token = t]
                  /\ e = Ended(r, a)
  BY <1>2 DEF Ended
<1>5. /\ e.pc = "done" /\ e.etag = rd[r].etag
      /\ [e EXCEPT !.sent = s].pc = "done" /\ [e EXCEPT !.sent = s].etag = rd[r].etag
  BY <1>3, <1>4 DEF RecordOf
<1> QED  BY <1>1, <1>4, <1>5

LEMMA ScanDrops ==
  ASSUME Inv, DropInv, NEW r \in Readers, NEW i \in Blocks, Scan(r, i)
  PROVE  DropMoves(r)
<1>1. rd[r].pc = "scan"
  BY DEF Scan
<1>2. CASE drop' = drop
  BY <1>1, <1>2, Unaware
<1>3. CASE drop' # drop
  <2>1. Become(r, Ended(r, "upstream")) /\ invalidateStaleMeta(r)
    BY <1>3 DEF Scan, End
  <2>2. PICK rec, s : rec = Ended(r, "upstream") /\ s = 0
    OBVIOUS
  <2>3. rec \in {Ended(r, "upstream"), [Ended(r, "upstream") EXCEPT !.sent = s]}
    BY <2>2
  <2>4. rd'[r].pc = "done"
    BY <2>1, <2>2, <2>3, EndsRecord
  <2> QED  BY <1>1, <2>1, <2>4, Drops
<1> QED  BY <1>2, <1>3

LEMMA RemainderDrops ==
  ASSUME Inv, DropInv, NEW r \in Readers, Remainder(r)
  PROVE  DropMoves(r)
<1>1. rd[r].pc = "remainder"
  BY DEF Remainder
<1>2. CASE drop' = drop
  BY <1>1, <1>2, Unaware
<1>3. CASE drop' # drop
  <2>1. invalidateStaleMeta(r)
    BY <1>3 DEF Remainder
  <2>2. \E a, s : \E rec \in {Ended(r, a), [Ended(r, a) EXCEPT !.sent = s]} : Become(r, rec)
    BY DEF Remainder, End
  <2>3. PICK a, s, rec : /\ rec \in {Ended(r, a), [Ended(r, a) EXCEPT !.sent = s]}
                         /\ Become(r, rec)
    BY <2>2, ZenonT(60)
  <2>4. rd'[r].pc = "done"
    BY <2>3, EndsRecord
  <2> QED  BY <1>1, <2>1, <2>4, Drops
<1> QED  BY <1>2, <1>3

LEMMA MissingDrops ==
  ASSUME Inv, DropInv, NEW r \in Readers, NEW i \in Blocks, FetchMissing(r, i)
  PROVE  DropMoves(r)
<1>1. UNCHANGED <<drop, rd>> /\ lease[r][i].pc = "out"
  BY DEF FetchMissing, beginBlockFetch
<1>2. \E new : lease' = [lease EXCEPT ![r][i] = new]
  BY DEF FetchMissing, beginBlockFetch
<1>3. PICK new : lease' = [lease EXCEPT ![r][i] = new]
  BY <1>2
<1>4. \A j \in Blocks : j # i => lease'[r][j] = lease[r][j]
  BY <1>3 DEF Inv, FetchInv, FetchTypes, Readers
<1>5. \A j \in Blocks : lease[r][j].pc = "stale" => lease'[r][j].pc = "stale"
  BY <1>1, <1>4
<1> QED  BY <1>1, <1>5, Lingers

LEMMA DoneDrops ==
  ASSUME Inv, DropInv, NEW r \in Readers, FetchesDone(r)
  PROVE  DropMoves(r)
<1>1. rd[r].pc = "fetch" /\ rd[r] \in RecordOf(rd[r]) /\ rd = [q \in Readers |-> rd[q]]
  BY DEF FetchesDone, Inv, ReaderInv
<1>2. PICK pc, got, rec :
        /\ rec = [rd[r] EXCEPT !.pc = pc, !.got = got]
        /\ Become(r, rec)
        /\ IsStale(Answers(r)) => pc = "giveup"
  BY DEF FetchesDone, IsStale
<1>3. rec.pc = pc /\ rec.etag = rd[r].etag
  BY <1>1, <1>2 DEF RecordOf
<1>4. rd'[r] = rec
  BY <1>1, <1>2, Becoming
<1>5. CASE IsStale(Answers(r))
  <2>1. invalidateStaleMeta(r)
    BY <1>5 DEF FetchesDone
  <2> QED  BY <1>2, <1>3, <1>4, <1>5, <2>1, Drops
<1>6. CASE ~IsStale(Answers(r))
  <2>1. drop' = drop
    BY <1>6 DEF FetchesDone
  <2>2. drop[r].pc = "none"
    BY <1>1 DEF DropInv, Leaving
  <2>3. ASSUME NEW i \in Blocks PROVE lease[r][i].pc # "stale"
    <3>1. Seat(r, i)
      BY DEF Inv, ReaderInv
    <3>2. lease[r][i].pc = "stale" => i \in Missing(r)
      BY <1>1, <3>1 DEF Seat
    <3> QED  BY <1>6, <3>2 DEF IsStale, Answers
  <2>4. ~Threat(r)
    BY <2>2, <2>3 DEF Threat
  <2> QED  BY <2>1, <2>2, <2>4 DEF DropMoves, DropInv, Leaving
<1> QED  BY <1>5, <1>6

LEMMA RefetchedDrops ==
  ASSUME Inv, DropInv, NEW r \in Readers, Refetched(r)
  PROVE  DropMoves(r)
<1>1. rd[r].pc = "refetch" /\ drop[r].pc = "none"
  BY DEF Refetched, DropInv, Leaving
<1>2. CASE lease[r][rd[r].i].pc = "stale"
  <2>1. invalidateStaleMeta(r)
    BY <1>2 DEF Refetched, IsStale
  <2>2. \E a : End(r, a)
    BY <1>2 DEF Refetched
  <2>3. rd'[r].pc = "done" /\ rd'[r].etag = rd[r].etag
    BY <2>2, EndsRecord DEF End
  <2> QED  BY <2>1, <2>3, Drops
<1>3. CASE lease[r][rd[r].i].pc # "stale"
  <2>1. drop' = drop
    BY <1>3 DEF Refetched, IsStale
  <2>2. ASSUME NEW i \in Blocks PROVE lease[r][i].pc # "stale"
    <3>1. Seat(r, i)
      BY DEF Inv, ReaderInv
    <3> QED  BY <1>1, <1>3, <3>1 DEF Seat
  <2>3. ~Threat(r)
    BY <1>1, <2>2 DEF Threat
  <2> QED  BY <1>1, <2>1, <2>3 DEF DropMoves, DropInv, Leaving
<1> QED  BY <1>2, <1>3

LEMMA GiveUpDrops ==
  ASSUME Inv, DropInv, NEW r \in Readers, GiveUp(r)
  PROVE  DropMoves(r)
<1>1. rd[r].pc = "giveup" /\ drop' = drop
  BY DEF GiveUp
<1>2. rd'[r] = rd[r] \/ End(r, "upstream")
  BY DEF GiveUp
<1>3. rd'[r].etag = rd[r].etag /\ rd'[r].pc \in {"giveup", "done"}
  BY <1>1, <1>2, EndsRecord DEF End
<1> QED  BY <1>1, <1>3, Lingers

LEMMA StaysDrops ==
  ASSUME Inv, DropInv, NEW r \in Readers,
         Promote(r) \/ \E j \in Blocks : Prefetch(r, j)
  PROVE  DropMoves(r)
<1>1. rd[r] \in RecordOf(rd[r]) /\ rd = [q \in Readers |-> rd[q]]
  BY DEF Inv, ReaderInv
<1>2. drop' = drop /\ lease' = lease
  BY DEF Promote, Prefetch, fetchVars
<1>3. \E token, got, rec : rec = [rd[r] EXCEPT !.token = token, !.got = got] /\ Become(r, rec)
  <2>1. CASE Promote(r)
    <3>1. [rd[r] EXCEPT !.token = 0] = [rd[r] EXCEPT !.token = 0, !.got = rd[r].got]
      BY <1>1 DEF RecordOf
    <3> QED  BY <2>1, <3>1 DEF Promote
  <2>2. ASSUME NEW j \in Blocks, Prefetch(r, j)
        PROVE  \E token, got, rec : rec = [rd[r] EXCEPT !.token = token, !.got = got]
                                    /\ Become(r, rec)
    <3>1. PICK x : Become(r, [rd[r] EXCEPT !.got[j] = x])
      BY <2>2 DEF Prefetch
    <3>2. PICK got : got = [rd[r].got EXCEPT ![j] = x]
      OBVIOUS
    <3>3. [rd[r] EXCEPT !.got[j] = x] = [rd[r] EXCEPT !.token = rd[r].token, !.got = got]
      BY <1>1, <3>2 DEF RecordOf
    <3> QED  BY <3>1, <3>3
  <2> QED  BY <2>1, <2>2
<1>4. PICK token, got, rec : rec = [rd[r] EXCEPT !.token = token, !.got = got] /\ Become(r, rec)
  BY <1>3
<1>5. rec.pc = rd[r].pc /\ rec.etag = rd[r].etag
  BY <1>1, <1>4 DEF RecordOf
<1>6. rd'[r] = rec
  BY <1>1, <1>4, Becoming
<1> QED  BY <1>2, <1>5, <1>6, Lingers

LEMMA DropDrops ==
  ASSUME Inv, DropInv, NEW r \in Readers, DropRead(r) \/ DropDelete(r)
  PROVE  DropMoves(r)
<1>1. rd' = rd /\ rd[r].pc \in {"giveup", "done"}
  BY DEF DropRead, DropDelete, DropInv, Leaving
<1>2. PICK d \in DropRecords : d = drop[r]
  BY DEF DropInv
<1>3. PICK failed : failed = [d EXCEPT !.pc = "failed"]
  OBVIOUS
<1>4. failed \in DropRecords /\ failed.pc = "failed"
  BY <1>2, <1>3 DEF DropRecords
<1>5. NoDrop \in DropRecords /\ NoDrop.pc = "none"
  <2>1. 0 \in Nat
    BY SMT
  <2> QED  BY <2>1 DEF NoDrop, DropRecords
<1>6. entry \in Entries /\ entry.ver \in Nat
  BY VerTyped DEF Inv, Outside
<1>7. PICK found : found = [pc |-> "delete", ver |-> entry.ver]
  OBVIOUS
<1>8. found \in DropRecords /\ found.pc = "delete" /\ found.ver = entry.ver
  BY <1>6, <1>7 DEF DropRecords
<1>9. PICK new \in {failed, found, NoDrop} :
        /\ drop' = [drop EXCEPT ![r] = new]
        /\ new = NoDrop => \/ ~(entry.live /\ entry.etag = rd[r].etag)
                           \/ ~(entry.live /\ entry.ver = drop[r].ver) /\ drop[r].pc = "delete"
                           \/ entry' # entry
  <2>1. CASE DropRead(r)
    <3>1. [drop EXCEPT ![r].pc = "failed"] = [drop EXCEPT ![r] = failed]
      BY <1>2, <1>3 DEF DropInv
    <3>2. \/ drop' = [drop EXCEPT ![r] = failed]
          \/ drop' = [drop EXCEPT ![r] = found]
          \/ /\ drop' = [drop EXCEPT ![r] = NoDrop]
             /\ ~(entry.live /\ entry.etag = rd[r].etag)
      BY <1>7, <2>1, <3>1 DEF DropRead
    <3>3. failed # NoDrop /\ found # NoDrop
      BY <1>4, <1>5, <1>8
    <3>4. CASE drop' = [drop EXCEPT ![r] = failed]
      BY <3>3, <3>4
    <3>5. CASE drop' = [drop EXCEPT ![r] = found]
      BY <3>3, <3>5
    <3>6. CASE /\ drop' = [drop EXCEPT ![r] = NoDrop]
               /\ ~(entry.live /\ entry.etag = rd[r].etag)
      BY <3>6
    <3> QED  BY <3>2, <3>4, <3>5, <3>6
  <2>2. CASE DropDelete(r)
    <3>1. [entry EXCEPT !.live = FALSE, !.ver = @ + 1].live = FALSE
      BY <1>6 DEF Entries
    <3>2. [drop EXCEPT ![r].pc = "failed"] = [drop EXCEPT ![r] = failed]
      BY <1>2, <1>3 DEF DropInv
    <3>3. \/ drop' = [drop EXCEPT ![r] = failed]
          \/ /\ drop' = [drop EXCEPT ![r] = NoDrop] /\ drop[r].pc = "delete"
             /\ \/ ~(entry.live /\ entry.ver = drop[r].ver)
                \/ entry' # entry
      BY <2>2, <3>1, <3>2 DEF DropDelete
    <3>4. failed # NoDrop
      BY <1>4, <1>5
    <3> QED  BY <3>3, <3>4
  <2> QED  BY <2>1, <2>2
<1>10. new \in DropRecords /\ drop' \in [Readers -> DropRecords] /\ drop'[r] = new
  BY <1>4, <1>5, <1>8, <1>9 DEF DropInv
<1>11. Leaving(r)'
  BY <1>1 DEF Leaving
<1>12. ASSUME entry' = entry, entry.live, entry.etag = rd[r].etag, Threat(r)
       PROVE  Threat(r)'
  <2>1. new # NoDrop
    BY <1>1, <1>9, <1>12 DEF Threat
  <2> QED  BY <1>4, <1>8, <1>9, <1>10, <1>12, <2>1 DEF Threat
<1> QED  BY <1>1, <1>10, <1>11, <1>12 DEF DropMoves

LEMMA OwnDrops ==
  ASSUME Inv, DropInv, NEW r \in Readers, OwnStep(r)
  PROVE  /\ DropMoves(r)
         /\ \A q \in Readers : q # r => drop'[q] = drop[q]
<1>1. ASSUME NEW i \in Blocks, Scan(r, i) \/ FetchMissing(r, i)
      PROVE  DropMoves(r)
  BY <1>1, ScanDrops, MissingDrops
<1>2. ASSUME FetchesDone(r) \/ GiveUp(r) \/ Refetched(r) \/ Remainder(r)
      PROVE  DropMoves(r)
  BY <1>2, DoneDrops, GiveUpDrops, RefetchedDrops, RemainderDrops
<1>3. ASSUME Promote(r) \/ \E j \in Blocks : Prefetch(r, j)
      PROVE  DropMoves(r)
  BY <1>3, StaysDrops
<1>4. ASSUME DropRead(r) \/ DropDelete(r) PROVE DropMoves(r)
  BY <1>4, DropDrops
<1>5. ASSUME \/ ReadToken(r) \/ CommitAssembled(r) \/ FirstSlice(r) \/ StreamBlock(r)
             \/ Recover(r) \/ SplitBlock(r) \/ PublishEntry(r)
             \/ Route(r) \/ StartPopulate(r) \/ StartSplit(r)
             \/ \E i \in Blocks : CopyBlock(r, i)
      PROVE  DropMoves(r)
  <2>1. drop' = drop
    BY <1>5 DEF ReadToken, CommitAssembled, FirstSlice, StreamBlock, Recover, SplitBlock,
                PublishEntry, Route, StartPopulate, StartSplit, CopyBlock
  <2>2. rd[r].pc \in {"token", "copy", "first", "stream", "recover", "split", "publish", "idle"}
    BY <1>5 DEF ReadToken, CommitAssembled, FirstSlice, StreamBlock, Recover, SplitBlock,
                PublishEntry, Route, StartPopulate, StartSplit, CopyBlock
  <2> QED  BY <2>1, <2>2, Unaware
<1>6. \/ drop' = drop \/ \E d : drop' = [drop EXCEPT ![r] = d]
  <2>1. invalidateStaleMeta(r) => \E d : drop' = [drop EXCEPT ![r] = d]
    BY DEF invalidateStaleMeta
  <2>2. CASE drop' = drop \/ invalidateStaleMeta(r)
    BY <2>1, <2>2
  <2>3. CASE DropRead(r) \/ DropDelete(r)
    BY <2>3 DEF DropRead, DropDelete
  <2>4. ASSUME ~DropRead(r), ~DropDelete(r) PROVE drop' = drop \/ invalidateStaleMeta(r)
    <3>1. \A i \in Blocks : Scan(r, i) \/ FetchMissing(r, i) \/ CopyBlock(r, i) =>
            drop' = drop \/ invalidateStaleMeta(r)
      BY DEF Scan, FetchMissing, CopyBlock
    <3>2. FetchesDone(r) \/ GiveUp(r) \/ Refetched(r) \/ Remainder(r) =>
            drop' = drop \/ invalidateStaleMeta(r)
      BY DEF FetchesDone, GiveUp, Refetched, Remainder
    <3>3. Promote(r) \/ (\E j \in Blocks : Prefetch(r, j)) => drop' = drop
      BY DEF Promote, Prefetch
    <3>4. ReadToken(r) \/ CommitAssembled(r) \/ FirstSlice(r) \/ StreamBlock(r)
            \/ Recover(r) \/ SplitBlock(r) \/ PublishEntry(r)
            \/ Route(r) \/ StartPopulate(r) \/ StartSplit(r) => drop' = drop
      BY DEF ReadToken, CommitAssembled, FirstSlice, StreamBlock, Recover, SplitBlock,
             PublishEntry, Route, StartPopulate, StartSplit
    <3> QED  BY <2>4, <3>1, <3>2, <3>3, <3>4 DEF OwnStep, ReaderStep
  <2> QED  BY <2>2, <2>3, <2>4
<1>7. \A q \in Readers : q # r => drop'[q] = drop[q]
  BY <1>6 DEF DropInv
<1> QED  BY <1>1, <1>2, <1>3, <1>4, <1>5, <1>7 DEF OwnStep, ReaderStep

\* A step of another request, of a fetch or of the outside.
LEMMA OtherDrops ==
  ASSUME Inv, DropInv, NEW r \in Readers, drop' \in [Readers -> DropRecords],
         drop'[r] = drop[r], rd'[r] = rd[r],
         \A i \in Blocks : lease[r][i].pc = "stale" => lease'[r][i].pc = "stale"
  PROVE  DropMoves(r)
<1>1. Leaving(r)'
  BY DEF DropInv, Leaving
<1>2. ASSUME entry' = entry, Threat(r) PROVE Threat(r)'
  BY <1>2 DEF Threat
<1> QED  BY <1>1, <1>2 DEF DropMoves

LEMMA EveryDrop ==
  ASSUME Inv, DropInv, SeenMoves, Step, NEW r \in Readers
  PROVE  DropMoves(r)
<1>1. ASSUME NEW q \in Readers, OwnStep(q) PROVE DropMoves(r)
  <2>1. CASE q = r
    BY <1>1, <2>1, OwnDrops
  <2>2. CASE q # r
    <3>1. Aside(q) /\ Alone(q)
      BY <1>1, OwnSteps DEF OwnEffect
    <3>2. drop'[r] = drop[r] /\ drop' \in [Readers -> DropRecords]
      BY <1>1, <2>2, OwnDrops DEF DropMoves
    <3>3. rd'[r] = rd[r] /\ \A i \in Blocks : lease'[r][i] = lease[r][i]
      BY <2>2, <3>1 DEF Aside, Alone
    <3> QED  BY <3>2, <3>3, OtherDrops
  <2> QED  BY <2>1, <2>2
<1>2. ASSUME UNCHANGED <<drop, rd>>, NEW q \in Readers, NEW j \in Blocks,
             TakeLease(q, j) \/ AwaitCache(q, j) \/ StopWaiting(q, j)
      PROVE  DropMoves(r)
  <2>1. CallerEffect(q, j)
    BY <1>2, CallerSteps DEF Inv, Readers
  <2>2. \A i \in Blocks : q # r \/ j # i => lease'[r][i] = lease[r][i]
    BY <2>1 DEF CallerEffect, Reseated, Readers
  <2>3. \A i \in Blocks : lease[r][i].pc = "stale" => lease'[r][i].pc = "stale"
    BY <2>1, <2>2 DEF CallerEffect
  <2> QED  BY <1>2, <2>3, OtherDrops DEF DropInv
<1>3. ASSUME UNCHANGED <<drop, rd, lease>> PROVE DropMoves(r)
  BY <1>3, OtherDrops DEF DropInv
<1>4. ASSUME NEW f \in Fetches, TaskStep(f) PROVE UNCHANGED <<drop, rd, lease>>
  BY <1>4 DEF TaskStep, FetchTask, ProbeFetch, GetBlock, Publish, PutBlock
<1>5. ASSUME NEW k \in Keys, EvictBlock(k), UNCHANGED <<entry, drop, rd>>
      PROVE  UNCHANGED <<drop, rd, lease>>
  BY <1>5 DEF EvictBlock
<1>6. ASSUME NEW v \in Versions \cup {None}, Overwrite(v) PROVE UNCHANGED <<drop, rd, lease>>
  BY <1>6 DEF Overwrite
<1>7. Invalidate \/ Quiet => UNCHANGED <<drop, rd, lease>>
  BY DEF Invalidate, Quiet, fetchVars
<1> QED
  BY <1>1, <1>2, <1>3, <1>4, <1>5, <1>6, <1>7 DEF Step, OwnStep, CallerStep, Environment

LEMMA DropsTyped ==
  ASSUME Inv, DropInv, Step
  PROVE  drop' \in [Readers -> DropRecords]
<1>1. ASSUME NEW q \in Readers, OwnStep(q) PROVE drop' \in [Readers -> DropRecords]
  BY <1>1, OwnDrops DEF DropMoves
<1>2. (\E q \in Readers : OwnStep(q)) \/ drop' = drop
  BY DEF Step, OwnStep, CallerStep, TaskStep, Environment, Overwrite, Invalidate, Quiet
<1> QED  BY <1>1, <1>2 DEF DropInv

(* Every write of the row takes a new version, whoever makes it.              *)
LEMMA EveryRow ==
  ASSUME Inv, SeenMoves, Step
  PROVE  EntryMoves
<1>1. ASSUME NEW q \in Readers, OwnStep(q) PROVE EntryMoves
  BY <1>1, OwnSteps DEF OwnEffect, Aside
<1>2. ASSUME UNCHANGED entry PROVE EntryMoves
  BY <1>2, RowStays DEF Inv
<1>3. ASSUME NEW v \in Versions \cup {None}, Overwrite(v) PROVE EntryMoves
  BY <1>2, <1>3, RowDropped DEF Inv, Overwrite
<1>4. CASE Invalidate
  BY <1>4, RowDropped DEF Inv, Invalidate
<1>5. Quiet => UNCHANGED entry
  BY DEF Quiet
<1> QED
  BY <1>1, <1>2, <1>3, <1>4, <1>5 DEF Step, OwnStep, CallerStep, TaskStep, Environment

LEMMA DropKeeps ==
  ASSUME Inv, Inv', DropInv, [Next]_vars
  PROVE  DropInv'
<1>1. CASE UNCHANGED vars
  BY <1>1 DEF DropInv, Leaving, Going, Threat, vars, fetchVars
<1>2. CASE Next
  <2>1. SeenMoves /\ Step
    BY <1>2 DEF Next, SeenMoves
  <2>2. EntryMoves
    BY <1>2, <2>1, EveryRow
  <2>3. ASSUME NEW r \in Readers PROVE DropMoves(r)
    BY <2>1, EveryDrop
  <2>4. entry.ver \in Nat /\ entry'.ver \in Nat /\ doomed \in [Readers -> Nat]
    BY <2>2 DEF Inv, Outside, EntryMoves, DropInv, Entries
  <2>5. ASSUME NEW r \in Readers
        PROVE  doomed'[r] \in Nat /\ doomed'[r] <= entry'.ver /\ Leaving(r)' /\ Going(r)'
    <3>1. DropMoves(r) /\ doomed[r] \in Nat /\ doomed[r] <= entry.ver /\ Going(r)
      BY <2>3, <2>4 DEF DropInv
    <3>2. \/ doomed'[r] = doomed[r]
          \/ /\ doomed'[r] = entry'.ver /\ entry'.etag = rd'[r].etag
             /\ \/ drop'[r].pc = "read"
                \/ /\ rd'[r].pc \in {"fetch", "refetch"}
                   /\ \E i \in Blocks : lease'[r][i].pc = "stale"
      BY <1>2 DEF Next
    <3>3. CASE doomed'[r] = doomed[r]
      <4>1. doomed'[r] <= entry'.ver
        BY <2>2, <2>4, <3>1, <3>3, SMT DEF EntryMoves
      <4>2. entry'.ver = doomed[r] => entry' = entry
        BY <2>2, <2>4, <3>1, SMT DEF EntryMoves
      <4>3. Going(r)'
        BY <3>1, <3>3, <4>2 DEF Going, DropMoves
      <4> QED  BY <3>1, <3>3, <4>1, <4>3 DEF DropMoves
    <3>4. CASE /\ doomed'[r] = entry'.ver /\ entry'.etag = rd'[r].etag
               /\ \/ drop'[r].pc = "read"
                  \/ /\ rd'[r].pc \in {"fetch", "refetch"}
                     /\ \E i \in Blocks : lease'[r][i].pc = "stale"
      <4>1. doomed'[r] <= entry'.ver
        BY <2>4, <3>4, SMT
      <4>2. Going(r)'
        BY <3>4 DEF Going, Threat
      <4> QED  BY <2>4, <3>1, <3>4, <4>1, <4>2 DEF DropMoves
    <3> QED  BY <3>2, <3>3, <3>4
  <2>6. doomed' = [r \in Readers |-> doomed'[r]]
    BY <1>2 DEF Next
  <2>7. drop' \in [Readers -> DropRecords]
    BY <2>1, DropsTyped
  <2> QED  BY <2>5, <2>6, <2>7 DEF DropInv
<1> QED  BY <1>1, <1>2

-----------------------------------------------------------------------------
(* The initial state, and what finite sets are counted by.                    *)
Finite == INSTANCE FiniteSetTheorems

LEMMA Begins ==
  ASSUME Init
  PROVE  Inv
<1>CountingHolds. Counting
  <2>1. /\ \A S : Cardinality(S) = Finite!Cardinality(S)
        /\ \A S : IsFiniteSet(S) = Finite!IsFiniteSet(S)
    BY DEF Cardinality, Finite!Cardinality, IsFiniteSet, Finite!IsFiniteSet
  <2>2. Finite!IsFiniteSet(Callers \X Blocks)
    BY <2>1, Finite!FS_Product, BlockFetchAssumption
  <2>3. ASSUME NEW S \in SUBSET (Callers \X Blocks)
        PROVE  Finite!IsFiniteSet(S)
    BY <2>2, Finite!FS_Subset
  <2>4. ASSUME NEW S \in SUBSET (Callers \X Blocks)
        PROVE  Finite!Cardinality(S) \in Nat /\ (Finite!Cardinality(S) = 0 <=> S = {})
    BY <2>3, Finite!FS_CardinalityType, Finite!FS_EmptySet
  <2>5. ASSUME NEW S \in SUBSET (Callers \X Blocks), NEW p \in Callers \X Blocks, p \notin S
        PROVE  Finite!Cardinality(S \cup {p}) = Finite!Cardinality(S) + 1
    BY <2>3, <2>5, Finite!FS_AddElement
  <2> QED  BY <2>1, <2>4, <2>5 DEF Counting
<1>1. FetchInit
  BY DEF Init
<1>2. FetchInv
  <2>1. /\ \A f \in Fetches : fetch[f] = FreeFetch
        /\ \A c \in Callers, i \in Blocks : lease[c][i] = NoLease
        /\ \A k \in Keys : inflight[k] = None
    BY <1>1 DEF FetchInit
  <2>2. FreeFetch \in FetchRecords /\ NoLease \in LeaseRecords
    <3>1. 0 \in Nat
      OBVIOUS
    <3> QED  BY <3>1 DEF FreeFetch, NoLease, FetchRecords, LeaseRecords
  <2>3. FetchTypes
    BY <1>1, <2>2 DEF FetchInit, FetchTypes
  <2>4. \A f \in Fetches : Stage(f)
    BY <2>1, Vacant, ZenonT(30) DEF Stage
  <2>5. Listed
    BY <2>1, Vacant, ZenonT(30) DEF Listed
  <2>6. Owned
    BY <1>1, <2>1 DEF Owned, FreeFetch, FetchInit
  <2>7. \A c \in Callers, i \in Blocks : LeaseOK(c, i)
    BY <2>1, Vacant, ZenonT(30) DEF LeaseOK
  <2>8. Counted
    <3>1. \A f \in Fetches : At(f) = {}
      <4>1. \A f \in Fetches : f # None
        BY BlockFetchAssumption
      <4>2. \A p \in Callers \X Blocks : lease[p[1]][p[2]].at = None
        BY <2>1, Vacant
      <4> QED  BY <4>1, <4>2 DEF At
    <3>2. Cardinality({}) = 0
      BY <1>CountingHolds DEF Counting
    <3> QED  BY <2>1, <3>1, <3>2, Vacant DEF Counted
  <2> QED  BY <2>3, <2>4, <2>5, <2>6, <2>7, <2>8, <1>CountingHolds DEF FetchInv
<1>3. PICK sc \in Scenarios :
        /\ upstream = sc.etag
        /\ blocks = {sc.etag} \X sc.cached
        /\ entry = [live |-> sc.live, ver |-> 1, etag |-> sc.etag,
                    complete |-> sc.complete, span |-> sc.span]
        /\ rd = [r \in Readers |-> Idle(sc.work[r])]
        /\ seen = IF sc.complete THEN Blocks ELSE IF sc.live THEN sc.cached ELSE {}
  BY DEF Init
<1>4. /\ sc.etag \in Versions /\ sc.cached \subseteq Blocks
      /\ sc.live \in BOOLEAN /\ sc.complete \in BOOLEAN /\ sc.span \subseteq Blocks
      /\ \A r \in Readers : sc.work[r] \in Jobs \cup {None}
  <2>1. sc \in [work: [Callers -> Jobs \cup {None}],
          faults: 0..MaxFaults, etag: Versions, live: BOOLEAN,
          complete: BOOLEAN, span: SUBSET Blocks, cached: SUBSET Blocks]
    BY BlockServeAssumption
  <2>2. /\ sc.etag \in Versions /\ sc.cached \in SUBSET Blocks
        /\ sc.live \in BOOLEAN /\ sc.complete \in BOOLEAN /\ sc.span \in SUBSET Blocks
        /\ sc.work \in [Callers -> Jobs \cup {None}]
    BY <2>1
  <2> QED  BY <2>2 DEF Readers
<1>5. Outside
  <2>1. entry \in Entries
    BY <1>3, <1>4, Vacant DEF Entries
  <2>2. entry.ver # 0
    BY <1>3, Vacant
  <2>3. blocks \subseteq Keys
    BY <1>3, <1>4 DEF Keys
  <2>4. seen \subseteq Blocks
    BY <1>3, <1>4
  <2> QED  BY <1>3, <1>4, <2>1, <2>2, <2>3, <2>4 DEF Outside
<1>6. ASSUME NEW r \in Readers PROVE ReaderInv(r)
  <2>1. /\ rd[r] \in RecordOf(rd[r])
        /\ rd[r].pc \in {"idle", "done"} /\ rd[r].token = 0
    BY <1>3, <1>4, IdleShape
  <2>2. \A i \in Blocks : Seat(r, i)
    BY <1>1 DEF FetchInit, Seat, NoLease, Readers
  <2>3. Control(r)
    BY <1>5, <2>1, VerTyped, IdleControl DEF Outside
  <2>4. Tracks(r)
    BY <2>1 DEF Tracks, Current
  <2> QED  BY <2>1, <2>2, <2>3, <2>4 DEF ReaderInv
<1>7. rd = [r \in Readers |-> rd[r]]
  BY <1>3
<1> QED  BY <1>2, <1>5, <1>6, <1>7, SMT DEF Inv

LEMMA Invariance == Spec => []Inv
<1>1. Init => Inv
  BY Begins
<1>2. Inv /\ [Next]_vars => Inv'
  BY Keeps
<1> QED  BY <1>1, <1>2, PTL DEF Spec

-----------------------------------------------------------------------------
(* A staged buffer of blockFetchState has one owner, the pool or one fetch,   *)
(* a lease reads the buffer of its own fetch, which holds the block asked     *)
(* for, and no buffer is lost: for any number of requests, blocks, versions   *)
(* and buffers.                                                               *)
THEOREM NoBufferIsShared == Spec => []BuffersOwned
<1>1. ASSUME Inv PROVE BuffersOwned
  <2>1. \A f \in Fetches : fetch[f] \in FetchRecords /\ Stage(f)
    BY <1>1 DEF Inv, FetchInv, FetchTypes
  <2>2. \A f \in Fetches : fetch[f].buf # None =>
          /\ fetch[f].buf \notin pool
          /\ \A g \in Fetches \ {f} : fetch[g].buf # fetch[f].buf
    BY <1>1 DEF Inv, FetchInv, Owned
  <2>3. ASSUME NEW c \in Callers, NEW i \in Blocks, lease[c][i].pc = "held"
        PROVE  /\ lease[c][i].buf = fetch[lease[c][i].at].buf
               /\ content[lease[c][i].buf] = fetch[lease[c][i].at].key
    <3>1. LeaseOK(c, i) /\ lease[c][i] \in LeaseRecords
      BY <1>1 DEF Inv, FetchInv, FetchTypes
    <3>2. PICK f \in Fetches : f = lease[c][i].at
      BY <2>3, <3>1 DEF LeaseOK, Places, LeaseRecords
    <3> QED  BY <2>1, <2>3, <3>1, <3>2 DEF LeaseOK, Stage
  <2>4. pool = Bufs \ {fetch[f].buf : f \in Fetches}
    <3>1. pool \subseteq Bufs /\ Owned
      BY <1>1 DEF Inv, FetchInv, FetchTypes
    <3>2. ASSUME NEW b \in pool PROVE b \notin {fetch[f].buf : f \in Fetches}
      BY <2>2, <3>1, BlockFetchAssumption
    <3>3. ASSUME NEW b \in Bufs, b \notin {fetch[f].buf : f \in Fetches} PROVE b \in pool
      BY <3>1, <3>3 DEF Owned
    <3> QED  BY <3>1, <3>2, <3>3
  <2> QED  BY <2>2, <2>3, <2>4 DEF BuffersOwned
<1> QED  BY <1>1, Invariance, PTL

(* beginBlockFetch joins the fetch that blockFetches lists: a block of one    *)
(* version has at most one fetch under way, and that fetch counts exactly the *)
(* callers that have not released it.                                         *)
THEOREM OneFetchPerBlock == Spec => []OneFlight
<1>1. ASSUME Inv PROVE OneFlight
  <2>1. ASSUME NEW f \in Fetches, NEW g \in Fetches,
               fetch[f].cache = "open", fetch[f].pc # "free",
               fetch[g].cache = "open", fetch[f].key = fetch[g].key
        PROVE  f = g
    <3>1. Stage(f) /\ Stage(g) /\ Listed
      BY <1>1 DEF Inv, FetchInv
    <3>2. fetch[f].pc # "done" /\ fetch[f].key \in Keys
      BY <2>1, <3>1 DEF Stage
    <3>3. fetch[g].pc # "free"
      <4>1. FreeFetch.key = None
        BY DEF FreeFetch
      <4>2. fetch[g].pc = "free" => fetch[g] = FreeFetch
        BY <3>1 DEF Stage
      <4>3. fetch[g].key \in Keys
        BY <2>1, <3>2
      <4> QED  BY <4>1, <4>2, <4>3, BlockFetchAssumption
    <3>4. fetch[g].pc # "done"
      BY <2>1, <3>1 DEF Stage
    <3> QED  BY <2>1, <3>1, <3>2, <3>3, <3>4, SMT DEF Listed
  <2>2. \A f \in Fetches : fetch[f].consumers =
          Cardinality({p \in Callers \X Blocks : lease[p[1]][p[2]].at = f})
    BY <1>1 DEF Inv, FetchInv, Counted, At
  <2> QED  BY <2>1, <2>2 DEF OneFlight
<1> QED  BY <1>1, Invariance, PTL

-----------------------------------------------------------------------------
(* A request that was told its version is stale, by any of the fetches it     *)
(* waited for and whatever errors the others met, or that found too many of   *)
(* its blocks gone, ends with that row removed unless a store call of         *)
(* DeleteIfETag failed or the row was rewritten: for any number of requests,  *)
(* blocks and errors, and with the steps of DeleteIfETag interleaved.         *)
THEOREM StaleEntryGoes == Spec => []StaleInvalidates
<1>1. Init => Inv /\ DropInv
  <2> SUFFICES ASSUME Init PROVE DropInv
    BY Begins
  <2>1. /\ drop = [r \in Readers |-> NoDrop] /\ doomed = [r \in Readers |-> 0]
    BY DEF Init
  <2>2. 0 \in Nat
    BY SMT
  <2>3. NoDrop \in DropRecords /\ NoDrop.pc = "none"
    BY <2>2 DEF NoDrop, DropRecords
  <2>4. entry.ver \in Nat
    BY Begins, VerTyped DEF Inv, Outside
  <2>5. 0 <= entry.ver
    BY <2>4, SMT
  <2> QED  BY <2>1, <2>2, <2>3, <2>5 DEF DropInv, Leaving, Going
<1>2. Inv /\ DropInv /\ [Next]_vars => (Inv /\ DropInv)'
  BY Keeps, DropKeeps
<1>3. ASSUME DropInv PROVE StaleInvalidates
  BY <1>3 DEF DropInv, Going, Threat, StaleInvalidates
<1> QED  BY <1>1, <1>2, <1>3, PTL DEF Spec

(* serveFullObjectFromBlockCache turns a live row complete only if each of    *)
(* its blocks was in the cache since that row was established: its token is   *)
(* the version read before the blocks were made present, and any write of the *)
(* row in between takes another version.                                      *)
THEOREM PromotionIsHonest == Spec => PromotionHonest
<1> DEFINE Honest == entry.live /\ entry'.live /\ entry'.complete /\ ~entry.complete
                       => seen' = Blocks
<1>1. ASSUME Inv, [Next]_vars PROVE [Honest]_vars
  <2> SUFFICES ASSUME Next, entry.live, entry'.live, entry'.complete, ~entry.complete
               PROVE  seen' = Blocks
    BY <1>1
  <2>1. PICK r \in Readers : Promote(r) /\ Current(r)
    BY <1>1, RowSteps
  <2>2. seen = Blocks
    BY <1>1, <2>1 DEF Inv, ReaderInv, Tracks, Promote
  <2>3. SeenMoves
    BY DEF Next, SeenMoves
  <2>4. seen \subseteq seen'
    BY <2>3 DEF SeenMoves
  <2>5. seen' \subseteq Blocks
    BY <1>1, <2>3, SeenTyped DEF Inv
  <2> QED  BY <2>2, <2>4, <2>5
<1> QED  BY <1>1, Invariance, PTL DEF Spec, PromotionHonest
=============================================================================
