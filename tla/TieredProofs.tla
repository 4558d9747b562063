---------------------------- MODULE TieredProofs ----------------------------
(* Proofs about Tiered, for any number of requests, nodes, contents, retries  *)
(* and faults.                                                                *)
EXTENDS Tiered, TLAPS

(* The leaves that need arithmetic say so with SMT.                           *)
USE Zenon

-----------------------------------------------------------------------------
(* The inductive invariant.                                                   *)

(* No row and no read names the body of x.                                    *)
Unnamed(x) == row.ref # x /\ \A q \in Readers : rd[q].ref # x

Stored(x) == x \in bodies \cup evicted

(* What a request of a kind may be doing.                                     *)
Fits(kind, pc) ==
    /\ pc \in {"body", "token"} => kind \in LocalKinds
    /\ pc = "token" => kind = "put"
    /\ pc = "commit" => kind \in LocalKinds \cup MarkerKinds
    /\ pc = "sweep" => kind \in MarkerKinds
    /\ pc = "local" => kind = "delete"
    /\ pc \in {"capture", "forward"} => kind \in MarkerKinds \cup DropKinds
    /\ pc \in {"converge", "again"} => kind \in DropKinds

(* A forwarded request that may touch the key has been applied upstream, as   *)
(* far as its answer tells.                                                   *)
Told(kind, pc, hit) ==
    /\ pc \in {"capture", "forward"} => ~hit
    /\ (pc \in {"sweep", "converge", "again"} \/ (pc = "commit" /\ kind \in MarkerKinds))
         => hit

Phase(c) ==
    /\ Fits(wr[c].kind, wr[c].pc) /\ Told(wr[c].kind, wr[c].pc, wr[c].hit)
    /\ wr[c].pc # "done" => wr[c].answer = "none"

(* The body of a request is staged under a name nobody has read yet.          *)
Staged(c) ==
    /\ wr[c].pc # "done" => Unnamed(c)
    /\ wr[c].pc \in {"idle", "body"} => c \notin bodies
    /\ wr[c].pc \in {"commit", "token"} /\ wr[c].kind \in LocalKinds => Stored(c)

(* The token of a request stands for the state it decided on, or for its      *)
(* expiry.  Only an unconditional PUT takes a token without deciding again.   *)
Decided(c) ==
    /\ wr[c].tok <= row.ver
    /\ wr[c].tok = row.ver /\ row.live /\ wr[c].kind # "put" =>
         row.by = wr[c].seen /\ row.etag = wr[c].old
    /\ wr[c].tok = row.ver /\ wr[c].kind = "ifnone" => ~Servable

(* The row says what the marker of e said that the request by wrote, or that  *)
(* marker has expired.                                                        *)
Speaks(e, by) == row.up /\ row.etag = e /\ row.by = by

(* A task that holds a token read it from a marker of its ETag.               *)
TaskOK(c) ==
    /\ task[c].tok <= row.ver
    /\ task[c].tok = row.ver => Speaks(task[c].etag, task[c].by)

RetierOK(r) ==
    /\ retier[r].tok <= row.ver
    /\ retier[r].tok = row.ver => Speaks(retier[r].etag, retier[r].by)
    /\ retier[r].pc # "none" =>
         retier[r].node \in Nodes /\ retier[r].etag \in ETags /\ Unnamed(r)
    /\ retier[r].pc \in {"guard", "commit"} => Stored(r)

(* A read holds on to the body of the row it was routed by.                   *)
ReadOK(r) ==
    /\ rd[r].tok <= row.ver
    /\ rd[r].pc = "idle" => retier[r].pc = "none" /\ Unnamed(r)
    /\ rd[r].pc \in {"probe", "serve", "orphan"} =>
         /\ Stored(rd[r].ref)
         /\ rd[r].tok = row.ver /\ row.live => ~row.up /\ row.ref = rd[r].ref
    /\ rd[r].pc = "orphan" => rd[r].ref \notin bodies
    /\ rd[r].pc = "done" /\ rd[r].answer = "miss" => r \in gap

Inv ==
    /\ TypeOK
    /\ row.ver # 0
    /\ row.live /\ ~row.up => Stored(row.ref)
    /\ \A c \in Clients : Phase(c) /\ Staged(c) /\ Decided(c) /\ TaskOK(c)
    /\ \A r \in Readers : RetierOK(r) /\ ReadOK(r)

-----------------------------------------------------------------------------
(* What a step may do to the store.  x is the request or re-tier that takes   *)
(* it, Seed when no body of its own is at stake.                              *)

RowMoves ==
    /\ row' \in Rows
    /\ row' = row \/ row' = Expired \/ row'.ver = row.ver + 1

(* The body y is not stored anew, and leaves the store by eviction only.      *)
Same(y) ==
    /\ y \in bodies' => y \in bodies
    /\ y \in bodies \cup evicted => y \in bodies' \cup evicted'

Moves(x) ==
    /\ RowMoves
    /\ row'.ref \in {row.ref, Seed, x}
    /\ row' # row /\ row'.live /\ ~row'.up => row'.ref \in bodies' \cup evicted'
    /\ \A q \in Readers : rd'[q].ref \in {rd[q].ref, row.ref, Seed}
    /\ \A y \in Refs : y # x \/ ~Unnamed(y) => Same(y)
    /\ bodies' \subseteq Refs /\ evicted' \subseteq Refs

LEMMA FaultTyped ==
    ASSUME faults \in 0..MaxFaults, Fault
    PROVE  faults' \in 0..MaxFaults
BY TieredAssumption, SMT DEF Fault

LEMMA Counted ==
    ASSUME Inv, Fault
    PROVE  faults' # faults
<1>1. faults \in Nat  BY TieredAssumption, SMT DEF Inv, TypeOK
<1> QED  BY <1>1, SMT DEF Fault

LEMMA Deletes ==
    ASSUME NEW held, NEW x, DeleteBody(held, x)
    PROVE  bodies' \in {held, held \ {x}} /\ (Fault \/ UNCHANGED faults)
BY DEF DeleteBody

LEMMA NextVersion ==
    ASSUME row \in Rows
    PROVE  /\ row.ver \in Nat /\ row.ver + 1 \in Nat
           /\ row.ver + 1 # row.ver /\ row.ver + 1 # 0
<1>1. row.ver \in Nat  BY DEF Rows
<1> QED  BY <1>1, SMT

(* An absent row, and the row a conditional write or removal leaves.          *)
LEMMA AbsentTyped ==
    ASSUME NEW v \in Nat
    PROVE  /\ AbsentRow(v) \in Rows /\ AbsentRow(v).ver = v
           /\ ~AbsentRow(v).live /\ AbsentRow(v).ref = Seed
BY DEF AbsentRow, Rows, Contents, Refs

LEMMA ExpiredTyped ==
    ASSUME row \in Rows
    PROVE  /\ Expired \in Rows /\ ~Expired.live /\ Expired.ver = row.ver
           /\ Expired.up = row.up /\ Expired.etag = row.etag /\ Expired.by = row.by
           /\ Expired.ref = row.ref
<1>1. PICK x : x = Expired  OBVIOUS
<1>2. x = [row EXCEPT !.live = FALSE]  BY <1>1 DEF Expired
<1>3. /\ x \in Rows /\ ~x.live /\ x.ver = row.ver /\ x.up = row.up /\ x.etag = row.etag
      /\ x.by = row.by /\ x.ref = row.ref
  BY <1>2 DEF Rows
<1> QED  BY <1>1, <1>3

LEMMA PutLocal ==
    ASSUME row \in Rows, NEW t, NEW e \in Contents, NEW ref \in Refs, NEW by \in Refs,
           row' \in {row, Put(t, LocalRow(e, ref, by))}
    PROVE  /\ RowMoves
           /\ \/ row' = row
              \/ /\ t = row.ver /\ row' = Put(t, LocalRow(e, ref, by))
                 /\ row'.live /\ ~row'.up /\ row'.ref = ref /\ row'.etag = e
                 /\ row'.by = by /\ row'.ver = row.ver + 1
<1>1. CASE row' = row  BY <1>1 DEF RowMoves
<1>2. CASE row' # row
  <2>1. t = row.ver /\ row' = [LocalRow(e, ref, by) EXCEPT !.ver = row.ver + 1]
    BY <1>2 DEF Put
  <2>2. PICK v \in Nat : v = row.ver + 1
    BY NextVersion
  <2>3. row' = [live |-> TRUE, ver |-> v, etag |-> e, up |-> FALSE,
                known |-> TRUE, ref |-> ref, by |-> by]
    BY <2>1, <2>2 DEF LocalRow
  <2>4. row' \in Rows /\ row'.ver = v /\ row'.live /\ ~row'.up /\ row'.ref = ref
        /\ row'.etag = e /\ row'.by = by
    BY <2>3 DEF Rows
  <2> QED  BY <1>2, <2>1, <2>2, <2>4 DEF RowMoves
<1> QED  BY <1>1, <1>2

LEMMA PutMarker ==
    ASSUME row \in Rows, NEW t, NEW e \in Contents, NEW known \in BOOLEAN,
           NEW by \in Refs, row' \in {row, Put(t, Marker(e, known, by))}
    PROVE  /\ RowMoves
           /\ \/ row' = row
              \/ /\ t = row.ver /\ row' = Put(t, Marker(e, known, by))
                 /\ row'.live /\ row'.up /\ row'.ref = Seed /\ row'.etag = e
                 /\ row'.by = by /\ row'.ver = row.ver + 1
<1>1. CASE row' = row  BY <1>1 DEF RowMoves
<1>2. CASE row' # row
  <2>1. t = row.ver /\ row' = [Marker(e, known, by) EXCEPT !.ver = row.ver + 1]
    BY <1>2 DEF Put
  <2>2. PICK v \in Nat : v = row.ver + 1
    BY NextVersion
  <2>3. row' = [live |-> TRUE, ver |-> v, etag |-> e, up |-> TRUE,
                known |-> known, ref |-> Seed, by |-> by]
    BY <2>1, <2>2 DEF Marker
  <2>4. row' \in Rows /\ row'.ver = v /\ row'.live /\ row'.up /\ row'.ref = Seed
        /\ row'.etag = e /\ row'.by = by
    BY <2>3 DEF Rows, Refs
  <2> QED  BY <1>2, <2>1, <2>2, <2>4 DEF RowMoves
<1> QED  BY <1>1, <1>2

LEMMA Dropped ==
    ASSUME row \in Rows, NEW t, row' = row \/ row' = Drop(t)
    PROVE  /\ RowMoves
           /\ \/ row' = row
              \/ t = row.ver /\ row.live /\ ~row'.live /\ row'.ref = Seed
<1>1. CASE row' = row  BY <1>1 DEF RowMoves
<1>2. CASE row' # row
  <2>1. t = row.ver /\ row.live /\ row' = AbsentRow(row.ver + 1)
    BY <1>2 DEF Drop
  <2> QED  BY <2>1, NextVersion, AbsentTyped DEF RowMoves
<1> QED  BY <1>1, <1>2

LEMMA DropsIt ==
    ASSUME row \in Rows, NEW t, row' = Drop(t)
    PROVE  ~(row'.live /\ row'.ver = t)
BY NextVersion, AbsentTyped DEF Drop

-----------------------------------------------------------------------------
(* Bystanders: what a step of x leaves alone keeps its part of the invariant. *)

(* A token read earlier matches afterwards only if the row is the same, or    *)
(* has expired.                                                               *)
LEMMA TokenKept ==
    ASSUME row \in Rows, RowMoves, NEW t \in Nat, t <= row.ver
    PROVE  /\ t <= row'.ver /\ (t = row'.ver => t = row.ver /\ (row' = row \/ ~row'.live))
           /\ t = row'.ver => row'.up = row.up /\ row'.etag = row.etag /\ row'.by = row.by
<1>1. PICK v \in Nat : v = row.ver  BY DEF Rows
<1>2. CASE row' = row  BY <1>2
<1>3. CASE row' = Expired
  BY <1>1, <1>3, ExpiredTyped
<1>4. CASE row'.ver = row.ver + 1
  <2>1. t <= v + 1 /\ t # v + 1  BY <1>1, SMT
  <2> QED  BY <1>1, <1>4, <2>1
<1> QED  BY <1>2, <1>3, <1>4 DEF RowMoves

LEMMA VersionKept ==
    ASSUME row \in Rows, RowMoves, row.ver # 0
    PROVE  row'.ver \in Nat /\ row'.ver # 0
<1>1. row'.ver \in Nat  BY DEF RowMoves, Rows
<1>2. CASE row' = row  BY <1>1, <1>2
<1>3. CASE row' = Expired
  BY <1>1, <1>3, ExpiredTyped
<1>4. CASE row'.ver = row.ver + 1
  BY <1>1, <1>4, NextVersion
<1> QED  BY <1>2, <1>3, <1>4 DEF RowMoves

LEMMA UnnamedKept ==
    ASSUME NEW x \in Refs, Moves(x), NEW y \in Clients \cup Readers, y # x, Unnamed(y)
    PROVE  Unnamed(y)'
BY TieredAssumption DEF Moves, Unnamed

LEMMA RowStored ==
    ASSUME Inv, NEW x \in Refs, Moves(x)
    PROVE  /\ row' \in Rows /\ row'.ver # 0
           /\ row'.live /\ ~row'.up => Stored(row.ref)'
<1>1. row \in Rows /\ row.ver # 0 /\ RowMoves  BY DEF Inv, TypeOK, Moves
<1>2. row' \in Rows /\ row'.ver # 0  BY <1>1, VersionKept DEF RowMoves
<1>3. ASSUME row' = row, row.live, ~row.up  PROVE  row'.ref \in bodies' \cup evicted'
  <2>1. row.ref \in Refs /\ row.ref \in bodies \cup evicted
    BY <1>3 DEF Inv, TypeOK, Rows, Stored
  <2>2. Same(row.ref)  BY <2>1 DEF Moves, Unnamed
  <2> QED  BY <1>3, <2>1, <2>2 DEF Same
<1> QED  BY <1>2, <1>3 DEF Moves, Stored

LEMMA ServableKept ==
    ASSUME Inv, NEW x \in Refs, Moves(x), row' = row, Servable'
    PROVE  Servable
<1>1. row.ref \in Refs  BY DEF Inv, TypeOK, Rows
<1>2. Same(row.ref)  BY <1>1 DEF Moves, Unnamed
<1> QED  BY <1>2 DEF Servable, Same

LEMMA TaskKept ==
    ASSUME Inv, RowMoves, NEW c \in Clients, task'[c] = task[c]
    PROVE  TaskOK(c)'
<1>1. row \in Rows /\ TaskOK(c) /\ task[c].tok \in Nat
  BY DEF Inv, TypeOK, TaskRecords
<1>2. PICK t \in Nat : t = task[c].tok  BY <1>1
<1>3. /\ t <= row'.ver /\ (t = row'.ver => t = row.ver)
      /\ t = row'.ver => row'.up = row.up /\ row'.etag = row.etag /\ row'.by = row.by
  BY <1>1, <1>2, TokenKept DEF TaskOK
<1> QED  BY <1>1, <1>2, <1>3 DEF TaskOK, Speaks

LEMMA WriteKept ==
    ASSUME Inv, NEW x \in Refs, Moves(x), NEW c \in Clients, c # x, wr'[c] = wr[c]
    PROVE  Phase(c)' /\ Staged(c)' /\ Decided(c)'
<1>1. row \in Rows /\ wr[c].tok \in Nat /\ c \in Refs
  BY DEF Inv, TypeOK, WriteRecords, Refs
<1>2. Phase(c) /\ Staged(c) /\ Decided(c)  BY DEF Inv
<1>3. PICK w : w = wr[c]  OBVIOUS
<1>4. Phase(c)'  BY <1>2 DEF Phase
<1>5. Staged(c)'
  <2>1. Same(c)  BY <1>1 DEF Moves
  <2>2. Unnamed(c) => Unnamed(c)'  BY UnnamedKept
  <2> QED  BY <1>2, <2>1, <2>2 DEF Staged, Same, Stored
<1>6. Decided(c)'
  <2>1. PICK t \in Nat : t = wr[c].tok  BY <1>1
  <2>2. t <= row'.ver /\ (t = row'.ver => t = row.ver /\ (row' = row \/ ~row'.live))
    BY <1>1, <1>2, <2>1, TokenKept DEF Decided, Moves
  <2>3. t = row'.ver /\ wr[c].kind = "ifnone" => ~Servable'
    <3>1. ~row'.live => ~Servable'  BY DEF Servable
    <3> QED  BY <1>2, <2>1, <2>2, <3>1, ServableKept DEF Decided
  <2> QED  BY <1>2, <2>1, <2>2, <2>3 DEF Decided
<1> QED  BY <1>4, <1>5, <1>6

LEMMA RetierKept ==
    ASSUME Inv, NEW x \in Refs, Moves(x), NEW r \in Readers, r # x,
           retier'[r].pc = retier[r].pc, retier'[r].node = retier[r].node,
           retier'[r].etag = retier[r].etag, retier'[r].tok = retier[r].tok,
           retier'[r].by = retier[r].by
    PROVE  RetierOK(r)'
<1>1. row \in Rows /\ retier[r].tok \in Nat /\ r \in Refs
  BY DEF Inv, TypeOK, RetierRecords, Refs
<1>2. RetierOK(r)  BY DEF Inv
<1>3. PICK t \in Nat : t = retier[r].tok  BY <1>1
<1>4. /\ t <= row'.ver /\ (t = row'.ver => t = row.ver)
      /\ t = row'.ver => row'.up = row.up /\ row'.etag = row.etag /\ row'.by = row.by
  BY <1>1, <1>2, <1>3, TokenKept DEF RetierOK, Moves
<1>5. Same(r)  BY <1>1 DEF Moves
<1>6. Unnamed(r) => Unnamed(r)'  BY UnnamedKept
<1> QED  BY <1>2, <1>3, <1>4, <1>5, <1>6 DEF RetierOK, Same, Stored, Speaks

LEMMA ReadKept ==
    ASSUME Inv, NEW x \in Refs, Moves(x), NEW r \in Readers, rd'[r] = rd[r],
           rd[r].pc = "idle" => r # x /\ retier'[r].pc = retier[r].pc, gap \subseteq gap'
    PROVE  ReadOK(r)'
<1>1. row \in Rows /\ rd[r].tok \in Nat /\ rd[r].ref \in Refs
  BY DEF Inv, TypeOK, ReadRecords
<1>2. ReadOK(r)  BY DEF Inv
<1>3. PICK t \in Nat : t = rd[r].tok  BY <1>1
<1>4. t <= row'.ver /\ (t = row'.ver => t = row.ver /\ (row' = row \/ ~row'.live))
  BY <1>1, <1>2, <1>3, TokenKept DEF ReadOK, Moves
<1>5. Same(rd[r].ref)  BY <1>1 DEF Moves, Unnamed
<1>6. rd[r].pc = "idle" => retier'[r].pc = "none" /\ Unnamed(r)'
  BY <1>2, UnnamedKept DEF ReadOK
<1>7. rd[r].pc \in {"probe", "serve", "orphan"} =>
        /\ Stored(rd[r].ref)'
        /\ t = row'.ver /\ row'.live => ~row'.up /\ row'.ref = rd[r].ref
  BY <1>2, <1>3, <1>4, <1>5 DEF ReadOK, Same, Stored
<1>8. rd[r].pc = "orphan" => rd[r].ref \notin bodies'
  BY <1>2, <1>5 DEF ReadOK, Same
<1>9. rd[r].pc = "done" /\ rd[r].answer = "miss" => r \in gap'
  BY <1>2 DEF ReadOK
<1> QED  BY <1>3, <1>4, <1>6, <1>7, <1>8, <1>9 DEF ReadOK, Stored

-----------------------------------------------------------------------------
(* Steps of a mutating request.                                               *)

Watched ==
    /\ gap \subseteq gap' /\ gap' \subseteq Readers
    /\ bodies' \subseteq Refs => kept' \subseteq Refs

Quietly == Watched /\ (Fault \/ UNCHANGED faults)

(* What its answer and its claim do to the tasks around it.                   *)
Tasks ==
    /\ task' \in [Clients -> TaskRecords]
    /\ \A d \in Clients : task'[d] = task[d] \/ task'[d].tok = 0

Retiers ==
    /\ retier' \in [Readers -> RetierRecords]
    /\ \A r \in Readers :
         /\ retier'[r].pc = retier[r].pc /\ retier'[r].node = retier[r].node
         /\ retier'[r].etag = retier[r].etag /\ retier'[r].tok = retier[r].tok
         /\ retier'[r].by = retier[r].by

(* The record of the request itself.                                          *)
Own(c) ==
    /\ \E w \in WriteRecords : wr' = [wr EXCEPT ![c] = w]
    /\ Phase(c)' /\ Staged(c)' /\ Decided(c)'

LEMMA ClientKeeps ==
    ASSUME Inv, Quietly, Tasks, Retiers, upstream' \in Contents,
           NEW c \in Clients, Moves(c), Own(c), UNCHANGED <<rd, backoff>>
    PROVE  Inv'
<1>1. c \in Refs /\ RowMoves  BY DEF Refs, Moves
<1>2. row' \in Rows /\ row'.ver # 0 /\ (row'.live /\ ~row'.up => Stored(row.ref)')
  BY <1>1, RowStored
<1>3. TypeOK'
  <2>1. faults' \in 0..MaxFaults  BY FaultTyped DEF Inv, TypeOK, Quietly
  <2> QED  BY <1>2, <2>1 DEF Inv, TypeOK, Quietly, Watched, Tasks, Retiers, Moves, Own
<1>4. ASSUME NEW d \in Clients  PROVE  Phase(d)' /\ Staged(d)' /\ Decided(d)' /\ TaskOK(d)'
  <2>1. Phase(d)' /\ Staged(d)' /\ Decided(d)'
    <3>1. CASE d = c  BY <3>1 DEF Own
    <3>2. CASE d # c
      <4>1. wr'[d] = wr[d]  BY <3>2 DEF Inv, TypeOK, Own
      <4> QED  BY <1>1, <3>2, <4>1, WriteKept
    <3> QED  BY <3>1, <3>2
  <2>2. TaskOK(d)'
    <3>1. CASE task'[d] = task[d]  BY <1>1, <3>1, TaskKept
    <3>2. CASE task'[d].tok = 0
      <4>1. row'.ver \in Nat  BY <1>2 DEF Rows
      <4>2. 0 <= row'.ver  BY <4>1, SMT
      <4> QED  BY <1>2, <3>2, <4>2 DEF TaskOK
    <3> QED  BY <3>1, <3>2 DEF Tasks
  <2> QED  BY <2>1, <2>2
<1>5. ASSUME NEW r \in Readers  PROVE  RetierOK(r)' /\ ReadOK(r)'
  <2>1. r # c  BY TieredAssumption
  <2>2. RetierOK(r)'  BY <1>1, <2>1, RetierKept DEF Retiers
  <2>3. ReadOK(r)'  BY <1>1, <2>1, ReadKept DEF Retiers, Quietly, Watched
  <2> QED  BY <2>2, <2>3
<1> QED  BY <1>2, <1>3, <1>4, <1>5 DEF Inv

(* What a request's step does: it leaves the other requests alone, writes the *)
(* key only over the state its decision was about, and answers 200 only with  *)
(* the entry in place, or the version it displaced gone.                      *)
Displacing(c) ==
    /\ wr[c].kind \notin LocalKinds /\ wr[c].pc # "local" /\ wr'[c].answer = "ok"
    /\ wr[c].tok # 0 /\ (wr[c].hit \/ wr'[c].hit) /\ faults' = faults

ByClient(c) ==
    /\ Inv'
    /\ wr'[c] # wr[c] /\ \A d \in Clients \ {c} : wr'[d] = wr[d]
    /\ row' # row =>
         /\ row.live => \/ wr[c].kind = "put" \/ wr[c].pc = "local"
                        \/ /\ row.by = wr[c].seen /\ row.etag = wr[c].old
                           /\ wr[c].kind \in LocalKinds \/ wr[c].hit
         /\ wr[c].kind = "ifnone" => ~Servable
    /\ wr[c].kind \in LocalKinds /\ wr'[c].answer = "ok" =>
         row'.live /\ row'.ref = c /\ Stored(c)'
    /\ Displacing(c) => ~(row'.live /\ row'.ver = wr[c].tok)

LEMMA ClientStep ==
    ASSUME Inv, Quietly, Tasks, Retiers, upstream' \in Contents,
           NEW c \in Clients, Moves(c), Own(c), UNCHANGED <<rd, backoff>>,
           wr'[c].pc # wr[c].pc,
           row' # row => \/ wr[c].pc = "local"
                         \/ /\ wr[c].tok = row.ver
                            /\ wr[c].kind \in LocalKinds \/ wr[c].hit,
           wr[c].kind \in LocalKinds /\ wr'[c].answer = "ok" =>
             row'.live /\ row'.ref = c /\ Stored(c)',
           Displacing(c) => ~(row'.live /\ row'.ver = wr[c].tok)
    PROVE  ByClient(c)
<1>1. Inv'  BY ClientKeeps
<1>2. wr'[c] # wr[c] /\ \A d \in Clients \ {c} : wr'[d] = wr[d]
  BY DEF Own, Inv, TypeOK
<1>3. Phase(c) /\ Decided(c)  BY DEF Inv
<1>4. ASSUME row' # row
      PROVE  /\ row.live => \/ wr[c].kind = "put" \/ wr[c].pc = "local"
                            \/ /\ row.by = wr[c].seen /\ row.etag = wr[c].old
                               /\ wr[c].kind \in LocalKinds \/ wr[c].hit
             /\ wr[c].kind = "ifnone" => ~Servable
  BY <1>3, <1>4 DEF Phase, Fits, Decided
<1> QED  BY <1>1, <1>2, <1>4 DEF ByClient

LEMMA Still ==
    ASSUME Inv, NEW x \in Refs, UNCHANGED <<row, bodies, evicted, rd>>
    PROVE  Moves(x)
BY DEF Inv, TypeOK, Moves, RowMoves, Same

LEMMA RowOnly ==
    ASSUME Inv, NEW x \in Refs, UNCHANGED <<bodies, evicted, rd>>, RowMoves,
           row' = row \/ ((row'.live => row'.up) /\ row'.ref \in {row.ref, Seed})
                      \/ (row'.ref = x /\ Stored(x))
    PROVE  Moves(x)
BY DEF Inv, TypeOK, Moves, Same, Stored

LEMMA IdleTyped ==
    ASSUME NEW pc \in {"capture", "forward", "local", "done"},
           NEW kind \in LocalKinds \cup MarkerKinds \cup DropKinds,
           NEW answer \in {"none", "ok", "refused", "error"}
    PROVE  \E w \in WriteRecords :
             /\ w = Idle(pc, kind, answer)
             /\ w.pc = pc /\ w.kind = kind /\ w.tok = 0 /\ w.answer = answer /\ ~w.hit
<1>1. PICK w : w = Idle(pc, kind, answer)  OBVIOUS
<1>2. w \in WriteRecords /\ w.pc = pc /\ w.kind = kind /\ w.tok = 0 /\ w.answer = answer
      /\ ~w.hit
  BY <1>1, SMT DEF Idle, WriteRecords, Contents, Refs
<1> QED  BY <1>1, <1>2

(* The request answers.                                                       *)
LEMMA Answered ==
    ASSUME Inv, NEW c \in Clients, NEW a \in {"ok", "refused", "error"},
           row' \in Rows, row'.ver # 0, NEW w \in WriteRecords, wr' = [wr EXCEPT ![c] = w],
           w.pc = "done", w.kind = "put", w.tok = 0, w.answer = a
    PROVE  Own(c) /\ wr'[c].pc = "done" /\ wr'[c].answer = a /\ wr'[c].hit = w.hit
<1>1. wr'[c] = w  BY DEF Inv, TypeOK
<1>2. Phase(c)'  BY <1>1 DEF Phase, Fits, Told
<1>3. Staged(c)'  BY <1>1 DEF Staged
<1>4. Decided(c)'
  <2>1. row'.ver \in Nat  BY DEF Rows
  <2>2. 0 <= row'.ver  BY <2>1, SMT
  <2> QED  BY <1>1, <2>2 DEF Decided
<1> QED  BY <1>1, <1>2, <1>3, <1>4 DEF Own

LEMMA Answers ==
    ASSUME Inv, NEW c \in Clients, NEW a \in {"ok", "refused", "error"}, Answer(c, a),
           row' \in Rows, row'.ver # 0
    PROVE  Own(c) /\ wr'[c].pc = "done" /\ wr'[c].answer = a /\ ~wr'[c].hit
<1>1. "put" \in LocalKinds \cup MarkerKinds \cup DropKinds  BY DEF LocalKinds
<1>2. PICK w \in WriteRecords :
        /\ w = Idle("done", "put", a)
        /\ w.pc = "done" /\ w.kind = "put" /\ w.tok = 0 /\ w.answer = a /\ ~w.hit
  BY <1>1, IdleTyped, SMT
<1>3. wr' = [wr EXCEPT ![c] = w]  BY <1>2 DEF Answer
<1> QED  BY <1>2, <1>3, Answered

(* The request goes on under the same decision.                               *)
LEMMA GoesOn ==
    ASSUME Inv, NEW c \in Clients, Moves(c), NEW w \in WriteRecords,
           wr' = [wr EXCEPT ![c] = w], w.kind = wr[c].kind, w.tok = wr[c].tok,
           w.seen = wr[c].seen, w.old = wr[c].old, w.answer = wr[c].answer,
           wr[c].pc # "done", w.pc \notin {"idle", "body", "done"},
           Fits(w.kind, w.pc), Told(w.kind, w.pc, w.hit), row'.ref # c, UNCHANGED rd,
           w.pc \in {"commit", "token"} /\ w.kind \in LocalKinds => Stored(c)'
    PROVE  Own(c) /\ wr'[c] = w
<1>1. wr'[c] = w /\ row \in Rows /\ w.tok \in Nat /\ c \in Refs
  BY DEF Inv, TypeOK, WriteRecords, Refs
<1>2. Phase(c) /\ Staged(c) /\ Decided(c)  BY DEF Inv
<1>3. Phase(c)'  BY <1>1, <1>2 DEF Phase
<1>4. Unnamed(c)'  BY <1>2 DEF Staged, Unnamed
<1>5. Staged(c)'  BY <1>1, <1>4 DEF Staged
<1>6. Decided(c)'
  <2>1. PICK t \in Nat : t = w.tok  BY <1>1
  <2>2. t <= row'.ver /\ (t = row'.ver => t = row.ver /\ (row' = row \/ ~row'.live))
    BY <1>1, <1>2, <2>1, TokenKept DEF Decided, Moves
  <2>3. t = row'.ver /\ w.kind = "ifnone" => ~Servable'
    <3>1. ~row'.live => ~Servable'  BY DEF Servable
    <3> QED  BY <1>1, <1>2, <2>1, <2>2, <3>1, ServableKept DEF Decided
  <2>4. t = row'.ver /\ row'.live /\ w.kind # "put" => row'.by = w.seen /\ row'.etag = w.old
    BY <1>2, <2>1, <2>2 DEF Decided
  <2> QED  BY <1>1, <2>1, <2>2, <2>3, <2>4 DEF Decided
<1> QED  BY <1>1, <1>3, <1>5, <1>6 DEF Own

LEMMA Goes ==
    ASSUME Inv, NEW c \in Clients, Moves(c),
           NEW pc \in {"commit", "token", "forward", "sweep", "converge", "again"},
           Goto(c, pc), wr[c].pc # "done", Fits(wr[c].kind, pc),
           Told(wr[c].kind, pc, wr[c].hit), row'.ref # c, UNCHANGED rd,
           pc \in {"commit", "token"} /\ wr[c].kind \in LocalKinds => Stored(c)'
    PROVE  Own(c) /\ wr'[c].pc = pc /\ wr'[c].answer = wr[c].answer
<1>1. PICK w : w = [wr[c] EXCEPT !.pc = pc]  OBVIOUS
<1>2. wr[c] \in WriteRecords  BY DEF Inv, TypeOK
<1>3. /\ w \in WriteRecords /\ w.pc = pc /\ w.kind = wr[c].kind /\ w.tok = wr[c].tok
      /\ w.seen = wr[c].seen /\ w.old = wr[c].old /\ w.answer = wr[c].answer
      /\ w.hit = wr[c].hit
  BY <1>1, <1>2 DEF WriteRecords
<1>4. wr' = [wr EXCEPT ![c] = w]  BY <1>1 DEF Goto
<1>5. w.pc \notin {"idle", "body", "done"}  BY <1>3
<1> QED  BY <1>3, <1>4, <1>5, GoesOn

(* The request takes a snapshot of the key.                                   *)
LEMMA Takes ==
    ASSUME Inv, NEW c \in Clients, NEW kind \in LocalKinds \cup MarkerKinds \cup DropKinds,
           NEW e \in Contents, NEW n \in Nodes \cup {Nowhere}, NEW pc \in {"body", "forward"},
           Snapshot(c, kind, e, n, pc), wr[c].pc # "done", Fits(kind, pc),
           UNCHANGED <<row, bodies, rd>>, pc = "body" => c \notin bodies,
           kind = "ifnone" => ~Servable
    PROVE  Own(c) /\ wr'[c].pc = pc /\ wr'[c].answer = "none"
<1>1. row \in Rows /\ Staged(c)  BY DEF Inv, TypeOK
<1>2. PICK w : w = [pc |-> pc, kind |-> kind, node |-> n, etag |-> e, tok |-> row.ver,
                    prior |-> PriorOf(row), old |-> row.etag, seen |-> row.by,
                    tries |-> 0, hit |-> FALSE, answer |-> "none"]
  OBVIOUS
<1>3. /\ w.pc = pc /\ w.kind = kind /\ w.tok = row.ver /\ w.old = row.etag
      /\ w.seen = row.by /\ w.answer = "none" /\ ~w.hit
  BY <1>2
<1>4. w \in WriteRecords
  <2>1. PriorOf(row) \in {"absent", "local", "up"}  BY DEF PriorOf
  <2>2. row.ver \in Nat /\ row.etag \in Contents /\ row.by \in Refs  BY <1>1 DEF Rows
  <2>3. 0 \in Nat  BY SMT
  <2> QED  BY <1>2, <2>1, <2>2, <2>3 DEF WriteRecords
<1>5. wr' = [wr EXCEPT ![c] = w] /\ wr'[c] = w
  BY <1>2 DEF Snapshot, Inv, TypeOK
<1>6. Phase(c)'  BY <1>3, <1>5 DEF Phase, Told
<1>7. Staged(c)'  BY <1>1, <1>3, <1>5 DEF Staged, Unnamed
<1>8. Decided(c)'
  <2>1. row.ver \in Nat  BY <1>1 DEF Rows
  <2>2. row.ver <= row.ver  BY <2>1, SMT
  <2> QED  BY <1>3, <1>5, <2>2 DEF Decided, Servable
<1> QED  BY <1>3, <1>4, <1>5, <1>6, <1>7, <1>8 DEF Own

(* The request goes on without a token.                                       *)
LEMMA Opens ==
    ASSUME Inv, NEW c \in Clients, NEW w \in WriteRecords, wr' = [wr EXCEPT ![c] = w],
           w.pc \in {"capture", "forward", "local"}, Fits(w.kind, w.pc), w.tok = 0,
           w.answer = "none", ~w.hit, wr[c].pc # "done", UNCHANGED <<row, rd>>
    PROVE  Own(c) /\ wr'[c] = w
<1>1. wr'[c] = w /\ Staged(c) /\ row.ver # 0 /\ row.ver \in Nat
  BY DEF Inv, TypeOK, Rows
<1>2. Phase(c)'  BY <1>1 DEF Phase, Told
<1>3. Staged(c)'  BY <1>1 DEF Staged, Unnamed
<1>4. Decided(c)'
  <2>1. 0 <= row.ver  BY <1>1, SMT
  <2> QED  BY <1>1, <2>1 DEF Decided
<1> QED  BY <1>1, <1>2, <1>3, <1>4 DEF Own

LEMMA Client ==
    ASSUME Inv, NEW c \in Clients
    PROVE  /\ c \in Refs /\ c # Seed /\ row \in Rows /\ row.ver # 0 /\ upstream \in Contents
           /\ wr[c] \in WriteRecords /\ wr[c].etag \in Contents /\ wr[c].old \in Contents
           /\ Phase(c) /\ Staged(c) /\ Decided(c)
BY TieredAssumption DEF Inv, TypeOK, WriteRecords, Refs

LEMMA Claims ==
    ASSUME Inv, NEW n, claimRetierWrite(n)
    PROVE  Retiers
<1>1. ASSUME NEW r \in Readers
      PROVE  /\ retier'[r] \in RetierRecords
             /\ retier'[r].pc = retier[r].pc /\ retier'[r].node = retier[r].node
             /\ retier'[r].etag = retier[r].etag /\ retier'[r].tok = retier[r].tok
             /\ retier'[r].by = retier[r].by
  <2>1. retier[r] \in RetierRecords  BY DEF Inv, TypeOK
  <2>2. retier'[r] = retier[r] \/ retier'[r] = [retier[r] EXCEPT !.canceled = TRUE]
    BY DEF claimRetierWrite
  <2> QED  BY <2>1, <2>2 DEF RetierRecords
<1> QED  BY <1>1 DEF Retiers, claimRetierWrite

LEMMA Leaves ==
    ASSUME Inv
    PROVE  (UNCHANGED task => Tasks) /\ (UNCHANGED retier => Retiers)
BY DEF Inv, TypeOK, Tasks, Retiers

LEMMA StartsTask ==
    ASSUME Inv, NEW c \in Clients, NEW pc \in {"check", "head"}, NEW e \in Contents,
           task' = [task EXCEPT ![c] = Task(pc, e)]
    PROVE  Tasks
<1>1. PICK t : t = Task(pc, e)  OBVIOUS
<1>2. 0 \in Nat  BY SMT
<1>3. t \in TaskRecords /\ t.tok = 0  BY <1>1, <1>2 DEF Task, TaskRecords, Refs
<1>4. task' = [task EXCEPT ![c] = t]  BY <1>1
<1> QED  BY <1>3, <1>4 DEF Inv, TypeOK, Tasks

(* BeginLocal: the snapshot the precondition is evaluated on, a refusal, or   *)
(* the way upstream.                                                          *)
LEMMA StepBeginLocal ==
    ASSUME Inv, Watched, NEW c \in Clients, NEW kind \in Kinds, NEW e \in Contents,
           NEW n \in Nodes, BeginLocal(c, kind, e, n)
    PROVE  ByClient(c)
<1>1. Quietly  BY DEF BeginLocal, Quietly
<1>2. Moves(c)  BY Client, Still DEF BeginLocal
<1>3. Tasks /\ Retiers /\ upstream' \in Contents
  BY Client, Claims, Leaves DEF BeginLocal
<1>4. wr[c].pc = "idle" /\ kind \in LocalKinds /\ c \notin bodies
  BY Client DEF BeginLocal, Staged
<1>5. UNCHANGED <<row, bodies, rd, backoff>>  BY DEF BeginLocal
<1>6. Own(c) /\ wr'[c].pc # "idle" /\ wr'[c].answer # "ok"
  <2>1. CASE Admits(kind) /\ Snapshot(c, kind, e, n, "body")
    <3>1. kind = "ifnone" => ~Servable  BY <2>1 DEF Admits
    <3>2. Fits(kind, "body")  BY <1>4 DEF Fits
    <3>3. n \in Nodes \cup {Nowhere} /\ kind \in LocalKinds \cup MarkerKinds \cup DropKinds
      BY <1>4
    <3>4. "body" \in {"body", "forward"}  OBVIOUS
    <3>5. Own(c) /\ wr'[c].pc = "body" /\ wr'[c].answer = "none"
      BY <1>4, <1>5, <2>1, <3>1, <3>2, <3>3, <3>4, Takes
    <3> QED  BY <3>5
  <2>2. CASE Answer(c, "refused")
    BY <1>4, <1>5, <2>2, Client, Answers
  <2>3. CASE wr' = [wr EXCEPT ![c] = [Idle("capture", "upstream", "none")
                                       EXCEPT !.node = n, !.etag = e]]
    <3>1. "upstream" \in LocalKinds \cup MarkerKinds \cup DropKinds  BY DEF MarkerKinds
    <3>2. PICK i \in WriteRecords :
            /\ i = Idle("capture", "upstream", "none") /\ i.pc = "capture"
            /\ i.kind = "upstream" /\ i.tok = 0 /\ i.answer = "none" /\ ~i.hit
      BY <3>1, IdleTyped, SMT
    <3>3. PICK w : w = [i EXCEPT !.node = n, !.etag = e]  OBVIOUS
    <3>4. /\ w \in WriteRecords /\ w.pc = "capture" /\ w.kind = "upstream" /\ w.tok = 0
          /\ w.answer = "none" /\ ~w.hit
      BY <3>2, <3>3 DEF WriteRecords
    <3>5. wr' = [wr EXCEPT ![c] = w]  BY <2>3, <3>2, <3>3
    <3>6. Fits(w.kind, w.pc)  BY <3>4 DEF Fits, MarkerKinds
    <3>7. Own(c) /\ wr'[c] = w  BY <1>4, <1>5, <3>4, <3>5, <3>6, Opens
    <3> QED  BY <3>4, <3>7
  <2>4. CASE Answer(c, "error")
    BY <1>4, <1>5, <2>4, Client, Answers
  <2> QED  BY <2>1, <2>2, <2>3, <2>4 DEF BeginLocal, Answer
<1> QED  BY <1>1, <1>2, <1>3, <1>4, <1>5, <1>6, ClientStep DEF Displacing

(* StageBody: the body goes under a name of the request's own.                *)
LEMMA StepStageBody ==
    ASSUME Inv, Watched, NEW c \in Clients, StageBody(c)
    PROVE  ByClient(c)
<1>1. Quietly  BY Deletes DEF StageBody, Quietly
<1>2. Tasks /\ Retiers /\ upstream' \in Contents
  BY Client, Leaves DEF StageBody
<1>3. wr[c].pc = "body" /\ c \notin bodies /\ Unnamed(c) /\ wr[c].kind \in LocalKinds
  BY Client DEF StageBody, Staged, Phase, Fits
<1>4. UNCHANGED <<row, evicted, rd, backoff>> 
      /\ bodies' \in {bodies \cup {c}, (bodies \cup {c}) \ {c}}
  BY Deletes DEF StageBody
<1>5. Moves(c)
  BY <1>3, <1>4, Client DEF Inv, TypeOK, Moves, RowMoves, Same
<1>6. Own(c) /\ wr'[c].pc # "body" /\ wr'[c].answer # "ok"
  <2>1. CASE bodies' = bodies \cup {c} /\ Goto(c, "commit")
    <3>1. Fits(wr[c].kind, "commit") /\ Told(wr[c].kind, "commit", wr[c].hit)
      BY <1>3 DEF Fits, Told, LocalKinds, MarkerKinds
    <3>2. row'.ref # c /\ Stored(c)' /\ wr[c].answer = "none"
      BY <1>3, <1>4, <2>1, Client DEF Unnamed, Stored, Phase
    <3>3. "commit" \in {"commit", "token", "forward", "sweep", "converge", "again"}
      OBVIOUS
    <3> QED  BY <1>3, <1>4, <1>5, <2>1, <3>1, <3>2, <3>3, Goes
  <2>2. CASE Answer(c, "refused")
    BY <1>3, <1>4, <2>2, Client, Answers
  <2> QED  BY <2>1, <2>2 DEF StageBody
<1> QED  BY <1>1, <1>2, <1>3, <1>4, <1>5, <1>6, ClientStep DEF Displacing

(* Commit: applied under the token of the decision, refused, or ambiguous.    *)
LEMMA StepCommit ==
    ASSUME Inv, Watched, NEW c \in Clients, Commit(c)
    PROVE  ByClient(c)
<1>1. Quietly  BY Deletes DEF Commit, Quietly
<1>2. /\ wr[c].pc = "commit" /\ wr[c].kind \in LocalKinds /\ Unnamed(c) /\ Stored(c)
      /\ wr[c].answer = "none"
  BY Client DEF Commit, Staged, Phase
<1>3. Tasks /\ Retiers /\ upstream' \in Contents
  <2>1. deleteUpstreamObjectAsync(c) => Tasks
    <3>1. "check" \in {"check", "head"}  OBVIOUS
    <3> QED  BY <3>1, Client, Leaves, StartsTask DEF deleteUpstreamObjectAsync
  <2> QED  BY <2>1, Client, Leaves DEF Commit
<1>4. UNCHANGED <<evicted, rd, backoff>>  BY DEF Commit
<1>5. CASE wr[c].tok # row.ver /\ UNCHANGED row
    /\ \/ Goto(c, "token") /\ wr[c].kind = "put" /\ UNCHANGED bodies
       \/ Answer(c, "refused") /\ bodies' \in {bodies, bodies \ {c}}
  <2>1. Moves(c)
    BY <1>2, <1>4, <1>5, Client DEF Inv, TypeOK, Moves, RowMoves, Same
  <2>2. Own(c) /\ wr'[c].pc # "commit" /\ wr'[c].answer # "ok"
    <3>1. CASE Goto(c, "token") /\ wr[c].kind = "put" /\ UNCHANGED bodies
      <4>1. Fits(wr[c].kind, "token") /\ Told(wr[c].kind, "token", wr[c].hit)
        BY <3>1 DEF Fits, Told, LocalKinds
      <4>2. row'.ref # c /\ Stored(c)'
        BY <1>2, <1>4, <1>5, <3>1 DEF Unnamed, Stored
      <4>3. "token" \in {"commit", "token", "forward", "sweep", "converge", "again"}
        OBVIOUS
      <4> QED  BY <1>2, <1>4, <2>1, <3>1, <4>1, <4>2, <4>3, Goes
    <3>2. CASE Answer(c, "refused")
      BY <1>5, <3>2, Client, Answers
    <3> QED  BY <1>5, <3>1, <3>2
  <2> QED  BY <1>1, <1>2, <1>3, <1>4, <1>5, <2>1, <2>2, ClientStep DEF Displacing
<1>6. CASE /\ row' \in {row, Put(wr[c].tok, LocalRow(wr[c].etag, c, c))}
           /\ UNCHANGED bodies
           /\ \/ Answer(c, "error")
              \/ Answer(c, "ok") /\ wr[c].tok = row.ver
                   /\ row' = Put(wr[c].tok, LocalRow(wr[c].etag, c, c))
  <2>1. /\ RowMoves
        /\ \/ row' = row
           \/ /\ wr[c].tok = row.ver
              /\ row' = Put(wr[c].tok, LocalRow(wr[c].etag, c, c))
              /\ row'.live /\ ~row'.up /\ row'.ref = c /\ row'.etag = wr[c].etag
    BY <1>6, Client, PutLocal
  <2>2. Moves(c)  BY <1>2, <1>4, <1>6, <2>1, Client, RowOnly
  <2>3. row' \in Rows /\ row'.ver # 0  BY <2>2, Client, RowStored
  <2>4. CASE Answer(c, "error")
    <3>1. Own(c) /\ wr'[c].pc = "done" /\ wr'[c].answer = "error"
      BY <2>3, <2>4, Answers
    <3> QED  BY <1>1, <1>2, <1>3, <1>4, <2>1, <2>2, <3>1, ClientStep DEF Displacing
  <2>5. CASE Answer(c, "ok") /\ wr[c].tok = row.ver
               /\ row' = Put(wr[c].tok, LocalRow(wr[c].etag, c, c))
    <3>1. Own(c) /\ wr'[c].pc = "done" /\ wr'[c].answer = "ok"
      BY <2>3, <2>5, Answers
    <3>2. row' # row
      <4>1. row' = [LocalRow(wr[c].etag, c, c) EXCEPT !.ver = row.ver + 1]
        BY <2>5 DEF Put
      <4>2. row'.ver = row.ver + 1  BY <4>1 DEF LocalRow
      <4> QED  BY <4>2, Client, NextVersion
    <3>3. row'.live /\ row'.ref = c /\ Stored(c)'
      BY <1>2, <1>4, <1>6, <2>1, <3>2 DEF Stored
    <3> QED  BY <1>1, <1>2, <1>3, <1>4, <2>1, <2>2, <3>1, <3>3, ClientStep DEF Displacing
  <2> QED  BY <1>6, <2>4, <2>5
<1> QED  BY <1>5, <1>6, Deletes DEF Commit

(* RetryToken: an unconditional PUT may take a fresh token.                   *)
LEMMA StepRetryToken ==
    ASSUME Inv, Watched, NEW c \in Clients, RetryToken(c)
    PROVE  ByClient(c)
<1>1. Quietly  BY Deletes DEF RetryToken, Quietly
<1>2. /\ wr[c].pc = "token" /\ wr[c].kind = "put" /\ Unnamed(c) /\ Stored(c)
      /\ wr[c].answer = "none"
  BY Client DEF RetryToken, Staged, Phase, Fits, LocalKinds
<1>3. Tasks /\ Retiers /\ upstream' \in Contents
  BY Client, Leaves DEF RetryToken
<1>4. UNCHANGED <<row, evicted, rd, backoff>>  BY DEF RetryToken
<1>5. bodies' \in {bodies, bodies \ {c}}  BY Deletes DEF RetryToken
<1>6. Moves(c)
  BY <1>2, <1>4, <1>5, Client DEF Inv, TypeOK, Moves, RowMoves, Same
<1>7. Own(c) /\ wr'[c].pc # "token" /\ wr'[c].answer # "ok"
  <2>1. CASE UNCHANGED bodies /\ wr' = [wr EXCEPT ![c].pc = "commit", ![c].tok = row.ver,
                                                ![c].tries = @ + 1]
    <3>1. wr[c].tries \in Nat /\ row.ver \in Nat  BY Client DEF WriteRecords, Rows
    <3>2. wr[c].tries + 1 \in Nat /\ row.ver <= row.ver  BY <3>1, SMT
    <3>3. PICK k \in Nat : k = wr[c].tries + 1  BY <3>2
    <3>4. PICK w : w = [wr[c] EXCEPT !.pc = "commit", !.tok = row.ver, !.tries = k]
      OBVIOUS
    <3>5. /\ w \in WriteRecords /\ w.pc = "commit" /\ w.kind = wr[c].kind
          /\ w.tok = row.ver /\ w.answer = wr[c].answer
      BY <3>1, <3>4, Client, ZenonT(30) DEF WriteRecords
    <3>6. wr' = [wr EXCEPT ![c] = w] /\ wr'[c] = w
      BY <2>1, <3>3, <3>4 DEF Inv, TypeOK
    <3>7. Phase(c)'  BY <1>2, <3>5, <3>6 DEF Phase, Fits, Told, LocalKinds,
                                                       MarkerKinds
    <3>8. Staged(c)'  BY <1>2, <1>4, <2>1, <3>5, <3>6 DEF Staged, Unnamed, Stored
    <3>9. Decided(c)'  BY <1>2, <1>4, <3>2, <3>5, <3>6 DEF Decided
    <3> QED  BY <1>2, <3>5, <3>6, <3>7, <3>8, <3>9 DEF Own
  <2>2. CASE Answer(c, "refused")
    BY <1>4, <2>2, Client, Answers
  <2> QED  BY <2>1, <2>2 DEF RetryToken
<1> QED  BY <1>1, <1>2, <1>3, <1>4, <1>6, <1>7, ClientStep DEF Displacing

(* BeginForward: a request that is forwarded reads the key first.             *)
LEMMA StepBeginForward ==
    ASSUME Inv, Watched, NEW c \in Clients, NEW kind \in Kinds, NEW e \in Contents,
           NEW n \in Nodes, BeginForward(c, kind, e, n)
    PROVE  ByClient(c)
<1>1. Quietly  BY DEF BeginForward, Quietly
<1>2. Moves(c)  BY Client, Still DEF BeginForward
<1>3. Tasks /\ Retiers /\ upstream' \in Contents
  BY Client, Claims, Leaves DEF BeginForward
<1>4. wr[c].pc = "idle" /\ kind \in MarkerKinds \cup DropKinds /\ kind # "ifnone"
  BY DEF BeginForward, MarkerKinds, DropKinds
<1>5. UNCHANGED <<row, bodies, rd, backoff>>  BY DEF BeginForward
<1>6. Fits(kind, "forward")  BY <1>4 DEF Fits
<1>7. kind \in LocalKinds \cup MarkerKinds \cup DropKinds  BY <1>4
<1>8. Own(c) /\ wr'[c].pc = "forward" /\ wr'[c].answer = "none"
  <2>1. CASE Snapshot(c, kind, e, n, "forward")
    <3>1. n \in Nodes \cup {Nowhere} /\ "forward" \in {"body", "forward"}  OBVIOUS
    <3> QED  BY <1>4, <1>5, <1>6, <1>7, <2>1, <3>1, Takes
  <2>2. CASE wr' = [wr EXCEPT ![c] =
                      [Idle("forward", kind, "none") EXCEPT !.node = n, !.etag = e]]
    <3>1. PICK i \in WriteRecords :
            /\ i = Idle("forward", kind, "none") /\ i.pc = "forward"
            /\ i.kind = kind /\ i.tok = 0 /\ i.answer = "none" /\ ~i.hit
      BY <1>7, IdleTyped, SMT
    <3>2. PICK w : w = [i EXCEPT !.node = n, !.etag = e]  OBVIOUS
    <3>3. /\ w \in WriteRecords /\ w.pc = "forward" /\ w.kind = kind /\ w.tok = 0
          /\ w.answer = "none" /\ ~w.hit
      BY <3>1, <3>2 DEF WriteRecords
    <3>4. wr' = [wr EXCEPT ![c] = w]  BY <2>2, <3>1, <3>2
    <3>5. Own(c) /\ wr'[c] = w  BY <1>4, <1>5, <1>6, <3>3, <3>4, Opens
    <3> QED  BY <3>3, <3>5
  <2> QED  BY <2>1, <2>2 DEF BeginForward
<1> QED  BY <1>1, <1>2, <1>3, <1>4, <1>5, <1>8, ClientStep DEF Displacing

(* Capture: the read of a request that found it must go upstream.             *)
LEMMA StepCapture ==
    ASSUME Inv, Watched, NEW c \in Clients, Capture(c)
    PROVE  ByClient(c)
<1>1. Quietly  BY DEF Capture, Quietly
<1>2. Moves(c)  BY Client, Still DEF Capture
<1>3. Tasks /\ Retiers /\ upstream' \in Contents
  BY Client, Leaves DEF Capture
<1>4. /\ wr[c].pc = "capture" /\ wr[c].kind \in MarkerKinds \cup DropKinds
      /\ wr[c].answer = "none" /\ Unnamed(c)
  BY Client DEF Capture, Phase, Fits, Staged
<1>5. UNCHANGED <<row, bodies, rd, backoff>>  BY DEF Capture
<1>6. Fits(wr[c].kind, "forward")  BY <1>4 DEF Fits
<1>7. Own(c) /\ wr'[c].pc = "forward" /\ wr'[c].answer = "none"
  <2>1. CASE Snapshot(c, wr[c].kind, wr[c].etag, wr[c].node, "forward")
    <3>1. /\ wr[c].node \in Nodes \cup {Nowhere} /\ wr[c].etag \in Contents
          /\ "forward" \in {"body", "forward"}
      BY Client DEF WriteRecords
    <3>2. /\ wr[c].kind # "ifnone"
          /\ wr[c].kind \in LocalKinds \cup MarkerKinds \cup DropKinds
      BY <1>4 DEF MarkerKinds, DropKinds
    <3> QED  BY <1>4, <1>5, <1>6, <2>1, <3>1, <3>2, Takes
  <2>2. CASE Goto(c, "forward")
    <3>1. "forward" \in {"commit", "token", "forward", "sweep", "converge", "again"}
          /\ row'.ref # c /\ Told(wr[c].kind, "forward", wr[c].hit)
      BY <1>4, <1>5, Client DEF Unnamed, Phase, Told
    <3> QED  BY <1>2, <1>4, <1>5, <1>6, <2>2, <3>1, Goes
  <2> QED  BY <2>1, <2>2 DEF Capture
<1> QED  BY <1>1, <1>2, <1>3, <1>4, <1>5, <1>7, ClientStep DEF Displacing

(* ForwardWrite: upstream answers, or does not.                               *)
LEMMA StepForwardWrite ==
    ASSUME Inv, Watched, NEW c \in Clients, ForwardWrite(c)
    PROVE  ByClient(c)
<1>1. Quietly  BY DEF ForwardWrite, Quietly
<1>2. Moves(c)  BY Client, Still DEF ForwardWrite
<1>3. Tasks /\ Retiers /\ upstream' \in Contents
  BY Client, Leaves DEF ForwardWrite
<1>4. /\ wr[c].pc = "forward" /\ wr[c].kind \in MarkerKinds /\ wr[c].kind \notin LocalKinds
      /\ wr[c].answer = "none" /\ Unnamed(c)
  BY Client DEF ForwardWrite, Phase, Staged, MarkerKinds, LocalKinds
<1>5. UNCHANGED <<row, bodies, rd, backoff>>  BY DEF ForwardWrite
<1>6. row'.ref # c  BY <1>4, <1>5 DEF Unnamed
<1>7. Own(c) /\ wr'[c].pc # "forward"
      /\ (wr'[c].answer = "ok" => Fault)
  <2>1. ASSUME NEW w \in WriteRecords, wr' = [wr EXCEPT ![c] = w], w.kind = wr[c].kind,
               w.tok = wr[c].tok, w.seen = wr[c].seen, w.old = wr[c].old,
               w.answer = wr[c].answer, w.pc \in {"commit", "sweep"}, w.hit
        PROVE  Own(c) /\ wr'[c].pc # "forward" /\ wr'[c].answer = "none"
    <3>1. Fits(w.kind, w.pc) /\ Told(w.kind, w.pc, w.hit)
      BY <1>4, <2>1 DEF Fits, Told
    <3>2. w.pc \notin {"idle", "body", "done"} /\ w.kind \notin LocalKinds
          /\ wr[c].pc # "done"
      BY <1>4, <2>1
    <3>3. Own(c) /\ wr'[c] = w
      BY <1>2, <1>5, <1>6, <2>1, <3>1, <3>2, GoesOn
    <3> QED  BY <1>4, <2>1, <3>3
  <2>2. CASE wr' = [wr EXCEPT ![c].pc = "commit", ![c].hit = TRUE]
    <3>1. PICK w : w = [wr[c] EXCEPT !.pc = "commit", !.hit = TRUE]  OBVIOUS
    <3>2. /\ w \in WriteRecords /\ w.pc = "commit" /\ w.kind = wr[c].kind
          /\ w.tok = wr[c].tok /\ w.seen = wr[c].seen /\ w.old = wr[c].old
          /\ w.answer = wr[c].answer /\ w.hit
      BY <3>1, Client, ZenonT(30) DEF WriteRecords
    <3>3. wr' = [wr EXCEPT ![c] = w]  BY <2>2, <3>1
    <3> QED  BY <2>1, <3>2, <3>3
  <2>3. CASE Answer(c, "error") \/ (Answer(c, "ok") /\ Fault)
    BY <1>5, <2>3, Client, Answers
  <2>4. CASE wr' = [wr EXCEPT ![c].pc = "sweep", ![c].etag = Gone, ![c].hit = TRUE]
    <3>1. PICK w : w = [wr[c] EXCEPT !.pc = "sweep", !.etag = Gone, !.hit = TRUE]
      OBVIOUS
    <3>2. /\ w \in WriteRecords /\ w.pc = "sweep" /\ w.kind = wr[c].kind
          /\ w.tok = wr[c].tok /\ w.seen = wr[c].seen /\ w.old = wr[c].old
          /\ w.answer = wr[c].answer /\ w.hit
      BY <3>1, Client, ZenonT(30) DEF WriteRecords, Contents
    <3>3. wr' = [wr EXCEPT ![c] = w]  BY <2>4, <3>1
    <3> QED  BY <2>1, <3>2, <3>3
  <2> QED  BY <2>2, <2>3, <2>4 DEF ForwardWrite
<1>8. Displacing(c) => ~(row'.live /\ row'.ver = wr[c].tok)
  BY <1>7, Counted DEF Displacing
<1> QED  BY <1>1, <1>2, <1>3, <1>4, <1>5, <1>7, <1>8, ClientStep

LEMMA StampedOwn ==
    ASSUME Inv, NEW c \in Clients, Stamped(c), row' \in Rows, row'.ver # 0
    PROVE  Own(c) /\ wr'[c].pc = "done" /\ wr'[c].answer = "ok" /\ Tasks
<1>1. Own(c) /\ wr'[c].pc = "done" /\ wr'[c].answer = "ok"  BY Answers DEF Stamped
<1>2. Tasks
  <2>1. "head" \in {"check", "head"}  OBVIOUS
  <2> QED  BY <2>1, Client, Leaves, StartsTask DEF Stamped
<1> QED  BY <1>1, <1>2

(* CommitMarker: under the token read before the request was forwarded.       *)
LEMMA StepCommitMarker ==
    ASSUME Inv, Watched, NEW c \in Clients, CommitMarker(c)
    PROVE  ByClient(c)
<1>1. Quietly  BY DEF CommitMarker, Quietly
<1>2. /\ wr[c].pc = "commit" /\ wr[c].kind \in MarkerKinds /\ wr[c].kind \notin LocalKinds
      /\ wr[c].answer = "none" /\ Unnamed(c) /\ wr[c].hit
  BY Client DEF CommitMarker, Phase, Told, Staged, MarkerKinds, LocalKinds
<1>3. /\ UNCHANGED <<upstream, bodies, evicted, rd, retier, backoff>>
      /\ row' \in {row, Put(wr[c].tok, Marker(wr[c].etag, wr[c].kind = "upstream", c))}
      /\ Stamped(c) \/ (Goto(c, "sweep") /\ UNCHANGED task)
  BY DEF CommitMarker
<1>4. /\ RowMoves
      /\ \/ row' = row
         \/ wr[c].tok = row.ver /\ row'.up /\ row'.ref = Seed /\ row'.ver = row.ver + 1
  BY <1>3, Client, PutMarker
<1>5. Moves(c)  BY <1>3, <1>4, Client, RowOnly
<1>6. row' \in Rows /\ row'.ver # 0  BY <1>5, Client, RowStored
<1>7. row'.ref # c  BY <1>2, <1>4, Client DEF Unnamed
<1>8. Own(c) /\ wr'[c].pc # "commit" /\ Tasks
  <2>1. CASE Stamped(c)  BY <1>6, <2>1, StampedOwn
  <2>2. CASE Goto(c, "sweep") /\ UNCHANGED task
    <3>1. "sweep" \in {"commit", "token", "forward", "sweep", "converge", "again"}
          /\ Fits(wr[c].kind, "sweep") /\ Told(wr[c].kind, "sweep", wr[c].hit)
      BY <1>2 DEF Fits, Told
    <3> QED  BY <1>2, <1>3, <1>5, <1>7, <2>2, <3>1, Goes, Leaves
  <2> QED  BY <1>3, <2>1, <2>2
<1>9. Retiers /\ upstream' \in Contents  BY <1>3, Client, Leaves
<1>10. Displacing(c) => ~(row'.live /\ row'.ver = wr[c].tok)
  <2>1. ASSUME faults' = faults, wr[c].tok = row.ver  PROVE  row'.ver # wr[c].tok
    <3>1. row' = Put(wr[c].tok, Marker(wr[c].etag, wr[c].kind = "upstream", c))
      BY <2>1, Counted DEF CommitMarker
    <3>2. row' = [Marker(wr[c].etag, wr[c].kind = "upstream", c) EXCEPT !.ver = row.ver + 1]
      BY <2>1, <3>1 DEF Put
    <3>3. row'.ver = row.ver + 1  BY <3>2 DEF Marker
    <3> QED  BY <2>1, <3>3, Client, NextVersion
  <2>2. ASSUME wr[c].tok # row.ver  PROVE  row'.ver # wr[c].tok
    BY <1>4, <2>2
  <2> QED  BY <2>1, <2>2 DEF Displacing
<1> QED  BY <1>1, <1>2, <1>3, <1>4, <1>5, <1>8, <1>9, <1>10, ClientStep

(* Sweep: the state the request displaced, and no other, is removed.          *)
LEMMA StepSweep ==
    ASSUME Inv, Watched, NEW c \in Clients, Sweep(c)
    PROVE  ByClient(c)
<1>1. Quietly  BY DEF Sweep, Quietly
<1>2. wr[c].pc = "sweep" /\ wr[c].kind \notin LocalKinds /\ wr[c].hit
  BY Client DEF Sweep, Phase, Fits, Told, MarkerKinds, LocalKinds
<1>3. /\ UNCHANGED <<upstream, bodies, evicted, rd, retier, backoff>>
      /\ (row' = row \/ row' = Drop(wr[c].tok)) /\ Stamped(c)
  BY DEF Sweep
<1>4. RowMoves /\ (row' = row \/ (wr[c].tok = row.ver /\ ~row'.live /\ row'.ref = Seed))
  BY <1>3, Client, Dropped
<1>5. Moves(c)  BY <1>3, <1>4, Client, RowOnly
<1>6. row' \in Rows /\ row'.ver # 0  BY <1>5, Client, RowStored
<1>7. Own(c) /\ wr'[c].pc # "sweep" /\ Tasks  BY <1>3, <1>6, StampedOwn
<1>8. Retiers /\ upstream' \in Contents  BY <1>3, Client, Leaves
<1>9. Displacing(c) => ~(row'.live /\ row'.ver = wr[c].tok)
  <2>1. ASSUME faults' = faults  PROVE  row' = Drop(wr[c].tok)
    BY <2>1, Counted DEF Sweep
  <2> QED  BY <2>1, Client, DropsIt DEF Displacing
<1> QED  BY <1>1, <1>2, <1>3, <1>4, <1>5, <1>7, <1>8, <1>9, ClientStep

(* BeginDelete: a validated request for a local object is served here.        *)
LEMMA StepBeginDelete ==
    ASSUME Inv, Watched, NEW c \in Clients, NEW n \in Nodes, BeginDelete(c, n)
    PROVE  ByClient(c)
<1>1. Quietly  BY DEF BeginDelete, Quietly
<1>2. Moves(c)  BY Client, Still DEF BeginDelete
<1>3. Tasks /\ Retiers /\ upstream' \in Contents
  BY Client, Claims, Leaves DEF BeginDelete
<1>4. wr[c].pc = "idle" /\ UNCHANGED <<row, bodies, rd, backoff>>  BY DEF BeginDelete
<1>5. Own(c) /\ wr'[c].pc # "idle" /\ wr'[c].answer # "ok"
  <2>1. ASSUME NEW pc \in {"capture", "local"},
               wr' = [wr EXCEPT ![c] = [Idle(pc, "delete", "none") EXCEPT !.node = n]]
        PROVE  Own(c) /\ wr'[c].pc = pc /\ wr'[c].answer = "none"
    <3>1. "delete" \in LocalKinds \cup MarkerKinds \cup DropKinds  BY DEF DropKinds
    <3>2. PICK i \in WriteRecords :
            /\ i = Idle(pc, "delete", "none") /\ i.pc = pc
            /\ i.kind = "delete" /\ i.tok = 0 /\ i.answer = "none" /\ ~i.hit
      BY <3>1, IdleTyped, SMT
    <3>3. PICK w : w = [i EXCEPT !.node = n]  OBVIOUS
    <3>4. /\ w \in WriteRecords /\ w.pc = pc /\ w.kind = "delete" /\ w.tok = 0
          /\ w.answer = "none" /\ ~w.hit
      BY <3>2, <3>3 DEF WriteRecords
    <3>5. wr' = [wr EXCEPT ![c] = w]  BY <2>1, <3>2, <3>3
    <3>6. Fits(w.kind, w.pc)  BY <3>4 DEF Fits, DropKinds
    <3>7. Own(c) /\ wr'[c] = w  BY <1>4, <3>4, <3>5, <3>6, Opens
    <3> QED  BY <3>4, <3>7
  <2>2. CASE Answer(c, "error")  BY <1>4, <2>2, Client, Answers
  <2> QED  BY <2>1, <2>2 DEF BeginDelete, Answer
<1> QED  BY <1>1, <1>2, <1>3, <1>4, <1>5, ClientStep DEF Displacing

(* DeleteLocal: a client's DELETE removes whatever is live.                   *)
LEMMA StepDeleteLocal ==
    ASSUME Inv, Watched, NEW c \in Clients, DeleteLocal(c)
    PROVE  ByClient(c)
<1>1. Quietly  BY DEF DeleteLocal, Quietly
<1>2. wr[c].pc = "local" /\ wr[c].kind \notin LocalKinds
  BY Client DEF DeleteLocal, Phase, Fits, LocalKinds
<1>3. /\ UNCHANGED <<upstream, bodies, evicted, task, rd, retier, backoff>>
      /\ row' \in {row, AbsentRow(row.ver + 1)}
      /\ Answer(c, "ok") \/ Answer(c, "error")
  BY DEF DeleteLocal
<1>4. RowMoves /\ (row' = row \/ (~row'.live /\ row'.ref = Seed))
  BY <1>3, Client, NextVersion, AbsentTyped DEF RowMoves
<1>5. Moves(c)  BY <1>3, <1>4, Client, RowOnly
<1>6. row' \in Rows /\ row'.ver # 0  BY <1>5, Client, RowStored
<1>7. Own(c) /\ wr'[c].pc # "local"  BY <1>3, <1>6, Answers
<1>8. Tasks /\ Retiers /\ upstream' \in Contents  BY <1>3, Client, Leaves
<1> QED  BY <1>1, <1>2, <1>3, <1>5, <1>7, <1>8, ClientStep DEF Displacing

(* ForwardDrop: a forwarded DELETE, bulk DELETE or COPY.                      *)
LEMMA StepForwardDrop ==
    ASSUME Inv, Watched, NEW c \in Clients, ForwardDrop(c)
    PROVE  ByClient(c)
<1>1. Quietly  BY DEF ForwardDrop, Quietly
<1>2. Moves(c)  BY Client, Still DEF ForwardDrop
<1>3. UNCHANGED <<row, bodies, evicted, task, rd, retier, backoff>>
  BY DEF ForwardDrop
<1>4. Tasks /\ Retiers /\ upstream' \in Contents
  BY <1>3, Client, Leaves DEF ForwardDrop, Contents
<1>5. /\ wr[c].pc = "forward" /\ wr[c].kind \in DropKinds /\ wr[c].kind \notin LocalKinds
      /\ Unnamed(c) /\ wr[c].answer = "none" /\ ~wr[c].hit
  BY Client DEF ForwardDrop, Phase, Told, Staged, DropKinds, LocalKinds, MarkerKinds
<1>6. \/ Answer(c, "error") \/ Answer(c, "ok") \/ Displaces(c, TRUE)
      \/ \E hit \in BOOLEAN : Spares(c, hit) /\ (wr[c].tok = 0 \/ ~hit)
  <2>1. ASSUME NEW parsed \in BOOLEAN, NEW requested \in 1..2, NEW errored \in 0..requested,
               NEW hit, hit = (~parsed \/ errored < requested),
               IF KeyUnchanged(parsed, requested, errored) \/ wr[c].tok = 0
                 THEN Spares(c, hit) ELSE Displaces(c, hit)
        PROVE  \/ Displaces(c, TRUE)
               \/ \E h \in BOOLEAN : Spares(c, h) /\ (wr[c].tok = 0 \/ ~h)
    <3>1. errored < requested <=> ~(requested <= errored)
      <4>1. requested \in Nat /\ errored \in Nat  BY SMT
      <4> QED  BY <4>1, SMT
    <3>2. hit \in BOOLEAN /\ (KeyUnchanged(parsed, requested, errored) <=> ~hit)
      BY <2>1, <3>1 DEF KeyUnchanged
    <3>3. CASE KeyUnchanged(parsed, requested, errored) \/ wr[c].tok = 0
      BY <2>1, <3>2, <3>3
    <3>4. CASE ~(KeyUnchanged(parsed, requested, errored) \/ wr[c].tok = 0)
      <4>1. hit = TRUE  BY <3>2, <3>4
      <4> QED  BY <2>1, <3>4, <4>1
    <3> QED  BY <3>3, <3>4
  <2> QED  BY <2>1 DEF ForwardDrop
<1>7. /\ Own(c) /\ wr'[c].pc # "forward"
      /\ wr'[c].answer = "ok" => wr[c].tok = 0 \/ ~(wr[c].hit \/ wr'[c].hit)
  <2>1. CASE Answer(c, "error") \/ Answer(c, "ok")
    BY <1>3, <1>5, <2>1, Client, Answers
  <2>2. ASSUME NEW hit \in BOOLEAN, Spares(c, hit), wr[c].tok = 0 \/ ~hit
        PROVE  /\ Own(c) /\ wr'[c].pc # "forward"
               /\ wr[c].tok = 0 \/ ~(wr[c].hit \/ wr'[c].hit)
    <3>1. "put" \in LocalKinds \cup MarkerKinds \cup DropKinds  BY DEF LocalKinds
    <3>2. PICK i \in WriteRecords :
            /\ i = Idle("done", "put", "ok")
            /\ i.pc = "done" /\ i.kind = "put" /\ i.tok = 0 /\ i.answer = "ok"
      BY <3>1, IdleTyped, SMT
    <3>3. PICK w : w = [i EXCEPT !.hit = hit]  OBVIOUS
    <3>4. /\ w \in WriteRecords /\ w.pc = "done" /\ w.kind = "put" /\ w.tok = 0
          /\ w.answer = "ok" /\ w.hit = hit
      BY <3>2, <3>3, ZenonT(30) DEF WriteRecords
    <3>5. wr' = [wr EXCEPT ![c] = w]  BY <2>2, <3>2, <3>3 DEF Spares
    <3>6. Own(c) /\ wr'[c].pc = "done" /\ wr'[c].hit = w.hit
      BY <1>3, <3>4, <3>5, Client, Answered
    <3> QED  BY <1>5, <2>2, <3>4, <3>6
  <2>3. CASE Displaces(c, TRUE)
    <3>1. PICK w : w = [wr[c] EXCEPT !.pc = "converge", !.hit = TRUE]  OBVIOUS
    <3>2. /\ w \in WriteRecords /\ w.pc = "converge" /\ w.kind = wr[c].kind
          /\ w.tok = wr[c].tok /\ w.seen = wr[c].seen /\ w.old = wr[c].old
          /\ w.answer = wr[c].answer /\ w.hit
      BY <3>1, Client, ZenonT(30) DEF WriteRecords
    <3>3. wr' = [wr EXCEPT ![c] = w]  BY <2>3, <3>1 DEF Displaces
    <3>4. Fits(w.kind, w.pc) /\ Told(w.kind, w.pc, w.hit)
      BY <1>5, <3>2 DEF Fits, Told
    <3>5. w.pc \notin {"idle", "body", "done"} /\ w.kind \notin LocalKinds
          /\ wr[c].pc # "done" /\ row'.ref # c
      BY <1>3, <1>5, <3>2 DEF Unnamed
    <3>6. Own(c) /\ wr'[c] = w
      BY <1>2, <1>3, <3>2, <3>3, <3>4, <3>5, GoesOn
    <3> QED  BY <1>5, <3>2, <3>6
  <2> QED  BY <1>6, <2>1, <2>2, <2>3
<1>8. Displacing(c) => ~(row'.live /\ row'.ver = wr[c].tok)
  BY <1>7 DEF Displacing
<1> QED  BY <1>1, <1>2, <1>3, <1>4, <1>5, <1>7, <1>8, ClientStep

(* convergeTieredDelete: the state the request displaced, and no other.       *)
LEMMA StepConverge ==
    ASSUME Inv, Watched, NEW c \in Clients, convergeTieredDelete(c)
    PROVE  ByClient(c)
<1>1. Quietly  BY DEF convergeTieredDelete, Quietly
<1>2. /\ wr[c].pc \in {"converge", "again"} /\ wr[c].kind \in DropKinds
      /\ wr[c].kind \notin LocalKinds /\ Unnamed(c) /\ wr[c].hit
  BY Client DEF convergeTieredDelete, Phase, Fits, Told, Staged, DropKinds, LocalKinds
<1>3. /\ UNCHANGED <<upstream, bodies, evicted, task, rd, retier, backoff>>
      /\ (row' = row \/ row' = Drop(wr[c].tok))
      /\ Answer(c, "ok") \/ (wr[c].pc = "converge" /\ Goto(c, "again"))
  BY DEF convergeTieredDelete
<1>4. RowMoves /\ (row' = row \/ (wr[c].tok = row.ver /\ ~row'.live /\ row'.ref = Seed))
  BY <1>3, Client, Dropped
<1>5. Moves(c)  BY <1>3, <1>4, Client, RowOnly
<1>6. row' \in Rows /\ row'.ver # 0  BY <1>5, Client, RowStored
<1>7. Own(c) /\ wr'[c].pc # wr[c].pc
  <2>1. CASE Answer(c, "ok")  BY <1>2, <1>6, <2>1, Answers
  <2>2. CASE wr[c].pc = "converge" /\ Goto(c, "again")
    <3>1. /\ "again" \in {"commit", "token", "forward", "sweep", "converge", "again"}
          /\ Fits(wr[c].kind, "again") /\ Told(wr[c].kind, "again", wr[c].hit)
          /\ row'.ref # c
      BY <1>2, <1>4, Client DEF Fits, Told, Unnamed
    <3> QED  BY <1>2, <1>3, <1>5, <2>2, <3>1, Goes
  <2> QED  BY <1>3, <2>1, <2>2
<1>8. Tasks /\ Retiers /\ upstream' \in Contents  BY <1>3, Client, Leaves
<1>9. Displacing(c) => ~(row'.live /\ row'.ver = wr[c].tok)
  <2>1. ASSUME faults' = faults  PROVE  row' = Drop(wr[c].tok)
    BY <2>1, Counted DEF convergeTieredDelete
  <2> QED  BY <2>1, Client, DropsIt DEF Displacing
<1> QED  BY <1>1, <1>2, <1>3, <1>4, <1>5, <1>7, <1>8, <1>9, ClientStep

-----------------------------------------------------------------------------
(* Steps of a background task.                                                *)

(* What a step behind the requests may make of the key.                       *)
Heals ==
    \/ row' = row \/ row' = Expired
    \/ ~row'.live /\ ~Servable
    \/ /\ row.up
       /\ row'.live => row'.by = row.by /\ (row'.up \/ row'.etag = row.etag)

Behind == Inv' /\ wr' = wr /\ Heals

LEMMA BackgroundKeeps ==
    ASSUME Inv, Quietly, upstream' \in Contents, NEW x \in Refs \ Clients, Moves(x),
           UNCHANGED wr, backoff' \subseteq Nodes \X ETags,
           task' \in [Clients -> TaskRecords], \A c \in Clients : TaskOK(c)',
           rd' \in [Readers -> ReadRecords], \A r \in Readers : ReadOK(r)',
           retier' \in [Readers -> RetierRecords], \A r \in Readers : RetierOK(r)'
    PROVE  Inv'
<1>1. row' \in Rows /\ row'.ver # 0 /\ (row'.live /\ ~row'.up => Stored(row.ref)')
  BY RowStored
<1>2. TypeOK'
  <2>1. faults' \in 0..MaxFaults  BY FaultTyped DEF Inv, TypeOK, Quietly
  <2> QED  BY <1>1, <2>1 DEF Inv, TypeOK, Quietly, Watched, Moves
<1>3. ASSUME NEW c \in Clients  PROVE  Phase(c)' /\ Staged(c)' /\ Decided(c)'
  BY WriteKept
<1> QED  BY <1>1, <1>2, <1>3 DEF Inv

LEMMA SeedStands ==
    Seed \in Refs \ Clients /\ (\A r \in Readers : r # Seed /\ r \in Refs \ Clients)
BY TieredAssumption DEF Refs

(* A task ends, goes on, or takes the token of a marker of its ETag; it       *)
(* changes the key only under that token.                                     *)
LEMMA TaskStep ==
    ASSUME Inv, Quietly, upstream' \in Contents, NEW c \in Clients, NEW t \in TaskRecords,
           task' = [task EXCEPT ![c] = t],
           \/ t.tok = 0
           \/ /\ t.tok = task[c].tok /\ t.etag = task[c].etag /\ t.by = task[c].by
              /\ row' = row
           \/ t.tok = row.ver /\ MarkerFor(t.etag) /\ t.by = row.by /\ row' = row,
           UNCHANGED <<bodies, evicted, wr, rd, retier, backoff>>, RowMoves,
           \/ row' = row
           \/ /\ task[c].tok = row.ver /\ row'.ref = Seed
              /\ row'.live => row'.up /\ row'.by = task[c].by
    PROVE  Behind
<1>1. Moves(Seed)  BY SeedStands, RowOnly
<1>2. row \in Rows /\ row' \in Rows /\ row'.ver # 0 /\ row'.ver \in Nat /\ TaskOK(c)
  BY <1>1, SeedStands, RowStored DEF Inv, TypeOK, Rows
<1>3. task' \in [Clients -> TaskRecords] /\ task'[c] = t
  BY DEF Inv, TypeOK
<1>4. ASSUME NEW d \in Clients  PROVE  TaskOK(d)'
  <2>1. CASE d # c
    <3>1. task'[d] = task[d]  BY <2>1 DEF Inv, TypeOK
    <3> QED  BY <3>1, TaskKept
  <2>2. CASE d = c
    <3>1. 0 <= row'.ver /\ row'.ver <= row'.ver  BY <1>2, SMT
    <3> QED  BY <1>2, <1>3, <2>2, <3>1 DEF TaskOK, MarkerFor, Speaks
  <2> QED  BY <2>1, <2>2
<1>5. ASSUME NEW r \in Readers  PROVE  ReadOK(r)' /\ RetierOK(r)'
  BY <1>1, SeedStands, ReadKept, RetierKept DEF Quietly, Watched
<1>6. /\ rd' \in [Readers -> ReadRecords] /\ retier' \in [Readers -> RetierRecords]
      /\ backoff' \subseteq Nodes \X ETags
  BY DEF Inv, TypeOK
<1>7. Inv'  BY <1>1, <1>3, <1>4, <1>5, <1>6, SeedStands, BackgroundKeeps
<1>8. Heals  BY <1>2 DEF Heals, TaskOK, Speaks
<1> QED  BY <1>7, <1>8 DEF Behind

LEMMA NoTaskTyped == NoTask \in TaskRecords /\ NoTask.tok = 0
BY SMT DEF NoTask, Task, TaskRecords, Contents, Refs

LEMMA RowStays ==
    ASSUME Inv, row' = row
    PROVE  RowMoves
BY DEF Inv, TypeOK, RowMoves

LEMMA TaskEnds ==
    ASSUME Inv, Quietly, upstream' \in Contents, NEW c \in Clients, EndTask(c),
           UNCHANGED <<bodies, evicted, wr, rd, retier, backoff>>, RowMoves,
           \/ row' = row
           \/ /\ task[c].tok = row.ver /\ row'.ref = Seed
              /\ row'.live => row'.up /\ row'.by = task[c].by
    PROVE  Behind
<1>1. PICK t \in TaskRecords : t = NoTask /\ t.tok = 0  BY NoTaskTyped
<1>2. task' = [task EXCEPT ![c] = t]  BY <1>1 DEF EndTask
<1> QED  BY <1>1, <1>2, TaskStep

LEMMA TaskGoes ==
    ASSUME Inv, Quietly, upstream' \in Contents, NEW c \in Clients,
           NEW pc \in {"drop", "reread", "observe"}, task' = [task EXCEPT ![c].pc = pc],
           UNCHANGED <<row, bodies, evicted, wr, rd, retier, backoff>>
    PROVE  Behind
<1>1. task[c] \in TaskRecords  BY DEF Inv, TypeOK
<1>2. PICK t : t = [task[c] EXCEPT !.pc = pc]  OBVIOUS
<1>3. t \in TaskRecords /\ t.tok = task[c].tok /\ t.etag = task[c].etag
      /\ t.by = task[c].by
  BY <1>1, <1>2 DEF TaskRecords
<1>4. task' = [task EXCEPT ![c] = t]  BY <1>2
<1> QED  BY <1>3, <1>4, TaskStep, RowStays

LEMMA TaskTakes ==
    ASSUME Inv, Quietly, upstream' \in Contents, NEW c \in Clients,
           NEW pc \in {"repair", "upgrade"}, MarkerFor(task[c].etag),
           task' = [task EXCEPT ![c].pc = pc, ![c].tok = row.ver, ![c].by = row.by],
           UNCHANGED <<row, bodies, evicted, wr, rd, retier, backoff>>
    PROVE  Behind
<1>1. task[c] \in TaskRecords /\ row.ver \in Nat /\ row.by \in Refs
  BY DEF Inv, TypeOK, Rows
<1>2. PICK t : t = [task[c] EXCEPT !.pc = pc, !.tok = row.ver, !.by = row.by]  OBVIOUS
<1>3. t \in TaskRecords /\ t.tok = row.ver /\ t.etag = task[c].etag /\ t.by = row.by
  BY <1>1, <1>2 DEF TaskRecords
<1>4. task' = [task EXCEPT ![c] = t]  BY <1>2
<1>5. MarkerFor(t.etag)  BY <1>3
<1> QED  BY <1>3, <1>4, <1>5, TaskStep, RowStays

(* The clean-up of a displaced upstream copy, and the upgrade of a marker.    *)
LEMMA StepTask ==
    ASSUME Inv, Watched, NEW c \in Clients, TaskNext(c)
    PROVE  Behind
<1> USE DEF Quietly
<1>1. upstream \in Contents /\ Gone \in Contents /\ row \in Rows /\ task[c].etag \in Contents
      /\ task[c].by \in Refs
  BY DEF Inv, TypeOK, Contents, TaskRecords, Rows
<1>2. ASSUME CleanupCheck(c)  PROVE  Behind
  <2>1. Quietly /\ UNCHANGED <<upstream, row, bodies, evicted, wr, rd, retier, backoff>>
        /\ (EndTask(c) \/ task' = [task EXCEPT ![c].pc = "drop"])
    BY <1>2 DEF CleanupCheck
  <2>2. "drop" \in {"drop", "reread", "observe"}  OBVIOUS
  <2> QED  BY <1>1, <2>1, <2>2, TaskEnds, TaskGoes, RowStays
<1>3. ASSUME CleanupDelete(c)  PROVE  Behind
  <2>1. Quietly /\ UNCHANGED <<row, bodies, evicted, wr, rd, retier, backoff>>
        /\ (EndTask(c) \/ task' = [task EXCEPT ![c].pc = "reread"])
        /\ upstream' \in Contents
    BY <1>1, <1>3 DEF CleanupDelete
  <2>2. "reread" \in {"drop", "reread", "observe"}  OBVIOUS
  <2> QED  BY <2>1, <2>2, TaskEnds, TaskGoes, RowStays
<1>4. ASSUME CleanupReread(c)  PROVE  Behind
  <2>1. Quietly /\ UNCHANGED <<upstream, row, bodies, evicted, wr, rd, retier, backoff>>
        /\ \/ EndTask(c)
           \/ /\ MarkerFor(task[c].etag)
              /\ task' = [task EXCEPT ![c].pc = "repair", ![c].tok = row.ver,
                                      ![c].by = row.by]
    BY <1>4 DEF CleanupReread
  <2>2. "repair" \in {"repair", "upgrade"}  OBVIOUS
  <2> QED  BY <1>1, <2>1, <2>2, TaskEnds, TaskTakes, RowStays
<1>5. ASSUME CleanupRepair(c)  PROVE  Behind
  <2>1. Quietly /\ UNCHANGED <<upstream, bodies, evicted, wr, rd, retier, backoff>>
        /\ EndTask(c) /\ (row' = row \/ row' = Drop(task[c].tok))
    BY <1>5 DEF CleanupRepair
  <2>2. RowMoves /\ (row' = row \/ (task[c].tok = row.ver /\ ~row'.live /\ row'.ref = Seed))
    BY <1>1, <2>1, Dropped
  <2> QED  BY <1>1, <2>1, <2>2, TaskEnds
<1>6. ASSUME UpgradeHead(c)  PROVE  Behind
  <2>1. Quietly /\ UNCHANGED <<upstream, row, bodies, evicted, wr, rd, retier, backoff>>
        /\ (EndTask(c) \/ task' = [task EXCEPT ![c].pc = "observe"])
    BY <1>6 DEF UpgradeHead
  <2>2. "observe" \in {"drop", "reread", "observe"}  OBVIOUS
  <2> QED  BY <1>1, <2>1, <2>2, TaskEnds, TaskGoes, RowStays
<1>7. ASSUME UpgradeObserve(c)  PROVE  Behind
  <2>1. Quietly /\ UNCHANGED <<upstream, row, bodies, evicted, wr, rd, retier, backoff>>
        /\ \/ EndTask(c)
           \/ /\ MarkerFor(task[c].etag)
              /\ task' = [task EXCEPT ![c].pc = "upgrade", ![c].tok = row.ver,
                                      ![c].by = row.by]
    BY <1>7 DEF UpgradeObserve
  <2>2. "upgrade" \in {"repair", "upgrade"}  OBVIOUS
  <2> QED  BY <1>1, <2>1, <2>2, TaskEnds, TaskTakes, RowStays
<1>8. ASSUME UpgradeCommit(c)  PROVE  Behind
  <2>1. Quietly /\ UNCHANGED <<upstream, bodies, evicted, wr, rd, retier, backoff>>
        /\ EndTask(c)
        /\ row' \in {row, Put(task[c].tok, Marker(task[c].etag, TRUE, task[c].by))}
    BY <1>8 DEF UpgradeCommit
  <2>2. /\ RowMoves
        /\ \/ row' = row
           \/ task[c].tok = row.ver /\ row'.up /\ row'.ref = Seed /\ row'.by = task[c].by
    <3>1. PICK t, e, by : t = task[c].tok /\ e = task[c].etag /\ by = task[c].by
      OBVIOUS
    <3>2. row' \in {row, Put(t, Marker(e, TRUE, by))}  BY <2>1, <3>1
    <3>3. e \in Contents /\ by \in Refs /\ TRUE \in BOOLEAN  BY <1>1, <3>1
    <3>4. /\ RowMoves
          /\ \/ row' = row
             \/ t = row.ver /\ row'.up /\ row'.ref = Seed /\ row'.by = by
      BY <1>1, <3>2, <3>3, PutMarker
    <3> QED  BY <3>1, <3>4
  <2> QED  BY <1>1, <2>1, <2>2, TaskEnds
<1> QED  BY <1>2, <1>3, <1>4, <1>5, <1>6, <1>7, <1>8 DEF TaskNext

-----------------------------------------------------------------------------
(* Steps of a read.                                                           *)

LEMMA WatchWatched ==
    ASSUME Inv, Watch
    PROVE  Watched
BY DEF Inv, TypeOK, Watch, Watched

LEMMA ReadStep ==
    ASSUME Inv, Quietly, NEW r \in Readers, NEW q \in ReadRecords,
           rd' = [rd EXCEPT ![r] = q], q.ref \in {rd[r].ref, row.ref, Seed}, ReadOK(r)',
           UNCHANGED <<upstream, bodies, evicted, wr, task, backoff>>, RowMoves,
           row' = row \/ (~row'.live /\ row'.ref = Seed /\ ~Servable),
           NEW s \in RetierRecords, retier' = [retier EXCEPT ![r] = s],
           Moves(Seed) => RetierOK(r)'
    PROVE  Behind
<1>1. /\ rd'[r] = q /\ rd' \in [Readers -> ReadRecords]
      /\ retier' \in [Readers -> RetierRecords]
      /\ task' \in [Clients -> TaskRecords] /\ upstream' \in Contents
      /\ backoff' \subseteq Nodes \X ETags
      /\ \A p \in Readers \ {r} : rd'[p] = rd[p] /\ retier'[p] = retier[p]
  BY DEF Inv, TypeOK
<1>2. Moves(Seed)
  <2>1. \A p \in Readers : rd'[p].ref \in {rd[p].ref, row.ref, Seed}
    BY <1>1
  <2> QED  BY <2>1 DEF Inv, TypeOK, Moves, Same
<1>3. ASSUME NEW p \in Readers  PROVE  ReadOK(p)' /\ RetierOK(p)'
  <2>1. CASE p = r  BY <1>2, <2>1
  <2>2. CASE p # r
    <3>1. rd'[p] = rd[p] /\ retier'[p] = retier[p]  BY <1>1, <2>2
    <3> QED  BY <1>2, <3>1, SeedStands, ReadKept, RetierKept DEF Quietly, Watched
  <2> QED  BY <2>1, <2>2
<1>4. \A c \in Clients : TaskOK(c)'  BY TaskKept
<1>5. Inv'  BY <1>1, <1>2, <1>3, <1>4, SeedStands, BackgroundKeeps
<1> QED  BY <1>5 DEF Behind, Heals

(* The read answers; a miss has had its moment.                               *)
LEMMA Replied ==
    ASSUME Inv, NEW r \in Readers, NEW op \in {"GET", "HEAD"},
           NEW a \in {"hit", "miss", "error"}, NEW q, q = NoRead("done", op, a),
           rd' = [rd EXCEPT ![r] = q], row' \in Rows, a = "miss" => r \in gap'
    PROVE  q \in ReadRecords /\ q.ref = Seed /\ q.pc = "done" /\ ReadOK(r)'
<1>1. q.pc = "done" /\ q.ref = Seed /\ q.tok = 0 /\ q.answer = a  BY DEF NoRead
<1>2. q \in ReadRecords
  <2>1. 0 \in Nat /\ Seed \in Refs  BY SMT DEF Refs
  <2> QED  BY <2>1 DEF NoRead, ReadRecords
<1>3. rd'[r] = q  BY DEF Inv, TypeOK
<1>4. row'.ver \in Nat  BY DEF Rows
<1>5. 0 <= row'.ver  BY <1>4, SMT
<1> QED  BY <1>1, <1>2, <1>3, <1>5 DEF ReadOK

(* The read answers and leaves its re-tier alone.                             *)
LEMMA Replies ==
    ASSUME Inv, Quietly, NEW r \in Readers, NEW op \in {"GET", "HEAD"},
           NEW a \in {"hit", "miss", "error"},
           rd' = [rd EXCEPT ![r] = NoRead("done", op, a)], a = "miss" => r \in gap',
           UNCHANGED <<upstream, bodies, evicted, wr, task, retier, backoff>>, RowMoves,
           row' = row \/ (~row'.live /\ row'.ref = Seed /\ ~Servable)
    PROVE  Behind
<1>1. PICK q : q = NoRead("done", op, a)  OBVIOUS
<1>2. q \in ReadRecords /\ q.ref = Seed /\ ReadOK(r)'
  BY <1>1, Replied DEF RowMoves
<1>3. retier[r] \in RetierRecords /\ retier' = [retier EXCEPT ![r] = retier[r]]
  BY DEF Inv, TypeOK
<1>4. Moves(Seed) => RetierOK(r)'  BY SeedStands, RetierKept
<1> QED  BY <1>1, <1>2, <1>3, <1>4, ReadStep

(* The read goes on with the row it was routed by.                            *)
LEMMA ReadGoes ==
    ASSUME Inv, Quietly, NEW r \in Readers, NEW pc \in {"serve", "orphan"},
           rd' = [rd EXCEPT ![r].pc = pc], rd[r].pc \in {"probe", "serve"},
           pc = "orphan" => rd[r].ref \notin bodies,
           UNCHANGED <<upstream, row, bodies, evicted, wr, task, retier, backoff>>
    PROVE  Behind
<1>1. rd[r] \in ReadRecords /\ ReadOK(r)  BY DEF Inv, TypeOK
<1>2. PICK q : q = [rd[r] EXCEPT !.pc = pc]  OBVIOUS
<1>3. q \in ReadRecords /\ q.pc = pc /\ q.ref = rd[r].ref /\ q.tok = rd[r].tok
  BY <1>1, <1>2 DEF ReadRecords
<1>4. rd' = [rd EXCEPT ![r] = q] /\ rd'[r] = q  BY <1>2 DEF Inv, TypeOK
<1>5. ReadOK(r)'
  BY <1>1, <1>3, <1>4 DEF ReadOK, Stored
<1>6. retier[r] \in RetierRecords /\ retier' = [retier EXCEPT ![r] = retier[r]]
  BY DEF Inv, TypeOK
<1>7. Moves(Seed) => RetierOK(r)'  BY SeedStands, RetierKept
<1> QED  BY <1>3, <1>4, <1>5, <1>6, <1>7, ReadStep, RowStays

LEMMA NoRetierTyped ==
    NoRetier \in RetierRecords /\ NoRetier.pc = "none" /\ NoRetier.tok = 0
<1>1. 0 \in Nat  BY SMT
<1> QED  BY <1>1 DEF NoRetier, RetierRecords, Contents, Refs

(* handleTieredObject: one read of the key routes the request.                *)
LEMMA StepRoute ==
    ASSUME Inv, Watch, NEW r \in Readers, NEW op \in {"GET", "HEAD"}, NEW n \in Nodes,
           handleTieredObject(r, op, n)
    PROVE  Behind
<1>1. Quietly  BY WatchWatched DEF handleTieredObject, Quietly
<1>2. /\ rd[r].pc = "idle" /\ row \in Rows /\ ReadOK(r) /\ Unnamed(r)
      /\ UNCHANGED <<upstream, row, bodies, evicted, wr, task, backoff>>
  BY DEF handleTieredObject, Inv, TypeOK, ReadOK
<1>3. RowMoves  BY <1>2, RowStays
<1>4. CASE UNCHANGED retier /\ rd' = [rd EXCEPT ![r] = NoRead("done", op, "hit")]
  BY <1>1, <1>2, <1>3, <1>4, Replies
<1>5. CASE UNCHANGED retier /\ rd' = [rd EXCEPT ![r] = NoRead("done", op, "error")]
  BY <1>1, <1>2, <1>3, <1>5, Replies
<1>6. CASE UNCHANGED retier /\ ~row.live
             /\ rd' = [rd EXCEPT ![r] = NoRead("done", op, "miss")]
  <2>1. r \in gap'
    <3>1. rd'[r].pc = "done"  BY <1>6 DEF NoRead, Inv, TypeOK
    <3> QED  BY <1>2, <1>6, <3>1 DEF Watch, Servable
  <2> QED  BY <1>1, <1>2, <1>3, <1>6, <2>1, Replies
<1>7. CASE /\ UNCHANGED retier /\ row.live /\ ~row.up
           /\ rd' = [rd EXCEPT ![r] = [pc |-> "probe", op |-> op, ref |-> row.ref,
                                       tok |-> row.ver, answer |-> "none"]]
  <2>1. PICK q : q = [pc |-> "probe", op |-> op, ref |-> row.ref,
                      tok |-> row.ver, answer |-> "none"]
    OBVIOUS
  <2>2. row.ref \in Refs /\ row.ver \in Nat  BY <1>2 DEF Rows
  <2>3. q \in ReadRecords /\ q.pc = "probe" /\ q.ref = row.ref /\ q.tok = row.ver
    BY <2>1, <2>2 DEF ReadRecords
  <2>4. rd' = [rd EXCEPT ![r] = q] /\ rd'[r] = q  BY <1>7, <2>1 DEF Inv, TypeOK
  <2>5. ReadOK(r)'
    <3>1. row.ver <= row.ver  BY <2>2, SMT
    <3>2. Stored(row.ref)  BY <1>7 DEF Inv
    <3> QED  BY <1>2, <1>7, <2>3, <2>4, <3>1, <3>2 DEF ReadOK, Stored
  <2>6. retier[r] \in RetierRecords /\ retier' = [retier EXCEPT ![r] = retier[r]]
    BY <1>7 DEF Inv, TypeOK
  <2>7. Moves(Seed) => RetierOK(r)'  BY <1>7, SeedStands, RetierKept
  <2> QED  BY <1>1, <1>2, <1>3, <2>3, <2>4, <2>5, <2>6, <2>7, ReadStep
<1>8. CASE /\ row.live /\ row.up /\ row.etag \in SmallETags
           /\ rd' = [rd EXCEPT ![r] = NoRead("done", op, "hit")]
           /\ retier' = [retier EXCEPT ![r] =
                [NoRetier EXCEPT !.pc = "trigger", !.node = n, !.tok = row.ver,
                                 !.etag = row.etag, !.by = row.by]]
  <2>1. PICK q : q = NoRead("done", op, "hit")  OBVIOUS
  <2>2. q \in ReadRecords /\ q.ref = Seed /\ ReadOK(r)'
    BY <1>2, <1>8, <2>1, Replied
  <2>3. PICK i \in RetierRecords : i = NoRetier  BY NoRetierTyped
  <2>4. row.ver \in Nat /\ row.etag \in Contents /\ row.by \in Refs  BY <1>2 DEF Rows
  <2>5. PICK s : s = [i EXCEPT !.pc = "trigger", !.node = n, !.tok = row.ver,
                               !.etag = row.etag, !.by = row.by]
    OBVIOUS
  <2>6. /\ s \in RetierRecords /\ s.pc = "trigger" /\ s.node = n /\ s.tok = row.ver
        /\ s.etag = row.etag /\ s.by = row.by
    BY <2>4, <2>5 DEF RetierRecords
  <2>7. retier' = [retier EXCEPT ![r] = s] /\ retier'[r] = s
    BY <1>8, <2>3, <2>5 DEF Inv, TypeOK
  <2>8. RetierOK(r)'
    <3>1. row.ver <= row.ver  BY <2>4, SMT
    <3>2. Unnamed(r)'
      <4>1. rd'[r] = q /\ \A p \in Readers \ {r} : rd'[p] = rd[p]
        BY <1>8, <2>1 DEF Inv, TypeOK
      <4> QED  BY <1>2, <2>2, <4>1, SeedStands DEF Unnamed
    <3>3. row.etag \in ETags  BY <1>8, TieredAssumption
    <3> QED  BY <1>2, <1>8, <2>6, <2>7, <3>1, <3>2, <3>3 DEF RetierOK, Speaks
  <2> QED  BY <1>1, <1>2, <1>3, <1>8, <2>1, <2>2, <2>6, <2>7, <2>8, ReadStep
<1> QED  BY <1>4, <1>5, <1>6, <1>7, <1>8 DEF handleTieredObject

(* A read that finds its body gone misses for a reason.                       *)
LEMMA EvictedUnder ==
    ASSUME Inv, Watch, NEW r \in Readers, rd[r].pc \in {"probe", "orphan"},
           rd[r].ref \notin bodies, rd'[r].pc = "done"
    PROVE  r \in gap'
BY DEF Inv, ReadOK, Stored, Watch

LEMMA StepRead ==
    ASSUME Inv, Watch, NEW r \in Readers, ReaderNext(r)
    PROVE  Behind
<1>1. /\ row \in Rows /\ ReadOK(r) /\ rd[r].op \in {"GET", "HEAD"} /\ Watched
      /\ rd \in [Readers -> ReadRecords]
  <2>1. row \in Rows /\ rd \in [Readers -> ReadRecords] /\ ReadOK(r)  BY DEF Inv, TypeOK
  <2>2. rd[r].op \in {"GET", "HEAD"}  BY <2>1 DEF ReadRecords
  <2> QED  BY <2>1, <2>2, WatchWatched
<1>2. Reply(r, "miss") => rd'[r].pc = "done"
  <2>1. PICK q : q = NoRead("done", rd[r].op, "miss")  OBVIOUS
  <2>2. q.pc = "done"  BY <2>1 DEF NoRead
  <2> QED  BY <1>1, <2>1, <2>2 DEF Reply
<1>3. ASSUME entryServable(r)  PROVE  Behind
  <2>1. /\ Quietly /\ rd[r].pc = "probe"
        /\ UNCHANGED <<upstream, row, bodies, evicted, wr, task, retier, backoff>>
    BY <1>1, <1>3 DEF entryServable, Quietly
  <2>2. CASE rd[r].ref \notin bodies /\ Reply(r, "miss")
    <3>1. r \in gap'  BY <1>2, <2>1, <2>2, EvictedUnder
    <3> QED  BY <1>1, <2>1, <2>2, <3>1, Replies, RowStays DEF Reply
  <2>3. CASE Reply(r, "hit") \/ Reply(r, "error")
    BY <1>1, <2>1, <2>3, Replies, RowStays DEF Reply
  <2>4. CASE rd' = [rd EXCEPT ![r].pc = "serve"]
    <3>1. "serve" \in {"serve", "orphan"} /\ rd[r].pc \in {"probe", "serve"}  BY <2>1
    <3> QED  BY <2>1, <2>4, <3>1, ReadGoes
  <2> QED  BY <1>3, <2>2, <2>3, <2>4 DEF entryServable
<1>4. ASSUME serveFromCache(r)  PROVE  Behind
  <2>1. /\ Quietly /\ rd[r].pc = "serve"
        /\ UNCHANGED <<upstream, row, bodies, evicted, wr, task, retier, backoff>>
    BY <1>1, <1>4 DEF serveFromCache, Quietly
  <2>2. CASE Reply(r, "hit") \/ Reply(r, "error")
    BY <1>1, <2>1, <2>2, Replies, RowStays DEF Reply
  <2>3. CASE rd[r].ref \notin bodies /\ rd' = [rd EXCEPT ![r].pc = "orphan"]
    <3>1. "orphan" \in {"serve", "orphan"} /\ rd[r].pc \in {"probe", "serve"}  BY <2>1
    <3> QED  BY <2>1, <2>3, <3>1, ReadGoes
  <2> QED  BY <1>4, <2>2, <2>3 DEF serveFromCache
<1>5. ASSUME finishServeBodyError(r)  PROVE  Behind
  <2>1. /\ Quietly /\ rd[r].pc = "orphan" /\ Reply(r, "miss")
        /\ UNCHANGED <<upstream, bodies, evicted, wr, task, retier, backoff>>
        /\ row' = row \/ row' = Drop(rd[r].tok)
    BY <1>1, <1>5 DEF finishServeBodyError, Quietly
  <2>2. /\ RowMoves
        /\ \/ row' = row
           \/ rd[r].tok = row.ver /\ row.live /\ ~row'.live /\ row'.ref = Seed
    BY <1>1, <2>1, Dropped
  <2>3. rd[r].tok = row.ver /\ row.live => ~Servable
    BY <1>1, <2>1 DEF ReadOK, Servable
  <2>4. r \in gap'  BY <1>1, <1>2, <2>1, EvictedUnder DEF ReadOK
  <2> QED  BY <1>1, <2>1, <2>2, <2>3, <2>4, Replies DEF Reply
<1> QED  BY <1>3, <1>4, <1>5 DEF ReaderNext

-----------------------------------------------------------------------------
(* Steps of a re-tier.                                                        *)

LEMMA RetierKeeps ==
    ASSUME Inv, Quietly, NEW r \in Readers, retier[r].pc # "none", Moves(r),
           NEW t \in RetierRecords, retier' = [retier EXCEPT ![r] = t], RetierOK(r)',
           UNCHANGED <<upstream, wr, task, rd>>, backoff' \subseteq Nodes \X ETags
    PROVE  Inv' /\ wr' = wr
<1>1. /\ retier' \in [Readers -> RetierRecords] /\ rd' \in [Readers -> ReadRecords]
      /\ task' \in [Clients -> TaskRecords] /\ upstream' \in Contents
      /\ \A p \in Readers \ {r} : retier'[p] = retier[p]
  BY DEF Inv, TypeOK
<1>2. r \in Refs \ Clients  BY SeedStands
<1>3. rd[r].pc # "idle"  BY DEF Inv, ReadOK
<1>4. ASSUME NEW p \in Readers  PROVE  ReadOK(p)' /\ RetierOK(p)'
  <2>1. CASE p = r
    <3>1. ReadOK(p)'  BY <1>2, <1>3, <2>1, ReadKept DEF Quietly, Watched
    <3> QED  BY <2>1, <3>1
  <2>2. CASE p # r
    BY <1>1, <1>2, <2>2, ReadKept, RetierKept DEF Quietly, Watched
  <2> QED  BY <2>1, <2>2
<1>5. \A c \in Clients : TaskOK(c)'  BY TaskKept DEF Moves
<1> QED  BY <1>1, <1>2, <1>4, <1>5, BackgroundKeeps

LEMMA RetierEnds ==
    ASSUME Inv, Quietly, NEW r \in Readers, retier[r].pc # "none", Moves(r), EndRetier(r),
           UNCHANGED <<upstream, wr, task, rd>>, backoff' \subseteq Nodes \X ETags
    PROVE  Inv' /\ wr' = wr
<1>1. PICK t \in RetierRecords : t = NoRetier /\ t.pc = "none" /\ t.tok = 0
  BY NoRetierTyped
<1>2. retier' = [retier EXCEPT ![r] = t] /\ retier'[r] = t
  BY <1>1 DEF EndRetier, Inv, TypeOK
<1>3. row'.ver # 0 /\ row'.ver \in Nat  BY SeedStands, RowStored DEF Rows
<1>4. 0 <= row'.ver  BY <1>3, SMT
<1>5. RetierOK(r)'  BY <1>1, <1>2, <1>3, <1>4 DEF RetierOK
<1> QED  BY <1>2, <1>5, RetierKeeps

LEMMA RetierGoes ==
    ASSUME Inv, Quietly, NEW r \in Readers, retier[r].pc # "none", Moves(r),
           NEW t \in RetierRecords, retier' = [retier EXCEPT ![r] = t],
           t.tok = retier[r].tok, t.etag = retier[r].etag, t.node = retier[r].node,
           t.by = retier[r].by,
           t.pc \in {"guard", "commit"} => Stored(r)',
           UNCHANGED <<upstream, row, wr, task, rd>>, backoff' \subseteq Nodes \X ETags
    PROVE  Behind
<1>1. RetierOK(r) /\ retier'[r] = t  BY DEF Inv, TypeOK
<1>2. RetierOK(r)'  BY <1>1 DEF RetierOK, Unnamed, Speaks
<1> QED  BY <1>2, RetierKeeps DEF Behind, Heals

LEMMA RetierSteps ==
    ASSUME Inv, Quietly, NEW r \in Readers, retier[r].pc # "none", Moves(r),
           NEW pc \in {"verify", "fetch", "body", "guard", "commit"}, RetierStep(r, pc),
           pc \in {"guard", "commit"} => Stored(r)',
           UNCHANGED <<upstream, row, wr, task, rd, backoff>>
    PROVE  Behind
<1>1. retier[r] \in RetierRecords /\ backoff' \subseteq Nodes \X ETags
  BY DEF Inv, TypeOK
<1>2. PICK t : t = [retier[r] EXCEPT !.pc = pc]  OBVIOUS
<1>3. /\ t \in RetierRecords /\ t.tok = retier[r].tok /\ t.etag = retier[r].etag
      /\ t.node = retier[r].node /\ t.by = retier[r].by /\ t.pc = pc
  BY <1>1, <1>2 DEF RetierRecords
<1>4. retier' = [retier EXCEPT ![r] = t]  BY <1>2 DEF RetierStep
<1> QED  BY <1>1, <1>3, <1>4, RetierGoes

LEMMA StepRetier ==
    ASSUME Inv, Watched, NEW r \in Readers, RetierNext(r)
    PROVE  Behind
<1>1. /\ RetierOK(r) /\ row \in Rows /\ retier[r] \in RetierRecords /\ r \in Refs
      /\ backoff \subseteq Nodes \X ETags /\ upstream \in Contents
      /\ retier[r].etag \in Contents /\ retier[r].fresh \in Contents /\ retier[r].by \in Refs
  <2>1. /\ RetierOK(r) /\ row \in Rows /\ retier[r] \in RetierRecords
        /\ backoff \subseteq Nodes \X ETags /\ upstream \in Contents
    BY DEF Inv, TypeOK
  <2>2. retier[r].etag \in Contents  BY <2>1 DEF RetierRecords
  <2>3. retier[r].fresh \in Contents  BY <2>1 DEF RetierRecords
  <2>4. retier[r].by \in Refs  BY <2>1 DEF RetierRecords
  <2> QED  BY <2>1, <2>2, <2>3, <2>4, SeedStands
<1>2. ASSUME retier[r].pc # "none"
      PROVE  /\ backoff \cup {<<retier[r].node, retier[r].etag>>} \subseteq Nodes \X ETags
             /\ Unnamed(r)
  <2>1. retier[r].node \in Nodes /\ retier[r].etag \in ETags /\ Unnamed(r)
    BY <1>1, <1>2 DEF RetierOK
  <2>2. <<retier[r].node, retier[r].etag>> \in Nodes \X ETags  BY <2>1
  <2> QED  BY <1>1, <2>1, <2>2
<1>3. ASSUME maybeRetierOnRead(r)  PROVE  Behind
  <2>1. /\ Quietly /\ retier[r].pc # "none"
        /\ UNCHANGED <<upstream, row, bodies, evicted, wr, task, rd, backoff>>
        /\ RetierStep(r, "verify") \/ EndRetier(r)
    BY <1>3 DEF maybeRetierOnRead, Quietly
  <2>2. Moves(r)  BY <1>1, <2>1, Still
  <2>3. CASE RetierStep(r, "verify")  BY <2>1, <2>2, <2>3, RetierSteps
  <2>4. CASE EndRetier(r)  BY <1>1, <2>1, <2>2, <2>4, RetierEnds DEF Behind, Heals
  <2> QED  BY <2>1, <2>3, <2>4
<1>4. ASSUME RetierVerify(r)  PROVE  Behind
  <2>1. /\ Quietly /\ retier[r].pc # "none"
        /\ UNCHANGED <<upstream, row, bodies, evicted, wr, task, rd, backoff>>
        /\ RetierStep(r, "fetch") \/ EndRetier(r)
    BY <1>4 DEF RetierVerify, RetierFails, Quietly
  <2>2. Moves(r)  BY <1>1, <2>1, Still
  <2>3. CASE RetierStep(r, "fetch")  BY <2>1, <2>2, <2>3, RetierSteps
  <2>4. CASE EndRetier(r)  BY <1>1, <2>1, <2>2, <2>4, RetierEnds DEF Behind, Heals
  <2> QED  BY <2>1, <2>3, <2>4
<1>5. ASSUME RetierFetch(r)  PROVE  Behind
  <2>1. /\ Quietly /\ retier[r].pc # "none"
        /\ UNCHANGED <<upstream, row, bodies, evicted, wr, task, rd>>
    BY <1>5 DEF RetierFetch, RetierFails, Quietly
  <2>2. Moves(r)  BY <1>1, <2>1, Still
  <2>3. CASE RetierStep(r, "body") /\ UNCHANGED backoff
    BY <2>1, <2>2, <2>3, RetierSteps
  <2>4. CASE EndRetier(r) /\ UNCHANGED backoff
    BY <1>1, <2>1, <2>2, <2>4, RetierEnds DEF Behind, Heals
  <2>5. CASE /\ retier' = [retier EXCEPT ![r].fresh = upstream,
                     ![r].pc = IF upstream = Gone THEN "vanished" ELSE "replaced"]
             /\ backoff' = backoff \cup {<<retier[r].node, retier[r].etag>>}
    <3>1. PICK pc \in {"vanished", "replaced"} :
            pc = IF upstream = Gone THEN "vanished" ELSE "replaced"
      OBVIOUS
    <3>2. PICK t : t = [retier[r] EXCEPT !.fresh = upstream, !.pc = pc]  OBVIOUS
    <3>3. /\ t \in RetierRecords /\ t.tok = retier[r].tok /\ t.etag = retier[r].etag
          /\ t.node = retier[r].node /\ t.by = retier[r].by /\ t.pc = pc
      BY <1>1, <3>2 DEF RetierRecords
    <3>4. retier' = [retier EXCEPT ![r] = t]  BY <2>5, <3>1, <3>2
    <3>5. t.pc \notin {"guard", "commit"} /\ backoff' \subseteq Nodes \X ETags
      BY <1>2, <2>1, <2>5, <3>3
    <3> QED  BY <2>1, <2>2, <3>3, <3>4, <3>5, RetierGoes
  <2> QED  BY <1>5, <2>3, <2>4, <2>5 DEF RetierFetch
<1>6. ASSUME RetierConverge(r)  PROVE  Behind
  <2>1. /\ Quietly /\ retier[r].pc # "none" /\ EndRetier(r)
        /\ UNCHANGED <<upstream, bodies, evicted, wr, task, rd, backoff>>
    BY <1>6 DEF RetierConverge, RetierFails, Quietly
  <2>2. \/ row' = row \/ row' = Drop(retier[r].tok)
        \/ \E known \in BOOLEAN :
             row' \in {row, Put(retier[r].tok, Marker(retier[r].fresh, known, retier[r].by))}
    BY <1>6 DEF RetierConverge
  <2>3. /\ RowMoves
        /\ \/ row' = row
           \/ /\ retier[r].tok = row.ver /\ row'.ref = Seed
              /\ row'.live => row'.up /\ row'.by = retier[r].by
    <3>1. PICK t, e, by : t = retier[r].tok /\ e = retier[r].fresh /\ by = retier[r].by
      OBVIOUS
    <3>2. CASE row' = row \/ row' = Drop(t)
      BY <1>1, <3>1, <3>2, Dropped
    <3>3. ASSUME NEW known \in BOOLEAN, row' \in {row, Put(t, Marker(e, known, by))}
          PROVE  /\ RowMoves
                 /\ \/ row' = row
                    \/ t = row.ver /\ row'.up /\ row'.ref = Seed /\ row'.by = by
      <4>1. e \in Contents /\ by \in Refs /\ row \in Rows  BY <1>1, <3>1
      <4> QED  BY <3>3, <4>1, PutMarker, SMT
    <3> QED  BY <2>2, <3>1, <3>2, <3>3
  <2>4. Moves(r)  BY <1>1, <2>1, <2>3, RowOnly
  <2>5. Inv' /\ wr' = wr  BY <1>1, <2>1, <2>4, RetierEnds
  <2> QED  BY <1>1, <2>3, <2>5 DEF Behind, Heals, RetierOK, Speaks
<1>7. ASSUME RetierBody(r)  PROVE  Behind
  <2>1. /\ Quietly /\ retier[r].pc # "none" /\ Unnamed(r)
        /\ UNCHANGED <<upstream, row, evicted, wr, task, rd>>
    BY <1>2, <1>7, Deletes DEF RetierBody, Quietly
  <2>2. CASE bodies' = bodies \cup {r} /\ RetierStep(r, "guard") /\ UNCHANGED backoff
    <3>1. Moves(r)
      BY <1>1, <2>1, <2>2 DEF Inv, TypeOK, Moves, RowMoves, Same
    <3>2. Stored(r)'  BY <2>2 DEF Stored
    <3> QED  BY <2>1, <2>2, <3>1, <3>2, RetierSteps
  <2>3. CASE /\ EndRetier(r) /\ bodies' \in {bodies \cup {r}, (bodies \cup {r}) \ {r}}
             /\ backoff' \in {backoff, backoff \cup {<<retier[r].node, retier[r].etag>>}}
    <3>1. Moves(r)
      BY <1>1, <2>1, <2>3 DEF Inv, TypeOK, Moves, RowMoves, Same
    <3>2. backoff' \subseteq Nodes \X ETags  BY <1>1, <1>2, <2>1, <2>3
    <3> QED  BY <2>1, <2>3, <3>1, <3>2, RetierEnds DEF Behind, Heals
  <2> QED  BY <1>7, <2>2, <2>3, Deletes DEF RetierBody
<1>8. ASSUME RetierGuard(r)  PROVE  Behind
  <2>1. /\ Quietly /\ retier[r].pc # "none" /\ Unnamed(r) /\ Stored(r)
        /\ UNCHANGED <<upstream, row, evicted, wr, task, rd, backoff>>
    BY <1>1, <1>2, <1>8, Deletes DEF RetierGuard, Quietly, RetierOK
  <2>2. CASE RetierStep(r, "commit") /\ UNCHANGED bodies
    <3>1. Moves(r)  BY <1>1, <2>1, <2>2, Still
    <3>2. Stored(r)'  BY <2>1, <2>2 DEF Stored
    <3> QED  BY <2>1, <2>2, <3>1, <3>2, RetierSteps
  <2>3. CASE EndRetier(r) /\ bodies' \in {bodies, bodies \ {r}}
    <3>1. Moves(r)
      BY <1>1, <2>1, <2>3 DEF Inv, TypeOK, Moves, RowMoves, Same
    <3> QED  BY <1>1, <2>1, <2>3, <3>1, RetierEnds DEF Behind, Heals
  <2> QED  BY <1>8, <2>2, <2>3, Deletes DEF RetierGuard
<1>9. ASSUME RetierCommit(r)  PROVE  Behind
  <2>1. /\ Quietly /\ retier[r].pc # "none" /\ Unnamed(r) /\ Stored(r) /\ EndRetier(r)
        /\ UNCHANGED <<upstream, evicted, wr, task, rd, backoff>>
        /\ row' \in {row, Put(retier[r].tok, LocalRow(retier[r].etag, r, retier[r].by))}
    BY <1>1, <1>2, <1>9, Deletes DEF RetierCommit, RetierFails, Quietly, RetierOK
  <2>2. /\ RowMoves
        /\ \/ row' = row
           \/ /\ retier[r].tok = row.ver /\ row'.live /\ ~row'.up /\ row'.ref = r
              /\ row'.etag = retier[r].etag /\ row'.by = retier[r].by
    <3>1. PICK t, e, by : t = retier[r].tok /\ e = retier[r].etag /\ by = retier[r].by
      OBVIOUS
    <3>2. row' \in {row, Put(t, LocalRow(e, r, by))}  BY <2>1, <3>1
    <3>3. e \in Contents /\ by \in Refs /\ r \in Refs  BY <1>1, <3>1
    <3>4. /\ RowMoves
          /\ \/ row' = row
             \/ /\ t = row.ver /\ row'.live /\ ~row'.up /\ row'.ref = r
                /\ row'.etag = e /\ row'.by = by
      BY <1>1, <3>2, <3>3, PutLocal
    <3> QED  BY <3>1, <3>4
  <2>3. Moves(r)
    <3>1. CASE UNCHANGED bodies  BY <1>1, <2>1, <2>2, <3>1, RowOnly
    <3>2. CASE bodies' \in {bodies, bodies \ {r}} /\ retier[r].tok # row.ver
      BY <1>1, <2>1, <2>2, <3>2 DEF Inv, TypeOK, Moves, RowMoves, Same
    <3> QED  BY <1>9, <3>1, <3>2, Deletes DEF RetierCommit
  <2>4. Inv' /\ wr' = wr  BY <1>1, <2>1, <2>3, RetierEnds
  <2> QED  BY <1>1, <2>2, <2>4 DEF Behind, Heals, RetierOK, Speaks
<1> QED  BY <1>3, <1>4, <1>5, <1>6, <1>7, <1>8, <1>9 DEF RetierNext

-----------------------------------------------------------------------------
(* Every step, and the theorems.                                              *)

(* The store's own steps.                                                     *)
LEMMA StepStore ==
    ASSUME Inv, Watched,
           \/ ExpireMeta
           \/ \E ref \in Refs : EvictBody(ref)
           \/ UNCHANGED <<upstream, row, bodies, evicted, wr, task, rd, retier,
                          backoff, faults>>
    PROVE  Behind
<1>1. Quietly /\ UNCHANGED <<upstream, wr, task, rd, retier, backoff>>
  BY DEF ExpireMeta, EvictBody, Quietly
<1>2. /\ RowMoves
      /\ row' = row \/ (row' = Expired /\ ~row'.live /\ row'.ref = row.ref)
  <2>1. row \in Rows  BY DEF Inv, TypeOK
  <2> QED  BY <2>1, ExpiredTyped, RowStays DEF ExpireMeta, EvictBody, RowMoves
<1>3. Moves(Seed)
  <2>1. CASE UNCHANGED <<bodies, evicted>>  BY <1>1, <1>2, <2>1, SeedStands, RowOnly
  <2>2. ASSUME NEW ref \in Refs, EvictBody(ref)  PROVE  Moves(Seed)
    <3>1. /\ row' = row /\ bodies' = bodies \ {ref} /\ evicted' = evicted \cup {ref}
      BY <2>2 DEF EvictBody
    <3>2. \A y \in Refs : Same(y)  BY <3>1 DEF Same
    <3> QED  BY <1>1, <1>2, <3>1, <3>2 DEF Inv, TypeOK, Moves
  <2> QED  BY <2>1, <2>2 DEF ExpireMeta
<1>4. ASSUME NEW r \in Readers  PROVE  ReadOK(r)' /\ RetierOK(r)'
  BY <1>1, <1>3, SeedStands, ReadKept, RetierKept DEF Quietly, Watched
<1>5. \A c \in Clients : TaskOK(c)'  BY <1>1, <1>2, TaskKept
<1>6. /\ upstream' \in Contents /\ backoff' \subseteq Nodes \X ETags
      /\ task' \in [Clients -> TaskRecords] /\ rd' \in [Readers -> ReadRecords]
      /\ retier' \in [Readers -> RetierRecords]
  BY <1>1 DEF Inv, TypeOK
<1>7. Inv'  BY <1>1, <1>3, <1>4, <1>5, <1>6, SeedStands, BackgroundKeeps
<1> QED  BY <1>1, <1>2, <1>7 DEF Behind, Heals

LEMMA StepOfClient ==
    ASSUME Inv, Watched, NEW c \in Clients, ClientNext(c)
    PROVE  ByClient(c)
BY StepStageBody, StepCommit, StepRetryToken, StepCapture, StepForwardWrite,
   StepCommitMarker, StepSweep, StepDeleteLocal, StepForwardDrop, StepConverge
   DEF ClientNext

(* A step is one request's, or happens behind the requests.                   *)
LEMMA EveryStep ==
    ASSUME Inv, [Next]_vars
    PROVE  Behind \/ \E c \in Clients : ByClient(c)
<1>1. CASE UNCHANGED vars
  BY <1>1, StepStore DEF vars, Watched, Inv, TypeOK
<1>2. CASE Next
  <2>1. Watch /\ Watched /\ Step  BY <1>2, WatchWatched DEF Next
  <2>2. ASSUME NEW c \in Clients, NEW n \in Nodes, NEW e \in Contents, NEW kind \in Kinds,
               BeginLocal(c, kind, e, n) \/ BeginForward(c, kind, e, n)
        PROVE  ByClient(c)
    BY <2>1, <2>2, StepBeginLocal, StepBeginForward
  <2>3. ASSUME NEW c \in Clients, NEW n \in Nodes, BeginDelete(c, n)  PROVE  ByClient(c)
    BY <2>1, <2>3, StepBeginDelete
  <2>4. ASSUME NEW c \in Clients, ClientNext(c)  PROVE  ByClient(c)
    BY <2>1, <2>4, StepOfClient
  <2>5. ASSUME NEW r \in Readers, NEW op \in {"GET", "HEAD"}, NEW n \in Nodes,
               handleTieredObject(r, op, n)
        PROVE  Behind
    BY <2>1, <2>5, StepRoute
  <2>6. ASSUME NEW c \in Clients, TaskNext(c)  PROVE  Behind
    BY <2>1, <2>6, StepTask
  <2>7. ASSUME NEW r \in Readers, ReaderNext(r) \/ RetierNext(r)  PROVE  Behind
    BY <2>1, <2>7, StepRead, StepRetier
  <2> QED  BY <2>1, <2>2, <2>3, <2>4, <2>5, <2>6, <2>7, StepStore DEF Step
<1> QED  BY <1>1, <1>2

-----------------------------------------------------------------------------
(* Bodies.                                                                    *)

Reclaimable == \A ref \in bodies : InUse(ref) \/ ref \in kept

(* A step accounts for every body it leaves in the store.                     *)
Accounted(ref) == InUse(ref)' \/ ref \in kept' \/ (ref \in bodies /\ ~InUse(ref))

Accounts == \A ref \in bodies' : Accounted(ref)

LEMMA ReclaimableKept ==
    ASSUME Reclaimable, Accounts, kept \subseteq kept'
    PROVE  Reclaimable'
BY DEF Reclaimable, Accounts, Accounted

(* Whoever ends with a failed call leaves its body to the store.              *)
LEMMA FailureAccounts ==
    ASSUME Inv, Watch, Fault, NEW ref \in bodies', InUse(ref)
    PROVE  Accounted(ref)
BY Counted DEF Watch, LeftBehind, Accounted

LEMMA NamedAccounts ==
    ASSUME Watch, NEW ref \in bodies', row'.live, ~row'.up, row'.ref = ref
    PROVE  Accounted(ref)
BY DEF Watch, Accounted

(* Only the body of the request or re-tier that takes the step is at stake.   *)
LEMMA OthersAccount ==
    ASSUME NEW x \in Clients \cup Readers, bodies' \subseteq bodies \cup {x},
           \A d \in Clients \ {x} : wr'[d] = wr[d],
           \A q \in Readers \ {x} : retier'[q].pc = retier[q].pc,
           x \in bodies' => Accounted(x)
    PROVE  Accounts
<1>1. ASSUME NEW ref \in bodies', ref # x  PROVE  Accounted(ref)
  <2>1. ref \in bodies /\ (InUse(ref) => InUse(ref)')  BY <1>1 DEF InUse
  <2> QED  BY <2>1 DEF Accounted
<1> QED  BY <1>1 DEF Accounts

Around(x) == {bodies, bodies \cup {x}, bodies \ {x}, (bodies \cup {x}) \ {x}}

LEMMA AroundIt ==
    ASSUME NEW x, bodies' \in Around(x)
    PROVE  bodies' \subseteq bodies \cup {x}
BY DEF Around

LEMMA NobodyAccounts ==
    ASSUME bodies' \subseteq bodies, wr' = wr,
           \A q \in Readers : retier'[q].pc = retier[q].pc
    PROVE  Accounts
<1>1. ASSUME NEW ref \in bodies'  PROVE  Accounted(ref)
  <2>1. ref \in bodies /\ (InUse(ref) => InUse(ref)')  BY <1>1 DEF InUse
  <2> QED  BY <2>1 DEF Accounted
<1> QED  BY <1>1 DEF Accounts

(* A request that has no body staged.                                         *)
LEMMA BodilessAccounts ==
    ASSUME Inv, NEW c \in Clients, ByClient(c), Retiers, bodies' = bodies,
           ~(wr[c].pc \in {"body", "commit", "token"} /\ wr[c].kind \in LocalKinds)
    PROVE  Accounts
<1>1. ~InUse(c)  BY TieredAssumption DEF InUse
<1>2. c \in bodies' => Accounted(c)  BY <1>1 DEF Accounted
<1>3. bodies' \subseteq bodies \cup {c} /\ c \in Clients \cup Readers  OBVIOUS
<1> QED  BY <1>2, <1>3, OthersAccount DEF ByClient, Retiers

LEMMA BeginAccounts ==
    ASSUME Inv, NEW c \in Clients, ByClient(c), NEW n \in Nodes,
           \/ \E kind \in Kinds, e \in Contents :
                BeginLocal(c, kind, e, n) \/ BeginForward(c, kind, e, n)
           \/ BeginDelete(c, n)
    PROVE  Accounts
<1>1. bodies' = bodies /\ wr[c].pc = "idle" /\ claimRetierWrite(n)
  BY DEF BeginLocal, BeginForward, BeginDelete
<1> QED  BY <1>1, Claims, BodilessAccounts

(* The request goes on with its body staged.                                  *)
LEMMA OnwardAccounts ==
    ASSUME Inv, NEW c \in Clients, NEW pc \in {"commit", "token"}, Goto(c, pc),
           wr[c].kind \in LocalKinds
    PROVE  Accounted(c)
<1>1. wr[c] \in WriteRecords /\ wr'[c] = [wr[c] EXCEPT !.pc = pc]
  BY DEF Goto, Inv, TypeOK
<1>2. wr'[c].pc = pc /\ wr'[c].kind = wr[c].kind  BY <1>1 DEF WriteRecords
<1> QED  BY <1>2 DEF InUse, Accounted

LEMMA DiscardAccounts ==
    ASSUME Inv, Watch, NEW held, NEW x, InUse(x), DeleteBody(held, x)
    PROVE  x \in bodies' => Accounted(x)
<1>1. CASE bodies' = held \ {x}  BY <1>1
<1>2. CASE Fault  BY <1>2, FailureAccounts
<1> QED  BY <1>1, <1>2 DEF DeleteBody

LEMMA ClientAccounts ==
    ASSUME Inv, Watch, NEW c \in Clients, ByClient(c), ClientNext(c)
    PROVE  Accounts
<1>1. Retiers  BY Leaves DEF ClientNext, StageBody, Commit, RetryToken, Capture,
        ForwardWrite, CommitMarker, Sweep, DeleteLocal, ForwardDrop, convergeTieredDelete
<1>2. ASSUME bodies' \subseteq bodies \cup {c}, c \in bodies' => Accounted(c)
      PROVE  Accounts
  BY <1>1, <1>2, OthersAccount DEF ByClient, Retiers
<1>3. CASE StageBody(c)
  <2>1. wr[c].pc = "body" /\ wr[c].kind \in LocalKinds /\ InUse(c)
    BY <1>3, Client DEF StageBody, Phase, Fits, InUse
  <2>2. bodies' \subseteq bodies \cup {c}
    <3>1. bodies' \in Around(c)  BY <1>3, Deletes DEF StageBody, Around
    <3> QED  BY <3>1, AroundIt
  <2>3. "commit" \in {"commit", "token"}  OBVIOUS
  <2> QED  BY <1>2, <1>3, <2>1, <2>2, <2>3, OnwardAccounts, DiscardAccounts DEF StageBody
<1>4. CASE Commit(c)
  <2>1. wr[c].kind \in LocalKinds /\ InUse(c)
    BY <1>4 DEF Commit, InUse
  <2>2. bodies' \subseteq bodies \cup {c}
    <3>1. bodies' \in Around(c)  BY <1>4, Deletes DEF Commit, Around
    <3> QED  BY <3>1, AroundIt
  <2>3. ASSUME wr[c].tok = row.ver, row' = Put(wr[c].tok, LocalRow(wr[c].etag, c, c)),
               c \in bodies'
        PROVE  Accounted(c)
    <3>1. row' = [LocalRow(wr[c].etag, c, c) EXCEPT !.ver = row.ver + 1]
      BY <2>3 DEF Put
    <3>2. row'.live /\ ~row'.up /\ row'.ref = c  BY <3>1 DEF LocalRow
    <3> QED  BY <2>3, <3>2, NamedAccounts
  <2>4. "token" \in {"commit", "token"}  OBVIOUS
  <2> QED  BY <1>2, <1>4, <2>1, <2>2, <2>3, <2>4, OnwardAccounts, DiscardAccounts,
              FailureAccounts DEF Commit
<1>5. CASE RetryToken(c)
  <2>1. wr[c].kind \in LocalKinds /\ InUse(c)
    BY <1>5, Client DEF RetryToken, Phase, Fits, InUse
  <2>2. bodies' \subseteq bodies \cup {c}
    <3>1. bodies' \in Around(c)  BY <1>5, Deletes DEF RetryToken, Around
    <3> QED  BY <3>1, AroundIt
  <2>3. ASSUME wr' = [wr EXCEPT ![c].pc = "commit", ![c].tok = row.ver, ![c].tries = @ + 1]
        PROVE  Accounted(c)
    <3>1. PICK k : k = wr[c].tries + 1  OBVIOUS
    <3>2. wr[c] \in WriteRecords
          /\ wr'[c] = [wr[c] EXCEPT !.pc = "commit", !.tok = row.ver, !.tries = k]
      BY <2>3, <3>1 DEF Inv, TypeOK
    <3>3. wr'[c].pc = "commit" /\ wr'[c].kind = wr[c].kind  BY <3>2 DEF WriteRecords
    <3> QED  BY <2>1, <3>3 DEF InUse, Accounted
  <2> QED  BY <1>2, <1>5, <2>1, <2>2, <2>3, DiscardAccounts DEF RetryToken
<1>6. CASE Capture(c) \/ Sweep(c) \/ DeleteLocal(c) \/ convergeTieredDelete(c)
  <2>1. bodies' = bodies /\ wr[c].pc \notin {"body", "commit", "token"}
    BY <1>6 DEF Capture, Sweep, DeleteLocal, convergeTieredDelete
  <2> QED  BY <1>1, <2>1, BodilessAccounts
<1>7. CASE ForwardWrite(c) \/ CommitMarker(c) \/ ForwardDrop(c)
  <2>1. bodies' = bodies /\ wr[c].kind \notin LocalKinds
    BY <1>7 DEF ForwardWrite, CommitMarker, ForwardDrop, LocalKinds, MarkerKinds, DropKinds
  <2> QED  BY <1>1, <2>1, BodilessAccounts
<1> QED  BY <1>3, <1>4, <1>5, <1>6, <1>7 DEF ClientNext

LEMMA RetierAccounts ==
    ASSUME Inv, Watch, NEW r \in Readers, RetierNext(r)
    PROVE  Accounts
<1>1. /\ wr' = wr /\ (RetierNext(r) => \A q \in Readers \ {r} : retier'[q] = retier[q])
      /\ retier[r] \in RetierRecords /\ r \notin Clients
  <2>1. /\ wr' = wr
        /\ EndRetier(r) \/ \E t : retier' = [retier EXCEPT ![r] = t]
    BY DEF RetierNext, maybeRetierOnRead, RetierVerify, RetierFetch, RetierConverge,
           RetierBody, RetierGuard, RetierCommit, RetierStep
  <2> QED  BY <2>1, TieredAssumption DEF EndRetier, Inv, TypeOK
<1>2. ASSUME bodies' \subseteq bodies \cup {r}, r \in bodies' => Accounted(r)
      PROVE  Accounts
  BY <1>1, <1>2, OthersAccount
<1>3. ASSUME NEW pc \in {"body", "guard", "commit"}, RetierStep(r, pc)
      PROVE  Accounted(r)
  <2>1. retier'[r] = [retier[r] EXCEPT !.pc = pc]
    BY <1>3 DEF RetierStep, Inv, TypeOK
  <2>2. retier'[r].pc = pc  BY <1>1, <2>1 DEF RetierRecords
  <2> QED  BY <2>2 DEF InUse, Accounted
<1>4. CASE maybeRetierOnRead(r) \/ RetierVerify(r) \/ RetierFetch(r) \/ RetierConverge(r)
  <2>1. bodies' = bodies /\ ~InUse(r)
    BY <1>1, <1>4 DEF maybeRetierOnRead, RetierVerify, RetierFetch, RetierConverge, InUse
  <2> QED  BY <1>2, <2>1 DEF Accounted
<1>5. CASE RetierBody(r)
  <2>1. InUse(r)  BY <1>5 DEF RetierBody, InUse
  <2>2. bodies' \subseteq bodies \cup {r}
    <3>1. bodies' \in Around(r)  BY <1>5, Deletes DEF RetierBody, Around
    <3> QED  BY <3>1, AroundIt
  <2> QED  BY <1>2, <1>3, <1>5, <2>1, <2>2, DiscardAccounts DEF RetierBody
<1>6. CASE RetierGuard(r)
  <2>1. InUse(r)  BY <1>6 DEF RetierGuard, InUse
  <2>2. bodies' \subseteq bodies \cup {r}
    <3>1. bodies' \in Around(r)  BY <1>6, Deletes DEF RetierGuard, Around
    <3> QED  BY <3>1, AroundIt
  <2> QED  BY <1>2, <1>3, <1>6, <2>1, <2>2, DiscardAccounts DEF RetierGuard
<1>7. CASE RetierCommit(r)
  <2>1. InUse(r) /\ retier[r].pc = "commit"  BY <1>7 DEF RetierCommit, InUse
  <2>2. bodies' \subseteq bodies \cup {r}
    <3>1. bodies' \in Around(r)  BY <1>7, Deletes DEF RetierCommit, Around
    <3> QED  BY <3>1, AroundIt
  <2>3. ASSUME retier[r].tok = row.ver, r \in bodies',
               row' = Put(retier[r].tok, LocalRow(retier[r].etag, r, retier[r].by))
        PROVE  Accounted(r)
    <3>1. row' = [LocalRow(retier[r].etag, r, retier[r].by) EXCEPT !.ver = row.ver + 1]
      BY <2>3 DEF Put
    <3>2. row'.live /\ ~row'.up /\ row'.ref = r  BY <3>1 DEF LocalRow
    <3> QED  BY <2>3, <3>2, NamedAccounts
  <2>4. ASSUME RetierFails(r), r \in bodies'  PROVE  Accounted(r)
    <3>1. CASE Fault  BY <2>1, <2>4, <3>1, FailureAccounts
    <3>2. CASE retier[r].canceled
      BY <2>1, <2>4, <3>2 DEF Watch, LeftBehind, Accounted
    <3> QED  BY <2>4, <3>1, <3>2 DEF RetierFails
  <2> QED  BY <1>2, <1>7, <2>1, <2>2, <2>3, <2>4, DiscardAccounts DEF RetierCommit
<1> QED  BY <1>4, <1>5, <1>6, <1>7 DEF RetierNext

LEMMA ReadAccounts ==
    ASSUME Inv, NEW r \in Readers,
           \/ ReaderNext(r)
           \/ \E op \in {"GET", "HEAD"}, n \in Nodes : handleTieredObject(r, op, n)
    PROVE  Accounts
<1>1. CASE ReaderNext(r)
  <2>1. bodies' = bodies /\ wr' = wr /\ retier' = retier
    BY <1>1 DEF ReaderNext, entryServable, serveFromCache, finishServeBodyError
  <2> QED  BY <2>1, NobodyAccounts
<1>2. ASSUME NEW op \in {"GET", "HEAD"}, NEW n \in Nodes, handleTieredObject(r, op, n)
      PROVE  Accounts
  <2>1. /\ bodies' = bodies /\ wr' = wr /\ rd[r].pc = "idle"
        /\ retier' = retier \/ \E t : retier' = [retier EXCEPT ![r] = t]
    BY <1>2 DEF handleTieredObject
  <2>2. ~InUse(r)  BY <2>1, TieredAssumption DEF Inv, ReadOK, InUse
  <2>3. \A q \in Readers \ {r} : retier'[q] = retier[q]  BY <2>1 DEF Inv, TypeOK
  <2> QED  BY <2>1, <2>2, <2>3, OthersAccount DEF Accounted
<1> QED  BY <1>1, <1>2

LEMMA EveryBody ==
    ASSUME Inv, Reclaimable, [Next]_vars
    PROVE  Reclaimable'
<1>1. CASE UNCHANGED vars  BY <1>1 DEF vars, Reclaimable, InUse
<1>2. CASE Next
  <2>1. Watch /\ Step /\ kept \subseteq kept'  BY <1>2 DEF Next, Watch
  <2>2. Accounts
    <3>1. ASSUME NEW c \in Clients, TaskNext(c)  PROVE  Accounts
      <4>1. bodies' = bodies /\ wr' = wr /\ retier' = retier
        BY <3>1 DEF TaskNext, CleanupCheck, CleanupDelete, CleanupReread, CleanupRepair,
                    UpgradeHead, UpgradeObserve, UpgradeCommit
      <4> QED  BY <4>1, NobodyAccounts
    <3>2. ASSUME NEW ref \in Refs, EvictBody(ref)  PROVE  Accounts
      BY <3>2, NobodyAccounts DEF EvictBody
    <3>3. ASSUME ExpireMeta \/ UNCHANGED <<upstream, row, bodies, evicted, wr, task, rd,
                                          retier, backoff, faults>>
          PROVE  Accounts
      BY <3>3, NobodyAccounts DEF ExpireMeta
    <3>4. ASSUME NEW c \in Clients, NEW n \in Nodes,
                 \/ \E kind \in Kinds, e \in Contents :
                      BeginLocal(c, kind, e, n) \/ BeginForward(c, kind, e, n)
                 \/ BeginDelete(c, n)
          PROVE  Accounts
      BY <2>1, <3>4, WatchWatched, StepBeginLocal, StepBeginForward, StepBeginDelete,
         BeginAccounts
    <3>5. ASSUME NEW c \in Clients, ClientNext(c)  PROVE  Accounts
      BY <2>1, <3>5, WatchWatched, StepOfClient, ClientAccounts
    <3> QED  BY <2>1, <3>1, <3>2, <3>3, <3>4, <3>5, RetierAccounts, ReadAccounts DEF Step
  <2> QED  BY <2>1, <2>2, ReclaimableKept
<1> QED  BY <1>1, <1>2

LEMMA InitInv ==
    ASSUME Init
    PROVE  Inv
<1>1. PICK e \in ETags :
        \/ /\ row = [LocalRow(e, Seed, Seed) EXCEPT !.ver = 1]
           /\ bodies = {Seed} /\ upstream = Gone
        \/ /\ row = [Marker(e, TRUE, Seed) EXCEPT !.ver = 1]
           /\ bodies = {} /\ upstream = e
        \/ row = AbsentRow(1) /\ bodies = {} /\ upstream = Gone
  BY DEF Init
<1>2. /\ evicted = {} /\ backoff = {} /\ gap = {} /\ kept = bodies /\ faults = 0
      /\ wr = [c \in Clients |-> Idle("idle", "put", "none")]
      /\ task = [c \in Clients |-> NoTask]
      /\ rd = [r \in Readers |-> NoRead("idle", "GET", "none")]
      /\ retier = [r \in Readers |-> NoRetier]
  BY DEF Init
<1>3. 1 \in Nat /\ 1 # 0 /\ 0 \in Nat /\ 0 # 1 /\ 0 <= 1 /\ faults \in 0..MaxFaults
  BY <1>2, TieredAssumption, SMT
<1>4. e \in Contents /\ Gone \in Contents /\ Seed \in Refs  BY DEF Contents, Refs
<1>5. /\ row \in Rows /\ row.ver = 1 /\ row.ref = Seed
      /\ row.live /\ ~row.up => bodies = {Seed}
  <2>1. CASE row = [LocalRow(e, Seed, Seed) EXCEPT !.ver = 1] /\ bodies = {Seed}
    <3>1. row = [live |-> TRUE, ver |-> 1, etag |-> e, up |-> FALSE,
                 known |-> TRUE, ref |-> Seed, by |-> Seed]
      BY <2>1 DEF LocalRow
    <3>2. row \in Rows /\ row.ver = 1 /\ row.ref = Seed  BY <1>3, <1>4, <3>1 DEF Rows
    <3> QED  BY <2>1, <3>2
  <2>2. CASE row = [Marker(e, TRUE, Seed) EXCEPT !.ver = 1]
    <3>1. row = [live |-> TRUE, ver |-> 1, etag |-> e, up |-> TRUE,
                 known |-> TRUE, ref |-> Seed, by |-> Seed]
      BY <2>2 DEF Marker
    <3> QED  BY <1>3, <1>4, <3>1 DEF Rows
  <2>3. CASE row = AbsentRow(1)
    BY <1>3, <1>4, <2>3, AbsentTyped
  <2> QED  BY <1>1, <2>1, <2>2, <2>3
<1>6. PICK w : w = Idle("idle", "put", "none")  OBVIOUS
<1>7. /\ w \in WriteRecords /\ w.pc = "idle" /\ w.kind = "put" /\ w.tok = 0
      /\ w.answer = "none" /\ ~w.hit
  BY <1>3, <1>4, <1>6 DEF Idle, WriteRecords, LocalKinds
<1>8. PICK q : q = NoRead("idle", "GET", "none")  OBVIOUS
<1>9. q \in ReadRecords /\ q.pc = "idle" /\ q.tok = 0 /\ q.ref = Seed
  BY <1>3, <1>4, <1>8 DEF NoRead, ReadRecords
<1>10. TypeOK
  <2>1. wr \in [Clients -> WriteRecords]  BY <1>2, <1>6, <1>7
  <2>2. task \in [Clients -> TaskRecords]  BY <1>2, NoTaskTyped
  <2>3. rd \in [Readers -> ReadRecords]  BY <1>2, <1>8, <1>9
  <2>4. retier \in [Readers -> RetierRecords]  BY <1>2, NoRetierTyped
  <2>5. bodies \subseteq Refs /\ upstream \in Contents  BY <1>1, <1>4
  <2> QED  BY <1>2, <1>3, <1>5, <2>1, <2>2, <2>3, <2>4, <2>5 DEF TypeOK
<1>11. ASSUME NEW y \in Clients \cup Readers  PROVE  Unnamed(y) /\ y \notin bodies
  <2>1. y # Seed  BY TieredAssumption
  <2> QED  BY <1>1, <1>2, <1>5, <1>8, <1>9, <2>1 DEF Unnamed
<1>12. ASSUME NEW c \in Clients  PROVE  Phase(c) /\ Staged(c) /\ Decided(c) /\ TaskOK(c)
  <2>1. wr[c] = w /\ task[c] = NoTask  BY <1>2, <1>6
  <2>2. Phase(c)  BY <1>7, <2>1 DEF Phase, Fits, Told
  <2>3. Staged(c)  BY <1>7, <1>11, <2>1 DEF Staged
  <2>4. Decided(c) /\ TaskOK(c)
    BY <1>3, <1>5, <1>7, <2>1, NoTaskTyped DEF Decided, TaskOK
  <2> QED  BY <2>2, <2>3, <2>4
<1>13. ASSUME NEW r \in Readers  PROVE  RetierOK(r) /\ ReadOK(r)
  <2>1. retier[r] = NoRetier /\ rd[r] = q  BY <1>2, <1>8
  <2>2. RetierOK(r)  BY <1>3, <1>5, <2>1, NoRetierTyped DEF RetierOK
  <2>3. ReadOK(r)  BY <1>3, <1>5, <1>9, <1>11, <2>1, NoRetierTyped DEF ReadOK
  <2> QED  BY <2>2, <2>3
<1> QED  BY <1>3, <1>5, <1>10, <1>12, <1>13 DEF Inv, Stored

(* Whatever the requests, the tasks behind them and the store do, the         *)
(* invariant holds.                                                           *)
THEOREM InvHolds == Spec => []Inv
<1>1. Init => Inv  BY InitInv
<1>2. Inv /\ [Next]_vars => Inv'  BY EveryStep DEF Behind, ByClient
<1> QED  BY <1>1, <1>2, PTL DEF Spec

(* The store, the requests and their tasks stay within their types.           *)
THEOREM TieredTypes == Spec => []TypeOK
<1>1. Inv => TypeOK  BY DEF Inv
<1> QED  BY <1>1, InvHolds, PTL

(* BodiesReclaimed: whatever commit was refused or ambiguous, whatever re-tier *)
(* raced it, a local-tier row has its body or lost it to eviction; and a body *)
(* in the store is in use, was named by a row, or outlived a call that failed. *)
THEOREM NoBodyIsLost == Spec => []BodiesReclaimed
<1>1. Init => Reclaimable  BY DEF Init, Reclaimable
<1>2. Inv /\ Reclaimable /\ [Next]_vars => Reclaimable'  BY EveryBody
<1>3. Inv /\ Reclaimable => BodiesReclaimed
  BY DEF Inv, Stored, Reclaimable, BodiesReclaimed
<1> QED  BY <1>1, <1>2, <1>3, InvHolds, PTL DEF Spec

(* MissIsTrue: handleTieredObject and serveOriginlessObject answer a miss only *)
(* for an object that was not servable at some moment of the request, or whose *)
(* body was evicted under it.                                                 *)
THEOREM MissesAreTrue == Spec => []MissIsTrue
<1>1. Inv => MissIsTrue  BY DEF Inv, ReadOK, MissIsTrue
<1> QED  BY <1>1, InvHolds, PTL

(* LocalCopySurvives: the only copy of an object gives way to a client that   *)
(* writes it, deletes it or began on it, never to a background task.          *)
THEOREM TheOnlyCopySurvives == Spec => LocalCopySurvives
<1> DEFINE Survives ==
      row.live /\ ~row.up /\ row.ref \in bodies /\ row' # row =>
         \/ row' = Expired
         \/ \E c \in Clients :
               /\ wr'[c] # wr[c]
               /\ \/ wr[c].kind \in LocalKinds \/ wr[c].pc = "local"
                  \/ wr[c].seen = row.by /\ wr[c].hit
<1>1. ASSUME Inv, [Next]_vars  PROVE  [Survives]_vars
  <2>1. CASE Behind  BY <2>1 DEF Behind, Heals, Servable
  <2>2. ASSUME NEW c \in Clients, ByClient(c)  PROVE  Survives
    BY <2>2 DEF ByClient, LocalKinds
  <2> QED  BY <1>1, <2>1, <2>2, EveryStep
<1> QED  BY <1>1, InvHolds, PTL DEF Spec, LocalCopySurvives

(* BackgroundHealsMarkers: a re-tier, clean-up or upgrade never reverts an    *)
(* acknowledged overwrite, nor brings a deleted object back.                  *)
THEOREM BackgroundNeverReverts == Spec => BackgroundHealsMarkers
<1> DEFINE HealsOnly ==
      wr' = wr /\ row' # row =>
         \/ row' = Expired
         \/ ~row'.live /\ ~Servable
         \/ row.up /\ (row'.live => /\ row'.by = row.by
                                    /\ row'.up \/ row'.etag = row.etag)
<1>1. ASSUME Inv, [Next]_vars  PROVE  [HealsOnly]_vars
  <2>1. CASE Behind  BY <2>1 DEF Behind, Heals
  <2>2. ASSUME NEW c \in Clients, ByClient(c)  PROVE  HealsOnly
    BY <2>2 DEF ByClient
  <2> QED  BY <1>1, <2>1, <2>2, EveryStep
<1> QED  BY <1>1, InvHolds, PTL DEF Spec, BackgroundHealsMarkers

(* AckedIsVisible: when handleOriginlessPut answers 200 the key names the     *)
(* request's own body; when a forwarded request does, the version it          *)
(* displaced is gone.                                                         *)
THEOREM AcknowledgedWritesShow == Spec => AckedIsVisible
<1> DEFINE Shows ==
      \A c \in Clients : wr[c].answer # "ok" /\ wr'[c].answer = "ok" =>
         /\ wr[c].kind \in LocalKinds =>
              row'.live /\ row'.ref = c /\ c \in bodies' \cup evicted'
         /\ /\ wr[c].kind \notin LocalKinds /\ wr[c].pc # "local"
            /\ wr[c].tok # 0 /\ (wr[c].hit \/ wr'[c].hit) /\ faults' = faults
            => ~(row'.live /\ row'.ver = wr[c].tok)
<1>1. ASSUME Inv, [Next]_vars  PROVE  [Shows]_vars
  <2>1. CASE Behind  BY <2>1 DEF Behind
  <2>2. ASSUME NEW c \in Clients, ByClient(c)  PROVE  Shows
    BY <2>2 DEF ByClient, Displacing, Stored
  <2> QED  BY <1>1, <2>1, <2>2, EveryStep
<1> QED  BY <1>1, InvHolds, PTL DEF Spec, AckedIsVisible

(* ConditionalIsAtomic: PutMetaIfVersion under the decision-time token stores *)
(* a conditional PUT over the state its precondition was evaluated on.        *)
THEOREM ConditionalWritesAreAtomic == Spec => ConditionalIsAtomic
<1> DEFINE Atomic ==
      \A c \in Clients :
         wr[c].pc = "commit" /\ wr'[c] # wr[c] /\ row' # row =>
           /\ wr[c].kind = "ifnone" => ~Servable
           /\ wr[c].kind = "ifmatch" /\ row.live =>
                row.by = wr[c].seen /\ row.etag = wr[c].old
<1>1. ASSUME Inv, [Next]_vars  PROVE  [Atomic]_vars
  <2>1. CASE Behind  BY <2>1 DEF Behind
  <2>2. ASSUME NEW c \in Clients, ByClient(c)  PROVE  Atomic
    BY <2>2 DEF ByClient
  <2> QED  BY <1>1, <2>1, <2>2, EveryStep
<1> QED  BY <1>1, InvHolds, PTL DEF Spec, ConditionalIsAtomic
=============================================================================
