-------------------------- MODULE BroadcastProofs --------------------------
(***************************************************************************)
(* Proofs about Broadcast: every consumer reads the body from its first      *)
(* chunk and in order, success means the whole body, a pooled buffer has one *)
(* owner, for any number of clients, buffers and chunks and any capacity of  *)
(* the channels.                                                             *)
(***************************************************************************)
EXTENDS Broadcast, TLAPS

(* The leaves that need arithmetic or sequences say so with SMT.               *)
USE Zenon

(***************************************************************************)
(* The inductive invariant.                                                 *)
(***************************************************************************)
\* The records of the state: their fields and what these range over.
BOf(x) ==
    [headerSet : {x.headerSet}, streaming : {x.streaming}, done : {x.done},
     err : Errors, listeners : Seq(Listeners)]

ProdOf ==
    [pc : {"request", "answered", "read", "scan", "copy", "complete", "done"},
     buf : Bufs \cup {NoBuf}, n : 0..MaxChunks,
     end : {"more", "eof", "nil", "failed", "canceled"},
     i : Nat \ {0}, owner : Nat, pos : Nat, kept : Seq(Listeners)]

LisOf(x) ==
    [ch : Seq(Chunks), closed : {x.closed}, ready : {x.ready}, headerErr : Errors,
     termErr : Errors, disconnected : {x.disconnected}]

ConOf ==
    [pc : {"idle", "elsewhere", "headers", "receive", "write", "drain"},
     hold : Bufs \cup {NoBuf}, out : Seq(Nat), res : {"none", "ok", "error"}]

Types ==
    /\ setup \in Setups
    /\ b \in BOf(b)
    /\ prod \in ProdOf
    /\ DOMAIN lis = Listeners /\ lis = [l \in Listeners |-> lis[l]]
    /\ \A l \in Listeners : lis[l] \in LisOf(lis[l]) /\ Len(lis[l].ch) <= ChannelBuf
    /\ con \in [Listeners -> ConOf]
    /\ mem \in [Bufs -> 0..MaxChunks]
    /\ free \subseteq Bufs

\* The fetch goroutine: where it holds a buffer and what is in it, how its
\* progress through broadcast() is reset, and what Broadcaster records of it.
Producer ==
    /\ prod.n <= setup.chunks
    /\ prod.pc \in {"request", "answered", "done"} => prod.buf = NoBuf
    /\ prod.pc \in {"read", "scan", "copy"} => prod.buf \in Bufs
    /\ prod.pc \in {"request", "answered"} => ~ b.streaming
    /\ ~ b.streaming => prod.n = 0
    /\ b.done <=> prod.pc = "done"
    /\ prod.pc \in {"scan", "copy"} =>
         prod.n > 0 /\ mem[prod.buf] = prod.n /\ prod.end \in {"more", "eof", "failed"}
    /\ prod.pc \in {"complete", "done"} => prod.end \in {"nil", "failed", "canceled"}
    /\ prod.pc # "copy" => prod.owner = 0 /\ prod.pos = 0 /\ prod.kept = <<>>
    /\ prod.pc \notin {"scan", "copy"} => prod.i = 1
    /\ prod.pc = "request" => con[CacheListener].pc = "idle"

\* The list of listeners: each at most once, subscribed, and open while the
\* fetch goroutine is outside broadcast().
Roll ==
    /\ \A i, k \in 1..Len(b.listeners) : b.listeners[i] = b.listeners[k] => i = k
    /\ \A k \in 1..Len(b.listeners) :
         /\ con[b.listeners[k]].pc \notin {"idle", "elsewhere"}
         /\ prod.pc \notin {"copy", "done"} => ~ lis[b.listeners[k]].closed

\* The copy loop: the owner keeps its room, those already passed have been kept
\* or closed, those still to come and the owner are open.
Copied(k) == k < prod.i /\ k # prod.owner

Loop ==
    prod.pc = "copy" =>
        /\ prod.owner <= Len(b.listeners) /\ prod.i # prod.owner
        /\ prod.owner # 0 => HasRoom(b.listeners[prod.owner])
        /\ prod.pos <= Len(prod.kept)
        /\ \A m, k \in 1..Len(prod.kept) : prod.kept[m] = prod.kept[k] => m = k
        /\ \A m \in 1..Len(prod.kept) :
             /\ ~ lis[prod.kept[m]].closed
             /\ \E k \in 1..Len(b.listeners) : Copied(k) /\ b.listeners[k] = prod.kept[m]
        /\ \A k \in 1..Len(b.listeners) :
             IF Copied(k)
             THEN lis[b.listeners[k]].closed
                  \/ \E m \in 1..Len(prod.kept) : prod.kept[m] = b.listeners[k]
             ELSE ~ lis[b.listeners[k]].closed

\* The channels and their consumers: a chunk without a buffer is the last of a
\* closed channel, a buffer is in hand exactly while it is written out, and
\* nothing has happened to a listener nobody uses.
Consumers ==
    \A l \in Listeners :
        /\ \A k \in 1..Len(lis[l].ch) :
             /\ lis[l].ch[k].buf = NoBuf => k = Len(lis[l].ch) /\ lis[l].closed
             /\ lis[l].ch[k].buf # NoBuf => lis[l].ch[k].err = "nil"
        /\ con[l].hold = NoBuf <=> con[l].pc # "write"
        /\ con[l].pc \in {"idle", "elsewhere"} => lis[l].ch = <<>>
        /\ con[l].pc \in {"idle", "elsewhere", "headers"} => con[l].out = <<>>
        /\ con[l].res = "ok" => con[l].pc = "drain"

\* What a consumer has taken from its channel, and the data still in there.
Fetched(l) == Len(con[l].out) + (IF con[l].pc = "write" THEN 1 ELSE 0)
DataIn(l) ==
    IF Len(lis[l].ch) > 0 /\ lis[l].ch[Len(lis[l].ch)].buf = NoBuf
    THEN Len(lis[l].ch) - 1 ELSE Len(lis[l].ch)

\* A listener that the broadcast under way has yet to send the chunk to.
Awaits(l) ==
    \/ prod.pc = "scan"
    \/ prod.pc = "copy" /\ \A m \in 1..Len(prod.kept) : prod.kept[m] # l

Due(l) == IF Awaits(l) THEN prod.n - 1 ELSE prod.n

\* What a consumer wrote, holds and has queued is the body from its first chunk
\* on, up to the last one sent while its channel is open, and up to the end if
\* the channel was closed without an error.
Stream(l) ==
    /\ con[l].pc \in {"headers", "receive", "write"} =>
         /\ \A k \in 1..Len(con[l].out) : con[l].out[k] = k
         /\ con[l].pc = "write" => mem[con[l].hold] = Len(con[l].out) + 1
         /\ \A k \in 1..Len(lis[l].ch) :
              lis[l].ch[k].buf # NoBuf => mem[lis[l].ch[k].buf] = Fetched(l) + k
         /\ ~ lis[l].closed /\ Live(l) => Fetched(l) + Len(lis[l].ch) = Due(l)
         /\ lis[l].closed /\ lis[l].termErr = "nil" =>
              b.done /\ b.err = "nil" /\ Fetched(l) + DataIn(l) = prod.n
    /\ con[l].pc = "drain" =>
         /\ \A k \in 1..Len(con[l].out) : con[l].out[k] = k
         /\ con[l].res = "ok" => b.done /\ b.err = "nil" /\ Len(con[l].out) = prod.n

Streams == \A l \in Listeners : Stream(l)

\* Every buffer is in one place: in the pool, with the fetch goroutine, in the
\* hands of one consumer or once in one channel.
HeldOnce ==
    \A l \in Listeners : con[l].hold # NoBuf =>
        /\ con[l].hold \notin free /\ con[l].hold # prod.buf
        /\ \A m \in Listeners : con[m].hold = con[l].hold => m = l

QueuedOnce ==
    \A l \in Listeners : \A k \in 1..Len(lis[l].ch) : lis[l].ch[k].buf # NoBuf =>
        /\ lis[l].ch[k].buf \notin free /\ lis[l].ch[k].buf # prod.buf
        /\ \A m \in Listeners : con[m].hold # lis[l].ch[k].buf
        /\ \A m \in Listeners : \A j \in 1..Len(lis[m].ch) :
             lis[m].ch[j].buf = lis[l].ch[k].buf => m = l /\ j = k

Somewhere(x) ==
    \/ x \in free
    \/ prod.buf = x
    \/ \E l \in Listeners : con[l].hold = x
    \/ \E l \in Listeners : \E k \in 1..Len(lis[l].ch) : lis[l].ch[k].buf = x

Sole == prod.buf \notin free /\ HeldOnce /\ QueuedOnce /\ \A x \in Bufs : Somewhere(x)

Inv == Types /\ Producer /\ Roll /\ Loop /\ Consumers /\ Streams /\ Sole

(***************************************************************************)
(* Sequences and records.                                                   *)
(***************************************************************************)
\* A chunk with buffer x is sent to l.
Pushes(l, x) ==
    /\ DOMAIN lis' = Listeners /\ lis' = [m \in Listeners |-> lis'[m]]
    /\ \A m \in Listeners \ {l} : lis'[m] = lis[m]
    /\ lis'[l] \in LisOf(lis'[l])
    /\ lis'[l].closed = lis[l].closed /\ lis'[l].termErr = lis[l].termErr
    /\ Len(lis'[l].ch) = Len(lis[l].ch) + 1 /\ Len(lis'[l].ch) <= ChannelBuf
    /\ \A k \in 1..Len(lis[l].ch) : lis'[l].ch[k] = lis[l].ch[k]
    /\ lis'[l].ch[Len(lis[l].ch) + 1].buf = x /\ lis'[l].ch[Len(lis[l].ch) + 1].err = "nil"

\* What sending to a channel does to it.
LEMMA Pushing ==
    ASSUME NEW S, NEW s \in Seq(S), NEW e \in S
    PROVE  /\ Append(s, e) \in Seq(S)
           /\ Len(Append(s, e)) = Len(s) + 1
           /\ \A k \in 1..Len(s) : Append(s, e)[k] = s[k]
           /\ Append(s, e)[Len(s) + 1] = e
BY SMT

\* A listener's record is a record, whatever its flags.
LEMMA ListenerRecord ==
    ASSUME NEW ch \in Seq(Chunks), NEW closed, NEW ready, NEW headerErr \in Errors,
           NEW termErr \in Errors, NEW disconnected
    PROVE  LET r == [ch |-> ch, closed |-> closed, ready |-> ready, headerErr |-> headerErr,
                     termErr |-> termErr, disconnected |-> disconnected]
           IN  r \in LisOf(r)
BY DEF LisOf

LEMMA Fields ==
    ASSUME NEW r, r \in LisOf(r)
    PROVE  /\ r.ch \in Seq(Chunks) /\ r.headerErr \in Errors /\ r.termErr \in Errors
           /\ r = [ch |-> r.ch, closed |-> r.closed, ready |-> r.ready,
                   headerErr |-> r.headerErr, termErr |-> r.termErr,
                   disconnected |-> r.disconnected]
BY DEF LisOf

\* closeWithError and disconnectSlowConsumer.
LEMMA Closing ==
    ASSUME NEW r, r \in LisOf(r), NEW e \in Errors, NEW q, q = CloseWithError(r, e)
    PROVE  /\ q \in LisOf(q)
           /\ ~ (Len(r.ch) < ChannelBuf) => q.ch = r.ch
           /\ q.closed = TRUE /\ q.termErr = e
<1> DEFINE ch == IF Len(r.ch) < ChannelBuf THEN Append(r.ch, Chunk(NoBuf, e)) ELSE r.ch
<1>1. r.ch \in Seq(Chunks)
  BY Fields
<1>2. Chunk(NoBuf, e) \in Chunks
  BY DEF Chunk, Chunks
<1>3. Append(r.ch, Chunk(NoBuf, e)) \in Seq(Chunks)
  BY <1>1, <1>2, Pushing
<1>4. ch \in Seq(Chunks)
  BY <1>1, <1>3
<1>5. q = [r EXCEPT !.termErr = e, !.closed = TRUE, !.ch = ch]
  BY DEF CloseWithError
<1> HIDE DEF ch
<1>6. q \in LisOf(q) /\ q.ch = ch /\ q.closed = TRUE /\ q.termErr = e
  BY <1>4, <1>5 DEF LisOf
<1> QED
  BY <1>6 DEF ch

LEMMA ListenersSet ==
    ASSUME NEW r, r \in BOf(r), NEW s \in Seq(Listeners), NEW q, q = [r EXCEPT !.listeners = s]
    PROVE  /\ q \in BOf(q) /\ q.listeners = s
           /\ q.streaming = r.streaming /\ q.done = r.done /\ q.err = r.err
BY DEF BOf

(***************************************************************************)
(* What the invariant says.                                                 *)
(***************************************************************************)
LEMMA InvTypes == Inv => TypeOK
<1> SUFFICES ASSUME Inv PROVE TypeOK
  OBVIOUS
<1> Types
  BY DEF Inv
<1> USE DEF Types
<1>1. b.err \in Errors /\ b.listeners \in Seq(Listeners)
  BY DEF BOf
<1>3. prod.buf \in Bufs \cup {NoBuf} /\ prod.n \in 0..MaxChunks
  BY DEF ProdOf
<1>4. ASSUME NEW l \in Listeners
      PROVE  /\ lis[l].termErr \in Errors /\ lis[l].headerErr \in Errors
             /\ lis[l].ch \in Seq(Chunks) /\ Len(lis[l].ch) <= ChannelBuf
             /\ con[l].hold \in Bufs \cup {NoBuf}
             /\ con[l].res \in {"none", "ok", "error"}
  <2>1. lis[l].ch \in Seq(Chunks) /\ lis[l].headerErr \in Errors /\ lis[l].termErr \in Errors
    BY Fields
  <2>3. con[l] \in ConOf
    OBVIOUS
  <2> QED
    BY <2>1, <2>3 DEF ConOf
<1> QED
  BY <1>1, <1>3, <1>4 DEF TypeOK

LEMMA InvInOrder == Inv => InOrder
<1> SUFFICES ASSUME Inv, NEW l \in Listeners, NEW k \in DOMAIN con[l].out
             PROVE  con[l].out[k] = k
  BY DEF InOrder
<1> Types /\ Consumers /\ Streams
  BY DEF Inv
<1>1. con[l] \in ConOf
  BY DEF Types
<1>2. k \in 1..Len(con[l].out) /\ con[l].out # <<>>
  BY <1>1, SMT DEF ConOf
<1>3. con[l].pc \in {"headers", "receive", "write", "drain"}
  BY <1>1, <1>2 DEF Consumers, ConOf
<1> QED
  BY <1>2, <1>3 DEF Streams, Stream

LEMMA InvWhole == Inv => SuccessIsWhole
BY DEF Inv, Consumers, Streams, Stream, SuccessIsWhole

(***************************************************************************)
(* The initial state.                                                       *)
(***************************************************************************)
LEMMA Begins == Init => Inv
<1> SUFFICES ASSUME Init PROVE Inv
  OBVIOUS
<1>0. Fetcher \in Listeners /\ CacheListener \in Listeners /\ CacheListener # Fetcher
  BY BroadcastAssumption DEF Listeners
<1>a. \A l \in Listeners : lis[l] = NewListener
  BY DEF Init
<1>b. \A l \in Listeners :
        con[l] = [pc |-> IF l = Fetcher THEN "headers" ELSE "idle",
                  hold |-> NoBuf, out |-> <<>>, res |-> "none"]
  BY DEF Init
<1>c. \A l \in Listeners :
        /\ con[l].pc \in {"headers", "idle"} /\ con[l].hold = NoBuf
        /\ con[l].out = <<>> /\ con[l].res = "none"
  <2> SUFFICES ASSUME NEW l \in Listeners
               PROVE  /\ con[l].pc \in {"headers", "idle"} /\ con[l].hold = NoBuf
                      /\ con[l].out = <<>> /\ con[l].res = "none"
    OBVIOUS
  <2>1. PICK pc \in {"headers", "idle"} : pc = IF l = Fetcher THEN "headers" ELSE "idle"
    OBVIOUS
  <2>2. con[l] = [pc |-> pc, hold |-> NoBuf, out |-> <<>>, res |-> "none"]
    BY <2>1, <1>b
  <2> QED
    BY <2>2, SMT
<1>1. Types
  <2>1. setup \in Setups /\ mem \in [Bufs -> 0..MaxChunks] /\ free \subseteq Bufs
    BY BroadcastAssumption, SMT DEF Init
  <2>2. <<Fetcher>> \in Seq(Listeners) /\ "nil" \in Errors
    BY <1>0, SMT DEF Errors
  <2>3. b \in BOf(b)
    BY <2>2 DEF Init, BOf
  <2>4. prod \in ProdOf
    BY BroadcastAssumption, SMT DEF Init, ProdOf, NoBuf
  <2>5. NewListener \in LisOf(NewListener) /\ Len(NewListener.ch) = 0
    <3>1. <<>> \in Seq(Chunks)
      BY SMT
    <3>2. NewListener \in LisOf(NewListener)
      BY <3>1, <2>2, ListenerRecord DEF NewListener
    <3> QED
      BY <3>2 DEF NewListener
  <2>6. DOMAIN lis = Listeners /\ lis = [l \in Listeners |-> lis[l]]
    BY DEF Init
  <2>7. con \in [Listeners -> ConOf]
    <3>1. DOMAIN con = Listeners /\ con = [l \in Listeners |-> con[l]]
      BY DEF Init
    <3>2. \A l \in Listeners : con[l] \in ConOf
      <4> SUFFICES ASSUME NEW l \in Listeners PROVE con[l] \in ConOf
        OBVIOUS
      <4>1. PICK pc \in {"headers", "idle"} : pc = IF l = Fetcher THEN "headers" ELSE "idle"
        OBVIOUS
      <4>2. con[l] = [pc |-> pc, hold |-> NoBuf, out |-> <<>>, res |-> "none"]
        BY <4>1, <1>b
      <4>3. <<>> \in Seq(Nat)
        BY SMT
      <4> QED
        BY <4>2, <4>3, SMT DEF ConOf
    <3> QED
      BY <3>1, <3>2
  <2> QED
    BY <2>1, <2>3, <2>4, <2>5, <2>6, <2>7, <1>a, BroadcastAssumption, SMT DEF Types
<1>2. Producer
  <2>1. setup.chunks \in Nat
    BY BroadcastAssumption, SMT DEF Init, SetupTypes
  <2> QED
    BY <2>1, <1>0, <1>b, SMT DEF Init, Producer
<1>3. Roll
  BY <1>0, <1>a, <1>b, SMT DEF Init, Roll, NewListener
<1>4. Loop
  BY DEF Init, Loop
<1>5. Consumers
  BY <1>a, <1>c, SMT DEF Consumers, NewListener
<1>6. Streams
  BY <1>a, <1>b, SMT DEF Streams, Stream, NewListener, Fetched, Due, Awaits, Init
<1>7. Sole
  BY <1>a, <1>b, BroadcastAssumption, SMT DEF Sole, HeldOnce, QueuedOnce, Somewhere,
     Init, NewListener, NoBuf
<1> QED
  BY <1>1, <1>2, <1>3, <1>4, <1>5, <1>6, <1>7 DEF Inv

(***************************************************************************)
(* Facts shared by the steps.                                               *)
(***************************************************************************)
LEMMA OfBroadcaster ==
    ASSUME Inv
    PROVE  b.listeners \in Seq(Listeners) /\ b.err \in Errors /\ NoBuf \notin Bufs
<1> Types
  BY DEF Inv
<1>1. b \in BOf(b)
  BY DEF Types
<1> QED
  BY <1>1, BroadcastAssumption DEF BOf, NoBuf

LEMMA OfProducer ==
    ASSUME Inv
    PROVE  /\ prod \in ProdOf
           /\ prod.pc \in {"request", "answered", "read", "scan", "copy", "complete", "done"}
           /\ prod.buf \in Bufs \cup {NoBuf} /\ prod.n \in Nat /\ prod.n \in 0..MaxChunks
           /\ prod.end \in {"more", "eof", "nil", "failed", "canceled"}
           /\ prod.i \in Nat \ {0} /\ prod.owner \in Nat /\ prod.pos \in Nat
           /\ prod.kept \in Seq(Listeners)
BY BroadcastAssumption, SMT DEF Inv, Types, ProdOf

\* A buffer that a consumer holds is in no channel.
LEMMA HeldApart ==
    ASSUME Sole, NEW l \in Listeners, NEW m \in Listeners, con[m].hold # NoBuf
    PROVE  \A k \in 1..Len(lis[l].ch) : lis[l].ch[k].buf # con[m].hold
<1>1. QueuedOnce
  BY DEF Sole
<1> QED
  BY <1>1, SMT DEF QueuedOnce

\* A buffer in a channel is with no consumer and in no other channel.
LEMMA QueuedApart ==
    ASSUME Sole, NEW l \in Listeners, NEW m \in Listeners, m # l,
           NEW k \in 1..Len(lis[m].ch), lis[m].ch[k].buf # NoBuf
    PROVE  /\ con[l].hold # lis[m].ch[k].buf
           /\ \A j \in 1..Len(lis[l].ch) : lis[l].ch[j].buf # lis[m].ch[k].buf
<1>1. QueuedOnce
  BY DEF Sole
<1> QED
  BY <1>1, SMT DEF QueuedOnce

LEMMA OfListener ==
    ASSUME Inv, NEW l \in Listeners
    PROVE  /\ lis[l] \in LisOf(lis[l])
           /\ lis[l].ch \in Seq(Chunks) /\ Len(lis[l].ch) \in 0..ChannelBuf
           /\ Len(lis[l].ch) \in Nat
           /\ \A k \in 1..Len(lis[l].ch) :
                lis[l].ch[k] \in Chunks /\ lis[l].ch[k].buf \in Bufs \cup {NoBuf}
<1> Types
  BY DEF Inv
<1>1. lis[l] \in LisOf(lis[l]) /\ Len(lis[l].ch) <= ChannelBuf
  BY DEF Types
<1>2. lis[l].ch \in Seq(Chunks)
  BY <1>1, Fields
<1>3. \A k \in 1..Len(lis[l].ch) : lis[l].ch[k] \in Chunks
  BY <1>2, SMT
<1>4. \A c \in Chunks : c.buf \in Bufs \cup {NoBuf}
  BY DEF Chunks
<1> QED
  BY <1>1, <1>2, <1>3, <1>4, BroadcastAssumption, SMT

LEMMA OfConsumer ==
    ASSUME Inv, NEW l \in Listeners
    PROVE  /\ con[l] \in ConOf
           /\ con[l].pc \in {"idle", "elsewhere", "headers", "receive", "write", "drain"}
           /\ con[l].hold \in Bufs \cup {NoBuf}
           /\ con[l].out \in Seq(Nat) /\ Len(con[l].out) \in Nat
           /\ con[l].res \in {"none", "ok", "error"}
BY SMT DEF Inv, Types, ConOf

\* The copying loop goes on while its listeners stay open or closed as they are.
LEMMA LoopKept ==
    ASSUME Loop, b' = b, prod' = prod, prod.pc = "copy",
           prod.owner # 0 => HasRoom(b.listeners[prod.owner])',
           \A m \in 1..Len(prod.kept) :
             /\ ~ lis'[prod.kept[m]].closed
             /\ \E k \in 1..Len(b.listeners) : Copied(k) /\ b.listeners[k] = prod.kept[m],
           \A k \in 1..Len(b.listeners) :
             IF Copied(k)
             THEN lis'[b.listeners[k]].closed
                  \/ \E m \in 1..Len(prod.kept) : prod.kept[m] = b.listeners[k]
             ELSE ~ lis'[b.listeners[k]].closed
    PROVE  Loop'
<1>1. \A k : Copied(k)' = Copied(k)
  BY DEF Copied
<1> QED
  BY <1>1, SMTT(30) DEF Loop

\* A step that leaves alone a listener, its consumer, the contents of the buffers
\* they have and what is due to them leaves the stream as it was.
LEMMA StreamKept ==
    ASSUME Inv, NEW l \in Listeners,
           lis'[l] = lis[l], con'[l] = con[l],
           con[l].hold # NoBuf => mem'[con[l].hold] = mem[con[l].hold],
           \A k \in 1..Len(lis[l].ch) :
             lis[l].ch[k].buf # NoBuf => mem'[lis[l].ch[k].buf] = mem[lis[l].ch[k].buf],
           Live(l)' /\ ~ lis[l].closed => Live(l) /\ Due(l)' = Due(l),
           b.done => b'.done /\ b'.err = b.err /\ prod'.n = prod.n
    PROVE  Stream(l)'
<1> Consumers /\ Streams
  BY DEF Inv
<1>1. Fetched(l)' = Fetched(l)
  BY DEF Fetched
<1>2. DataIn(l)' = DataIn(l)
  BY DEF DataIn
<1>3. Stream(l) /\ (con[l].pc = "write" => con[l].hold # NoBuf)
  BY DEF Streams, Consumers
<1> QED
  BY <1>1, <1>2, <1>3, SMT DEF Stream

\* A step that leaves the channels alone keeps what is queued in one place if it
\* puts none of it anywhere else.
LEMMA QueuesKept ==
    ASSUME Inv, \A l \in Listeners : lis'[l].ch = lis[l].ch,
           \A l \in Listeners : \A k \in 1..Len(lis[l].ch) : lis[l].ch[k].buf # NoBuf =>
             /\ lis[l].ch[k].buf \notin free' /\ lis[l].ch[k].buf # prod'.buf
             /\ \A m \in Listeners : con'[m].hold # lis[l].ch[k].buf
    PROVE  QueuedOnce'
<1> Sole
  BY DEF Inv
<1> SUFFICES ASSUME NEW l \in Listeners, NEW k \in 1..Len(lis'[l].ch),
                    lis'[l].ch[k].buf # NoBuf
             PROVE  /\ lis'[l].ch[k].buf \notin free' /\ lis'[l].ch[k].buf # prod'.buf
                    /\ \A m \in Listeners : con'[m].hold # lis'[l].ch[k].buf
                    /\ \A m \in Listeners : \A j \in 1..Len(lis'[m].ch) :
                         lis'[m].ch[j].buf = lis'[l].ch[k].buf => m = l /\ j = k
  BY DEF QueuedOnce
<1>1. lis'[l].ch = lis[l].ch
  OBVIOUS
<1>2. ASSUME NEW m \in Listeners, NEW j \in 1..Len(lis'[m].ch),
             lis'[m].ch[j].buf = lis'[l].ch[k].buf
      PROVE  m = l /\ j = k
  <2>1. lis'[m].ch = lis[m].ch
    OBVIOUS
  <2> QED
    BY <1>1, <1>2, <2>1, SMT DEF Sole, QueuedOnce
<1> QED
  BY <1>1, <1>2, SMT

\* Nothing but the fetch goroutine's own progress changes.
LEMMA EndsStep ==
    ASSUME Inv, NEW e \in {"nil", "failed", "canceled"}, prod.pc \in {"request", "read"},
           Ends(e), UNCHANGED <<setup, b, lis, con, mem, free>>
    PROVE  Inv'
<1> Types /\ Producer /\ Roll /\ Consumers /\ Sole
  BY DEF Inv
<1>1. /\ prod' \in ProdOf /\ prod'.pc = "complete" /\ prod'.end = e
      /\ prod'.buf = prod.buf /\ prod'.n = prod.n /\ prod'.i = prod.i
      /\ prod'.owner = prod.owner /\ prod'.pos = prod.pos /\ prod'.kept = prod.kept
  BY OfProducer DEF Ends, ProdOf
<1>2. Types'
  BY <1>1 DEF Types
<1>3. Producer'
  BY <1>1 DEF Producer
<1>4. Roll'
  BY <1>1 DEF Roll
<1>5. Loop'
  BY <1>1 DEF Loop
<1>6. Consumers'
  BY DEF Consumers
<1>7. Streams'
  <2>1. \A l \in Listeners : Live(l)' => Live(l) /\ Due(l)' = Due(l)
    BY <1>1 DEF Live, Due, Awaits
  <2> QED
    BY <2>1, <1>1, StreamKept DEF Streams
<1>8. Sole'
  BY <1>1, SMT DEF Sole, HeldOnce, QueuedOnce, Somewhere
<1> QED
  BY <1>2, <1>3, <1>4, <1>5, <1>6, <1>7, <1>8 DEF Inv

LEMMA TaskRefusedStep == Inv /\ TaskRefused => Inv'
BY EndsStep DEF TaskRefused

LEMMA RequestFailsStep == Inv /\ RequestFails => Inv'
<1> SUFFICES ASSUME Inv, RequestFails PROVE Inv'
  OBVIOUS
<1>1. PICK e \in {"failed", "canceled"} : Ends(e)
  BY DEF RequestFails
<1> QED
  BY <1>1, EndsStep DEF RequestFails

LEMMA ReadNoneStep == Inv /\ ReadNone => Inv'
<1> SUFFICES ASSUME Inv, ReadNone PROVE Inv'
  OBVIOUS
<1>1. PICK e \in {"nil", "failed", "canceled"} : Ends(e)
  BY DEF ReadNone
<1> QED
  BY <1>1, EndsStep DEF ReadNone

(***************************************************************************)
(* Subscribing.                                                             *)
(***************************************************************************)
\* The consumer of one listener moves on without touching a buffer.
LEMMA ConsumerMoves ==
    ASSUME Inv, NEW l \in Listeners, UNCHANGED <<setup, b, prod, lis, mem, free>>,
           con' \in [Listeners -> ConOf], \A m \in Listeners \ {l} : con'[m] = con[m],
           con[l].hold = NoBuf, con'[l].hold = NoBuf,
           \/ /\ con[l].pc = "idle" /\ l \in Clients
              /\ con'[l].pc = "elsewhere" /\ con'[l].out = <<>>
           \/ con[l].pc \notin {"idle", "elsewhere"} /\ con'[l].pc \in {"receive", "drain"},
           con'[l].res = "ok" => con'[l].pc = "drain", Stream(l)'
    PROVE  Inv'
<1> Types /\ Producer /\ Roll /\ Loop /\ Consumers /\ Sole
  BY DEF Inv
<1>1. \A m \in Listeners : con'[m].hold = con[m].hold
  OBVIOUS
<1>2. Types'
  BY DEF Types
<1>3. Producer'
  <2>1. prod.pc = "request" => con'[CacheListener].pc = "idle"
    <3>1. CacheListener \in Listeners /\ CacheListener \notin Clients
      BY BroadcastAssumption DEF Listeners
    <3> QED
      BY <3>1 DEF Producer
  <2> QED
    BY <2>1 DEF Producer
<1>4. Roll'
  <2>1. \A k \in 1..Len(b.listeners) : b.listeners[k] \in Listeners
    BY OfBroadcaster, SMT
  <2> QED
    BY <2>1 DEF Roll
<1>5. Loop'
  BY SMT DEF Loop, Copied, HasRoom
<1>6. Consumers'
  BY SMT DEF Consumers
<1>7. Streams'
  <2>1. \A m \in Listeners : Live(m)' => Live(m) /\ Due(m)' = Due(m)
    BY DEF Live, Due, Awaits
  <2>2. ASSUME NEW m \in Listeners \ {l} PROVE Stream(m)'
    BY <2>1, StreamKept
  <2> QED
    BY <2>2 DEF Streams
<1>8. Sole'
  BY <1>1, SMT DEF Sole, HeldOnce, QueuedOnce, Somewhere
<1> QED
  BY <1>2, <1>3, <1>4, <1>5, <1>6, <1>7, <1>8 DEF Inv

LEMMA FailedConsumer ==
    ASSUME Inv, NEW l \in Listeners, Failed(l)
    PROVE  /\ con' \in [Listeners -> ConOf] /\ \A m \in Listeners \ {l} : con'[m] = con[m]
           /\ con'[l].pc = "drain" /\ con'[l].hold = NoBuf /\ con'[l].out = <<>>
           /\ con'[l].res = "error" /\ Stream(l)'
<1> Types
  BY DEF Inv
<1>1. PICK c : c = [pc |-> "drain", hold |-> NoBuf, out |-> <<>>, res |-> "error"]
  OBVIOUS
<1>2. <<>> \in Seq(Nat)
  BY SMT
<1>3. /\ c \in ConOf /\ c.pc = "drain" /\ c.hold = NoBuf /\ c.out = <<>> /\ c.res = "error"
  BY <1>1, <1>2 DEF ConOf
<1>4. con' = [con EXCEPT ![l] = c]
  BY <1>1 DEF Failed
<1>5. con'[l] = c /\ con' \in [Listeners -> ConOf] /\ \A m \in Listeners \ {l} : con'[m] = con[m]
  BY <1>3, <1>4 DEF Types
<1>6. Stream(l)'
  BY <1>3, <1>5, SMT DEF Stream
<1> QED
  BY <1>3, <1>5, <1>6

\* Subscribe and the cache's listener, which sendRequest attaches.
LEMMA JoinSteps ==
    /\ \A c \in Clients : Inv /\ Subscribe(c) => Inv'
    /\ Inv /\ RequestAnswered => Inv'
<1>NewRecord.
      ASSUME NEW h
      PROVE  LET q == [NewListener EXCEPT !.ready = h]
             IN  q \in LisOf(q) /\ q.ch = <<>> /\ q.closed = FALSE /\ q.termErr = "nil"
  <2> USE <1>NewRecord
  <2>1. <<>> \in Seq(Chunks) /\ "nil" \in Errors
    BY SMT DEF Errors
  <2>2. NewListener \in LisOf(NewListener)
    BY <2>1, ListenerRecord DEF NewListener
  <2>3. NewListener.ch = <<>> /\ NewListener.closed = FALSE /\ NewListener.termErr = "nil"
    BY DEF NewListener
  <2>4. ASSUME NEW r, r \in LisOf(r)
        PROVE  LET q == [r EXCEPT !.ready = h]
               IN  q \in LisOf(q) /\ q.ch = r.ch /\ q.closed = r.closed /\ q.termErr = r.termErr
    BY <2>4 DEF LisOf
  <2> QED
    BY <2>2, <2>3, <2>4
\* The listener Subscribe hands out.
<1>SubscribedRecord.
      ASSUME Inv
      PROVE  /\ Subscribed \in LisOf(Subscribed)
             /\ IF b.done
                THEN /\ Subscribed.closed = TRUE /\ Subscribed.termErr = b.err
                     /\ Subscribed.ch = (IF b.err = "nil" THEN <<>> ELSE <<Chunk(NoBuf, b.err)>>)
                ELSE Subscribed.closed = FALSE /\ Subscribed.ch = <<>>
  <2> USE <1>SubscribedRecord
  <2>1. PICK r : /\ r = [NewListener EXCEPT !.ready = b.headerSet]
                 /\ r \in LisOf(r) /\ r.ch = <<>> /\ r.closed = FALSE /\ r.termErr = "nil"
    BY <1>NewRecord
  <2>2. CASE ~ b.done
    <3>1. Subscribed = r
      BY <2>1, <2>2 DEF Subscribed
    <3> QED
      BY <3>1, <2>1, <2>2
  <2>3. CASE b.done
    <3>0. b.err \in Errors /\ "nil" \in Errors
      BY OfBroadcaster DEF Errors
    <3>1. PICK h \in Errors : h = IF b.headerSet THEN "nil" ELSE b.err
      BY <3>0
    <3>2. Chunk(NoBuf, b.err) \in Chunks
      BY <3>0 DEF Chunk, Chunks
    <3>3. PICK ch \in Seq(Chunks) :
            ch = IF b.err = "nil" THEN <<>> ELSE <<Chunk(NoBuf, b.err)>>
      <4>1. <<>> \in Seq(Chunks)
        BY SMT
      <4>2. ASSUME NEW c \in Chunks PROVE <<c>> \in Seq(Chunks)
        BY SMT
      <4>3. <<Chunk(NoBuf, b.err)>> \in Seq(Chunks)
        BY <4>2, <3>2
      <4> QED
        BY <4>1, <4>3
    <3>4. Subscribed = [r EXCEPT !.ready = TRUE, !.closed = TRUE, !.termErr = b.err,
                                 !.headerErr = h, !.ch = ch]
      BY <2>1, <2>3, <3>1, <3>3 DEF Subscribed
    <3>5. /\ Subscribed \in LisOf(Subscribed)
          /\ Subscribed.ch = ch /\ Subscribed.closed = TRUE /\ Subscribed.termErr = b.err
      <4>1. r \in LisOf(r)
        BY <2>1
      <4>2. PICK e \in Errors : e = b.err
        BY <3>0
      <4>3. PICK q : q = Subscribed
        OBVIOUS
      <4>4. q = [r EXCEPT !.ready = TRUE, !.closed = TRUE, !.termErr = e,
                          !.headerErr = h, !.ch = ch]
        BY <4>2, <4>3, <3>4
      <4>5. q \in LisOf(q) /\ q.ch = ch /\ q.closed = TRUE /\ q.termErr = e
        BY <4>1, <4>4 DEF LisOf
      <4> QED
        BY <4>2, <4>3, <4>5
    <3> QED
      BY <3>5, <3>3, <2>3
  <2> QED
    BY <2>2, <2>3
\* A listener joins before any data has been sent: it takes part from the first
\* chunk on, or gets the result of a broadcast that is over.
<1>AttachStep.
      ASSUME Inv, NEW l \in Listeners, con[l].pc = "idle", ~ b.streaming,
             prod.pc \notin {"scan", "copy"}, Attach(l),
             con' = [con EXCEPT ![l].pc = "headers"], UNCHANGED <<setup, mem, free>>,
             prod' \in ProdOf, prod'.buf = prod.buf, prod'.n = prod.n, prod'.i = prod.i,
             prod'.end = prod.end, prod'.owner = prod.owner, prod'.pos = prod.pos,
             prod'.kept = prod.kept,
             prod'.pc = prod.pc \/ (prod.pc = "request" /\ prod'.pc = "answered"),
             prod'.pc = "request" => l # CacheListener
      PROVE  Inv'
  <2> USE <1>AttachStep
  <2> Types /\ Producer /\ Roll /\ Consumers /\ Sole
    BY DEF Inv
  <2>1. /\ DOMAIN lis' = Listeners /\ lis' = [m \in Listeners |-> lis'[m]]
        /\ lis'[l] = Subscribed /\ \A m \in Listeners \ {l} : lis'[m] = lis[m]
    BY DEF Attach, Types
  <2>2. /\ lis'[l] \in LisOf(lis'[l])
        /\ IF b.done
           THEN /\ lis'[l].closed = TRUE /\ lis'[l].termErr = b.err
                /\ lis'[l].ch = (IF b.err = "nil" THEN <<>> ELSE <<Chunk(NoBuf, b.err)>>)
           ELSE lis'[l].closed = FALSE /\ lis'[l].ch = <<>>
    BY <2>1, <1>SubscribedRecord
  <2>3. /\ con' \in [Listeners -> ConOf]
        /\ con'[l].pc = "headers" /\ con'[l].hold = con[l].hold /\ con'[l].out = con[l].out
        /\ con'[l].res = con[l].res /\ \A m \in Listeners \ {l} : con'[m] = con[m]
    <3>1. con \in [Listeners -> ConOf]
      BY DEF Types
    <3>2. PICK r \in ConOf : r = con[l]
      BY <3>1
    <3>3. PICK s : s = [r EXCEPT !.pc = "headers"]
      OBVIOUS
    <3>4. /\ s \in ConOf /\ s.pc = "headers" /\ s.hold = r.hold /\ s.out = r.out
          /\ s.res = r.res
      BY <3>2, <3>3 DEF ConOf
    <3>5. con' = [con EXCEPT ![l] = s]
      BY <3>2, <3>3
    <3> QED
      BY <3>1, <3>2, <3>4, <3>5
  <2>4. con[l].hold = NoBuf /\ con[l].out = <<>> /\ con[l].res # "ok" /\ lis[l].ch = <<>>
    BY DEF Consumers
  <2>5. /\ b' \in BOf(b') /\ b'.streaming = b.streaming /\ b'.done = b.done /\ b'.err = b.err
        /\ b'.listeners = IF b.done THEN b.listeners ELSE Append(b.listeners, l)
    <3>1. Append(b.listeners, l) \in Seq(Listeners) /\ b.err \in Errors /\ b \in BOf(b)
      BY OfBroadcaster, Pushing, SMT DEF Types
    <3>2. CASE b.done
      BY <3>1, <3>2 DEF Attach
    <3>3. CASE ~ b.done
      <4>1. PICK s \in Seq(Listeners) : s = Append(b.listeners, l)
        BY <3>1
      <4>2. b' = [b EXCEPT !.listeners = s]
        BY <3>3, <4>1 DEF Attach
      <4>3. /\ b' \in BOf(b') /\ b'.listeners = s
            /\ b'.streaming = b.streaming /\ b'.done = b.done /\ b'.err = b.err
        BY <3>1, <4>2, ListenersSet, SMT
      <4> QED
        BY <4>1, <4>3, <3>3
    <3> QED
      BY <3>2, <3>3
  <2>6. \A k \in 1..Len(lis'[l].ch) : k = Len(lis'[l].ch) /\ lis'[l].closed
                                      /\ lis'[l].ch[k].buf = NoBuf
    <3>1. CASE ~ b.done \/ b.err = "nil"
      BY <2>2, <3>1, SMT
    <3>2. CASE b.done /\ b.err # "nil"
      <4>1. Chunk(NoBuf, b.err).buf = NoBuf
        BY DEF Chunk
      <4>2. lis'[l].ch = <<Chunk(NoBuf, b.err)>> /\ lis'[l].closed
        BY <2>2, <3>2
      <4>3. Len(lis'[l].ch) = 1 /\ lis'[l].ch[1] = Chunk(NoBuf, b.err)
        BY <4>2, SMT
      <4> QED
        BY <4>1, <4>2, <4>3, SMT
    <3> QED
      BY <3>1, <3>2
  <2>7. /\ Len(b.listeners) \in Nat
        /\ \A k \in 1..Len(b'.listeners) :
             \/ k <= Len(b.listeners) /\ b'.listeners[k] = b.listeners[k]
                /\ b.listeners[k] \in Listeners \ {l}
             \/ k = Len(b.listeners) + 1 /\ b'.listeners[k] = l /\ ~ b.done
    <3>1. b.listeners \in Seq(Listeners)
      BY OfBroadcaster
    <3>2. \A k \in 1..Len(b.listeners) : b.listeners[k] \in Listeners \ {l}
      BY <3>1, SMT DEF Roll
    <3> QED
      BY <3>1, <3>2, <2>5, Pushing, SMT
  <2>8. Types'
    <3>1. Len(lis'[l].ch) <= ChannelBuf
      <4>1. lis'[l].ch \in Seq(Chunks)
        BY <2>2, Fields
      <4>2. Len(lis'[l].ch) \in Nat /\ (Len(lis'[l].ch) > 1 => 1 \in 1..Len(lis'[l].ch))
        BY <4>1, SMT
      <4>3. Len(lis'[l].ch) <= 1
        BY <4>2, <2>6, SMT
      <4> QED
        BY <4>2, <4>3, BroadcastAssumption, SMT
    <3>2. /\ DOMAIN lis' = Listeners /\ lis' = [m \in Listeners |-> lis'[m]]
          /\ \A m \in Listeners : lis'[m] \in LisOf(lis'[m]) /\ Len(lis'[m].ch) <= ChannelBuf
      BY <3>1, <2>1, <2>2 DEF Types
    <3> QED
      BY <3>2, <2>1, <2>3, <2>5 DEF Types
  <2>9. Producer'
    <3>1. prod'.pc = "request" => con'[CacheListener] = con[CacheListener]
      BY <2>3 DEF Listeners
    <3> QED
      BY <3>1, <2>5 DEF Producer
  <2>10. Roll'
    <3>1. \A i, k \in 1..Len(b'.listeners) : b'.listeners[i] = b'.listeners[k] => i = k
      BY <2>7, SMT DEF Roll
    <3>2. ASSUME NEW k \in 1..Len(b'.listeners)
          PROVE  /\ con'[b'.listeners[k]].pc \notin {"idle", "elsewhere"}
                 /\ prod'.pc \notin {"copy", "done"} => ~ lis'[b'.listeners[k]].closed
      BY <2>1, <2>2, <2>3, <2>7, SMT DEF Roll
    <3> QED
      BY <3>1, <3>2 DEF Roll
  <2>11. Loop'
    BY DEF Loop
  <2>12. Consumers'
    BY <2>1, <2>2, <2>3, <2>4, <2>6, SMT DEF Consumers
  <2>13. Streams'
    <3>1. Stream(l)'
      <4>1. prod.n = 0
        BY DEF Producer
      <4>2. Due(l)' = 0
        BY <4>1 DEF Due, Awaits
      <4>3. Fetched(l)' = 0 /\ DataIn(l)' = 0
        BY <2>2, <2>3, <2>4, <2>6, SMT DEF Fetched, DataIn
      <4> QED
        BY <4>1, <4>2, <4>3, <2>2, <2>3, <2>4, <2>5, <2>6, SMT DEF Stream
    <3>2. ASSUME NEW m \in Listeners \ {l} PROVE Stream(m)'
      <4>1. Live(m)' => Live(m)
        BY <2>7, SMT DEF Live
      <4>2. Due(m)' = Due(m)
        BY DEF Due, Awaits
      <4> QED
        BY <4>1, <4>2, <2>1, <2>3, <2>5, StreamKept, SMT
    <3> QED
      BY <3>1, <3>2 DEF Streams
  <2>14. Sole'
    <3>1. \A m \in Listeners : con'[m].hold = con[m].hold
      BY <2>3
    <3>2. \A m \in Listeners : \A k \in 1..Len(lis'[m].ch) :
            lis'[m].ch[k].buf # NoBuf => m # l /\ lis'[m] = lis[m]
      BY <2>1, <2>6, SMT
    <3>3. \A m \in Listeners : \A k \in 1..Len(lis[m].ch) : m # l /\ lis'[m] = lis[m]
      BY <2>1, <2>4, SMT
    <3>4. ASSUME NEW x \in Bufs
          PROVE  \/ x \in free'
                 \/ prod'.buf = x
                 \/ \E m \in Listeners : con'[m].hold = x
                 \/ \E m \in Listeners : \E k \in 1..Len(lis'[m].ch) : lis'[m].ch[k].buf = x
      <4>1. CASE \E m \in Listeners : \E k \in 1..Len(lis[m].ch) : lis[m].ch[k].buf = x
        BY <4>1, <3>3, SMT
      <4>2. CASE ~ \E m \in Listeners : \E k \in 1..Len(lis[m].ch) : lis[m].ch[k].buf = x
        BY <4>2, <3>1, SMT DEF Sole, HeldOnce, QueuedOnce, Somewhere
      <4> QED
        BY <4>1, <4>2
    <3>5. ASSUME NEW m \in Listeners, NEW k \in 1..Len(lis'[m].ch), lis'[m].ch[k].buf # NoBuf
          PROVE  /\ lis'[m].ch[k].buf \notin free' /\ lis'[m].ch[k].buf # prod'.buf
                 /\ \A n \in Listeners : con'[n].hold # lis'[m].ch[k].buf
                 /\ \A n \in Listeners : \A j \in 1..Len(lis'[n].ch) :
                      lis'[n].ch[j].buf = lis'[m].ch[k].buf => n = m /\ j = k
      <4>1. lis'[m] = lis[m] /\ lis'[m].ch[k].buf = lis[m].ch[k].buf /\ k \in 1..Len(lis[m].ch)
        BY <3>2, <3>5
      <4>2. ASSUME NEW n \in Listeners, NEW j \in 1..Len(lis'[n].ch),
                   lis'[n].ch[j].buf = lis'[m].ch[k].buf
            PROVE  n = m /\ j = k
        <5>1. lis'[n] = lis[n]
          BY <3>2, <3>5, <4>2
        <5> QED
          BY <5>1, <4>1, <4>2, <3>5, SMT DEF Sole, HeldOnce, QueuedOnce, Somewhere
      <4> QED
        BY <4>1, <4>2, <3>1, <3>5, SMT DEF Sole, HeldOnce, QueuedOnce, Somewhere
    <3>6. ASSUME NEW m \in Listeners, con'[m].hold # NoBuf
          PROVE  /\ con'[m].hold \notin free' /\ con'[m].hold # prod'.buf
                 /\ \A n \in Listeners : con'[n].hold = con'[m].hold => n = m
      BY <3>1, <3>6, SMT DEF Sole, HeldOnce, QueuedOnce, Somewhere
    <3>7. prod'.buf \notin free'
      BY DEF Sole, HeldOnce, QueuedOnce, Somewhere
    <3> QED
      BY <3>4, <3>5, <3>6, <3>7 DEF Sole, HeldOnce, QueuedOnce, Somewhere
  <2> QED
    BY <2>8, <2>9, <2>10, <2>11, <2>12, <2>13, <2>14 DEF Inv
<1>SubscribeStep. ASSUME NEW c \in Clients PROVE Inv /\ Subscribe(c) => Inv'
  <2> USE <1>SubscribeStep
  <2> SUFFICES ASSUME Inv, Subscribe(c) PROVE Inv'
    OBVIOUS
  <2> Types /\ Consumers
    BY DEF Inv
  <2>0. c \in Listeners /\ c # CacheListener
    BY BroadcastAssumption DEF Listeners
  <2>1. con[c] \in ConOf /\ con[c].hold = NoBuf /\ con[c].out = <<>> /\ con[c].res # "ok"
    BY <2>0, OfConsumer DEF Consumers, Subscribe
  <2>2. CASE b.streaming
    <3>1. con' = [con EXCEPT ![c].pc = "elsewhere"]
      BY <2>2 DEF Subscribe
    <3>2. /\ con' \in [Listeners -> ConOf] /\ \A m \in Listeners \ {c} : con'[m] = con[m]
          /\ con'[c].pc = "elsewhere" /\ con'[c].hold = con[c].hold
          /\ con'[c].out = con[c].out /\ con'[c].res = con[c].res
      BY <3>1, <2>0, <2>1 DEF Types, ConOf
    <3>3. Stream(c)'
      BY <3>2 DEF Stream
    <3> QED
      BY <3>2, <3>3, <2>0, <2>1, <2>2, ConsumerMoves DEF Subscribe
  <2>3. CASE ~ b.streaming
    <3>1. prod \in ProdOf
      BY OfProducer
    <3> QED
      BY <3>1, <2>0, <2>3, <1>AttachStep DEF Subscribe, Unlocked
  <2> QED
    BY <2>2, <2>3
<1>RequestAnsweredStep. Inv /\ RequestAnswered => Inv'
  <2> SUFFICES ASSUME Inv, RequestAnswered PROVE Inv'
    OBVIOUS
  <2> Types /\ Producer /\ Roll /\ Loop /\ Consumers /\ Sole
    BY DEF Inv
  <2>0. CacheListener \in Listeners
    BY DEF Listeners
  <2>1. /\ prod.pc = "request"
        /\ prod' \in ProdOf /\ prod'.pc = "answered" /\ prod'.end = prod.end
        /\ prod'.buf = prod.buf /\ prod'.n = prod.n /\ prod'.i = prod.i
        /\ prod'.owner = prod.owner /\ prod'.pos = prod.pos /\ prod'.kept = prod.kept
    BY OfProducer DEF RequestAnswered, ProdOf
  <2>2. CASE Attach(CacheListener) /\ con' = [con EXCEPT ![CacheListener].pc = "headers"]
    <3>1. ASSUME b.streaming PROVE FALSE
      BY <3>1, <2>1 DEF Producer
    <3>2. con[CacheListener].pc = "idle"
      BY <2>1 DEF Producer
    <3> QED
      BY <3>1, <3>2, <2>0, <2>1, <2>2, <1>AttachStep DEF RequestAnswered
  <2>3. CASE UNCHANGED <<b, lis, con>>
    <3>0. UNCHANGED <<setup, mem, free>>
      BY DEF RequestAnswered
    <3>1. Types'
      BY <2>1, <2>3, <3>0 DEF Types
    <3>2. Producer'
      BY <2>1, <2>3, <3>0 DEF Producer
    <3>3. Roll' /\ Loop' /\ Consumers'
      BY <2>1, <2>3, SMT DEF Roll, Loop, Consumers
    <3>4. Streams'
      <4>1. \A l \in Listeners : Live(l)' => Live(l) /\ Due(l)' = Due(l)
        BY <2>1, <2>3 DEF Live, Due, Awaits
      <4> QED
        BY <4>1, <2>1, <2>3, <3>0, StreamKept DEF Streams
    <3>5. Sole'
      BY <2>1, <2>3, <3>0, SMT DEF Sole, HeldOnce, QueuedOnce, Somewhere
    <3> QED
      BY <3>1, <3>2, <3>3, <3>4, <3>5 DEF Inv
  <2> QED
    BY <2>2, <2>3 DEF RequestAnswered
<1> QED
  BY <1>SubscribeStep, <1>RequestAnsweredStep

(***************************************************************************)
(* The fetch goroutine.                                                     *)
(***************************************************************************)
LEMMA Leased ==
    ASSUME Inv, PoolLeft
    PROVE  Lease \in free /\ Lease \in Bufs /\ Lease # NoBuf
<1> Types
  BY DEF Inv
<1>1. free \subseteq Bufs /\ \E x : x \in free
  BY DEF Types, PoolLeft
<1>2. Lease \in free
  BY <1>1 DEF Lease
<1> QED
  BY <1>1, <1>2, OfBroadcaster

LEMMA SetHeadersStep == Inv /\ SetHeaders => Inv'
<1>HeaderSet.
      ASSUME NEW r, r \in BOf(r), NEW q, q = [r EXCEPT !.headerSet = TRUE]
      PROVE  /\ q \in BOf(q) /\ q.listeners = r.listeners
             /\ q.streaming = r.streaming /\ q.done = r.done /\ q.err = r.err
  BY <1>HeaderSet DEF BOf
<1>ReadyRecord.
      ASSUME NEW r, r \in LisOf(r), NEW q, q = [r EXCEPT !.ready = TRUE]
      PROVE  q \in LisOf(q) /\ q.ch = r.ch /\ q.closed = r.closed /\ q.termErr = r.termErr
  BY <1>ReadyRecord DEF LisOf
<1> SUFFICES ASSUME Inv, SetHeaders PROVE Inv'
  OBVIOUS
<1> Types /\ Producer /\ Roll /\ Consumers /\ Streams /\ Sole
  BY DEF Inv
<1>0. prod.pc = "answered" /\ PoolLeft /\ UNCHANGED <<setup, con, mem>>
  BY DEF SetHeaders
<1>1. PICK x \in Bufs : x = Lease /\ x \in free /\ x # NoBuf
  BY <1>0, Leased
<1>2. free' = free \ {x}
  BY <1>1 DEF SetHeaders
<1>3. /\ prod' \in ProdOf /\ prod'.pc = "read" /\ prod'.buf = x /\ prod'.end = prod.end
      /\ prod'.n = prod.n /\ prod'.i = prod.i
      /\ prod'.owner = prod.owner /\ prod'.pos = prod.pos /\ prod'.kept = prod.kept
  <2>1. prod' = [prod EXCEPT !.pc = "read", !.buf = x]
    BY <1>1 DEF SetHeaders
  <2> QED
    BY <2>1, OfProducer DEF ProdOf
<1>4. /\ b' \in BOf(b') /\ b'.listeners = b.listeners
      /\ b'.streaming = b.streaming /\ b'.done = b.done /\ b'.err = b.err
  <2>1. b \in BOf(b) /\ b' = [b EXCEPT !.headerSet = TRUE]
    BY DEF Types, SetHeaders
  <2> QED
    BY <2>1, <1>HeaderSet
<1>5. ASSUME NEW l \in Listeners
      PROVE  /\ lis'[l] \in LisOf(lis'[l]) /\ lis'[l].ch = lis[l].ch
             /\ lis'[l].closed = lis[l].closed /\ lis'[l].termErr = lis[l].termErr
  <2>1. lis[l] \in LisOf(lis[l])
    BY OfListener
  <2>2. lis'[l] = lis[l] \/ lis'[l] = [lis[l] EXCEPT !.ready = TRUE]
    BY DEF SetHeaders
  <2> QED
    BY <2>1, <2>2, <1>ReadyRecord
<1>6. DOMAIN lis' = Listeners /\ lis' = [m \in Listeners |-> lis'[m]]
  BY DEF SetHeaders
<1>7. Types'
  BY <1>0, <1>2, <1>3, <1>4, <1>5, <1>6 DEF Types
<1>8. Producer'
  BY <1>0, <1>3, <1>4 DEF Producer
<1>9. Roll'
  <2>1. \A k \in 1..Len(b.listeners) : b.listeners[k] \in Listeners
    BY OfBroadcaster, SMT
  <2> QED
    BY <2>1, <1>0, <1>3, <1>4, <1>5, SMT DEF Roll
<1>10. Loop'
  BY <1>3 DEF Loop
<1>11. Consumers'
  BY <1>0, <1>5, SMT DEF Consumers
<1>12. Streams'
  <2> SUFFICES ASSUME NEW l \in Listeners PROVE Stream(l)'
    BY DEF Streams
  <2>1. Live(l)' = Live(l)
    BY <1>4 DEF Live
  <2>2. Due(l)' = Due(l)
    BY <1>0, <1>3 DEF Due, Awaits
  <2>3. Fetched(l)' = Fetched(l) /\ DataIn(l)' = DataIn(l)
    BY <1>0, <1>5 DEF Fetched, DataIn
  <2> QED
    BY <2>1, <2>2, <2>3, <1>0, <1>3, <1>4, <1>5, SMT DEF Streams, Stream
<1>13. Sole'
  <2>1. prod.buf = NoBuf
    BY <1>0 DEF Producer
  <2> QED
    <3>1. HeldOnce'
      BY <1>0, <1>1, <1>2, <1>3 DEF Sole, HeldOnce
    <3>0. \A l \in Listeners : lis'[l].ch = lis[l].ch /\ con'[l].hold = con[l].hold
      BY <1>0, <1>5
    <3>2. QueuedOnce'
      <4>1. \A y : y \notin free => y \notin free' /\ y # prod'.buf
        BY <1>1, <1>2, <1>3
      <4>2. \A l \in Listeners : \A k \in 1..Len(lis[l].ch) : lis[l].ch[k].buf # NoBuf =>
              /\ lis[l].ch[k].buf \notin free' /\ lis[l].ch[k].buf # prod'.buf
              /\ \A m \in Listeners : con'[m].hold # lis[l].ch[k].buf
        BY <4>1, <3>0, SMT DEF Sole, QueuedOnce
      <4> QED
        BY <3>0, <4>2, QueuesKept
    <3>3. ASSUME NEW y \in Bufs PROVE Somewhere(y)'
      <4>1. Somewhere(y) /\ prod.buf # y
        BY <2>1, OfBroadcaster DEF Sole
      <4> QED
        BY <4>1, <1>0, <1>1, <1>2, <1>3, <1>5 DEF Somewhere
    <3> QED
      BY <3>1, <3>2, <3>3, <1>2, <1>3 DEF Sole
<1> QED
  BY <1>7, <1>8, <1>9, <1>10, <1>11, <1>12, <1>13 DEF Inv

LEMMA ReadDataStep == Inv /\ ReadData => Inv'
<1>StreamingSet.
      ASSUME NEW r, r \in BOf(r), NEW q, q = [r EXCEPT !.streaming = TRUE]
      PROVE  /\ q \in BOf(q) /\ q.listeners = r.listeners
             /\ q.streaming = TRUE /\ q.done = r.done /\ q.err = r.err
  BY <1>StreamingSet DEF BOf
<1> SUFFICES ASSUME Inv, ReadData PROVE Inv'
  OBVIOUS
<1> Types /\ Producer /\ Roll /\ Consumers /\ Sole
  BY DEF Inv
<1>0. prod.pc = "read" /\ prod.n < setup.chunks /\ UNCHANGED <<setup, lis, con, free>>
  BY DEF ReadData
<1>1. PICK e \in {"more", "eof", "failed"}, pc \in {"scan", "copy"} :
        prod' = [prod EXCEPT !.pc = pc, !.n = @ + 1, !.end = e]
  BY DEF ReadData
<1>2. setup.chunks \in 0..MaxChunks
  BY BroadcastAssumption DEF Types, SetupTypes
<1>3. prod.n + 1 \in 0..MaxChunks /\ prod.n + 1 <= setup.chunks /\ prod.n + 1 > 0
  BY <1>0, <1>2, OfProducer, BroadcastAssumption, SMT
<1>4. /\ prod' \in ProdOf /\ prod'.pc = pc /\ prod'.buf = prod.buf /\ prod'.end = e
      /\ prod'.n = prod.n + 1 /\ prod'.i = prod.i
      /\ prod'.owner = prod.owner /\ prod'.pos = prod.pos /\ prod'.kept = prod.kept
  BY <1>1, <1>3, OfProducer DEF ProdOf
<1>5. prod.buf \in Bufs /\ prod.owner = 0 /\ prod.pos = 0 /\ prod.kept = <<>> /\ prod.i = 1
  BY <1>0 DEF Producer
<1>6. /\ mem' \in [Bufs -> 0..MaxChunks] /\ mem'[prod.buf] = prod.n + 1
      /\ \A x \in Bufs : x # prod.buf => mem'[x] = mem[x]
  BY <1>3, <1>5 DEF Types, ReadData
<1>7. /\ b' \in BOf(b') /\ b'.listeners = b.listeners
      /\ b'.streaming = TRUE /\ b'.done = b.done /\ b'.err = b.err
  <2>1. b \in BOf(b) /\ b' = [b EXCEPT !.streaming = TRUE]
    BY DEF Types, ReadData
  <2> QED
    BY <2>1, <1>StreamingSet
<1>8. Types'
  BY <1>0, <1>4, <1>6, <1>7 DEF Types
<1>9. Producer'
  BY <1>0, <1>3, <1>4, <1>5, <1>6, <1>7 DEF Producer
<1>10. Roll'
  BY <1>0, <1>4, <1>7, SMT DEF Roll
<1>11. Loop'
  <2>1. b.listeners \in Seq(Listeners) /\ Len(b.listeners) \in Nat
    BY OfBroadcaster, SMT
  <2>2. ASSUME NEW k \in 1..Len(b'.listeners)
        PROVE  ~ Copied(k)' /\ ~ lis'[b'.listeners[k]].closed
    BY <2>1, <1>0, <1>4, <1>5, <1>7, SMT DEF Roll, Copied
  <2> QED
    BY <2>1, <2>2, <1>4, <1>5, <1>7, SMT DEF Loop
<1>12. Consumers'
  BY <1>0 DEF Consumers
<1>13. Streams'
  <2> SUFFICES ASSUME NEW l \in Listeners PROVE Stream(l)'
    BY DEF Streams
  <2>1. Live(l)' = Live(l)
    BY <1>7 DEF Live
  <2>2. Due(l)' = Due(l)
    BY <1>0, <1>4, <1>5, OfProducer, SMT DEF Due, Awaits
  <2>3. con[l].hold # NoBuf => con[l].hold \in Bufs /\ con[l].hold # prod.buf
    BY OfConsumer DEF Sole, HeldOnce, QueuedOnce, Somewhere
  <2>4. \A k \in 1..Len(lis[l].ch) : lis[l].ch[k].buf # NoBuf =>
          lis[l].ch[k].buf \in Bufs /\ lis[l].ch[k].buf # prod.buf
    BY OfListener, ZenonT(60) DEF Sole, HeldOnce, QueuedOnce, Somewhere
  <2>5. ~ b.done
    BY <1>0 DEF Producer
  <2> QED
    BY <2>1, <2>2, <2>3, <2>4, <2>5, <1>0, <1>6, StreamKept
<1>14. Sole'
  BY <1>0, <1>4, SMT DEF Sole, HeldOnce, QueuedOnce, Somewhere
<1> QED
  BY <1>8, <1>9, <1>10, <1>11, <1>12, <1>13, <1>14 DEF Inv

\* Within broadcast() until a listener is sent the chunk: nothing but the progress
\* of the loops changes.
LEMMA ScanOwnerStep == Inv /\ ScanOwner => Inv'
<1> SUFFICES ASSUME Inv, ScanOwner PROVE Inv'
  OBVIOUS
<1> Types /\ Producer /\ Roll /\ Consumers /\ Sole
  BY DEF Inv
<1>0. prod.pc = "scan" /\ UNCHANGED <<setup, b, lis, con, mem, free>>
  BY DEF ScanOwner
<1>1. prod.owner = 0 /\ prod.pos = 0 /\ prod.kept = <<>>
  BY <1>0 DEF Producer
<1>2. b.listeners \in Seq(Listeners) /\ Len(b.listeners) \in Nat
  BY OfBroadcaster, SMT
<1>3. /\ prod' \in ProdOf /\ prod'.buf = prod.buf /\ prod'.end = prod.end
      /\ prod'.n = prod.n /\ prod'.pos = prod.pos /\ prod'.kept = prod.kept
      /\ \/ prod'.pc = "scan" /\ prod'.owner = 0
         \/ /\ prod'.pc = "copy" /\ prod'.owner <= Len(b.listeners)
            /\ prod'.i = (IF prod'.owner = 1 THEN 2 ELSE 1)
            /\ prod'.owner # 0 => HasRoom(b.listeners[prod'.owner])
  <2>1. CASE prod' = [prod EXCEPT !.i = @ + 1]
    BY <2>1, <1>0, <1>1, OfProducer, SMT DEF ProdOf
  <2>2. ASSUME NEW o \in Nat, StartCopies(o), o <= Len(b.listeners),
               o # 0 => HasRoom(b.listeners[o])
        PROVE  /\ prod' \in ProdOf /\ prod'.buf = prod.buf /\ prod'.end = prod.end
               /\ prod'.n = prod.n /\ prod'.pos = prod.pos /\ prod'.kept = prod.kept
               /\ prod'.pc = "copy" /\ prod'.owner = o
               /\ prod'.i = IF o = 1 THEN 2 ELSE 1
    <3>1. PICK i \in Nat \ {0} : i = IF o = 1 THEN 2 ELSE 1
      BY SMT
    <3>2. prod' = [prod EXCEPT !.pc = "copy", !.owner = o, !.i = i]
      BY <2>2, <3>1 DEF StartCopies
    <3>3. /\ prod' \in ProdOf /\ prod'.buf = prod.buf /\ prod'.end = prod.end
          /\ prod'.n = prod.n /\ prod'.pos = prod.pos /\ prod'.kept = prod.kept
          /\ prod'.pc = "copy" /\ prod'.owner = o /\ prod'.i = i
      BY <3>2, OfProducer DEF ProdOf
    <3> QED
      BY <3>1, <3>3
  <2>3. \/ prod' = [prod EXCEPT !.i = @ + 1]
        \/ StartCopies(0)
        \/ StartCopies(prod.i) /\ prod.i <= Len(b.listeners) /\ HasRoom(b.listeners[prod.i])
    BY <1>2, OfProducer, SMT DEF ScanOwner
  <2>4. CASE StartCopies(0)
    BY <2>4, <2>2, <1>2, SMT
  <2>5. CASE StartCopies(prod.i) /\ prod.i <= Len(b.listeners) /\ HasRoom(b.listeners[prod.i])
    BY <2>5, <2>2, OfProducer
  <2> QED
    BY <2>1, <2>3, <2>4, <2>5
<1>4. Types'
  BY <1>0, <1>3 DEF Types
<1>5. Producer'
  BY <1>0, <1>1, <1>3 DEF Producer
<1>6. Roll'
  BY <1>0, <1>3 DEF Roll
<1>7. Loop'
  <2> SUFFICES ASSUME prod'.pc = "copy" PROVE Loop'
    BY DEF Loop
  <2>1. ASSUME NEW k \in 1..Len(b'.listeners)
        PROVE  ~ Copied(k)' /\ ~ lis'[b'.listeners[k]].closed
    BY <1>0, <1>2, <1>3, SMT DEF Roll, Copied
  <2>2. prod'.owner \in Nat /\ prod'.i # prod'.owner /\ prod'.pos = 0 /\ prod'.kept = <<>>
    BY <1>1, <1>3, SMT DEF ProdOf
  <2>3. prod'.owner # 0 => HasRoom(b.listeners[prod.owner])'
    BY <1>0, <1>3 DEF HasRoom
  <2> QED
    <3>1. /\ prod'.owner <= Len(b'.listeners) /\ prod'.pos <= Len(prod'.kept)
          /\ \A m \in 1..Len(prod'.kept) : FALSE
      BY <2>2, <1>0, <1>3, SMT
    <3> QED
      BY <2>1, <2>2, <2>3, <3>1 DEF Loop
<1>8. Consumers'
  BY <1>0 DEF Consumers
<1>9. Streams'
  <2>1. \A l \in Listeners : Live(l)' => Live(l) /\ Due(l)' = Due(l)
    BY <1>0, <1>1, <1>3, SMT DEF Live, Due, Awaits
  <2> QED
    BY <2>1, <1>0, <1>3, StreamKept DEF Streams
<1>10. Sole'
  BY <1>0, <1>3, SMT DEF Sole, HeldOnce, QueuedOnce, Somewhere
<1> QED
  BY <1>4, <1>5, <1>6, <1>7, <1>8, <1>9, <1>10 DEF Inv

\* The copy loop passes one listener, kept or closed.
Passes(l) ==
    /\ prod'.i = IF prod.i + 1 = prod.owner THEN prod.i + 2 ELSE prod.i + 1
    /\ \/ /\ prod'.kept = prod.kept /\ prod'.pos = prod.pos /\ lis'[l].closed = TRUE
       \/ /\ prod'.kept = Append(prod.kept, l) /\ prod'.pos \in {prod.pos, prod.pos + 1}
          /\ ~ lis'[l].closed

\* The steps of broadcast(): a copy to a listener, and the input buffer back to
\* the fetch goroutine or on to the owner.
LEMMA CopySteps ==
    Inv /\ (CopyToListener \/ KeepInput \/ HandOver) => Inv'
<1>Sending.
      ASSUME NEW r, r \in LisOf(r), NEW ch \in Seq(Chunks), NEW q, q = [r EXCEPT !.ch = ch]
      PROVE  /\ q \in LisOf(q)
             /\ q.ch = ch /\ q.closed = r.closed /\ q.termErr = r.termErr
  BY <1>Sending DEF LisOf
<1>Push.
      ASSUME Inv, NEW l \in Listeners, NEW x \in Bufs, HasRoom(l),
             lis' = [lis EXCEPT ![l].ch = Append(@, Chunk(x, "nil"))]
      PROVE  Pushes(l, x)
  <2> USE <1>Push
  <2> Types
    BY DEF Inv
  <2>1. PICK c : c = Chunk(x, "nil") /\ c \in Chunks /\ c.buf = x /\ c.err = "nil"
    <3>1. Chunk(x, "nil") \in Chunks /\ Chunk(x, "nil").buf = x /\ Chunk(x, "nil").err = "nil"
      BY DEF Chunk, Chunks, Errors
    <3> QED
      BY <3>1
  <2>2. PICK ch \in Seq(Chunks) :
                  /\ ch = Append(lis[l].ch, c)
                  /\ Len(ch) = Len(lis[l].ch) + 1
                  /\ \A k \in 1..Len(lis[l].ch) : ch[k] = lis[l].ch[k]
                  /\ ch[Len(lis[l].ch) + 1] = c
    <3>1. /\ Append(lis[l].ch, c) \in Seq(Chunks)
          /\ Len(Append(lis[l].ch, c)) = Len(lis[l].ch) + 1
          /\ \A k \in 1..Len(lis[l].ch) : Append(lis[l].ch, c)[k] = lis[l].ch[k]
          /\ Append(lis[l].ch, c)[Len(lis[l].ch) + 1] = c
      BY <2>1, OfListener, Pushing, SMT
    <3> QED
      BY <3>1
  <2>3. /\ DOMAIN lis' = Listeners /\ lis' = [m \in Listeners |-> lis'[m]]
        /\ \A m \in Listeners \ {l} : lis'[m] = lis[m]
        /\ lis'[l] = [lis[l] EXCEPT !.ch = ch]
    BY <2>1, <2>2 DEF Types
  <2>4. lis[l] \in LisOf(lis[l])
    BY OfListener
  <2>5. /\ lis'[l] \in LisOf(lis'[l]) /\ lis'[l].ch = ch
        /\ lis'[l].closed = lis[l].closed /\ lis'[l].termErr = lis[l].termErr
    <3>1. PICK r, q : r = lis[l] /\ q = lis'[l]
      OBVIOUS
    <3>2. r \in LisOf(r) /\ q = [r EXCEPT !.ch = ch]
      BY <2>3, <2>4, <3>1
    <3>3. /\ q \in LisOf(q) /\ q.ch = ch /\ q.closed = r.closed /\ q.termErr = r.termErr
      BY <3>2, <1>Sending, SMT
    <3> QED
      BY <3>1, <3>3
  <2>6. Len(lis[l].ch) + 1 <= ChannelBuf
    BY OfListener, BroadcastAssumption, SMT DEF HasRoom
  <2> QED
    BY <2>1, <2>2, <2>3, <2>5, <2>6, SMT DEF Pushes
\* What it does to the channels.
<1>PushedConsumers.
      ASSUME Inv, NEW l \in Listeners, NEW x \in Bufs, Pushes(l, x), con' = con,
             ~ lis[l].closed, con[l].pc \notin {"idle", "elsewhere"}
      PROVE  Consumers'
  <2> USE <1>PushedConsumers
  <2> Consumers
    BY DEF Inv
  <2> SUFFICES ASSUME NEW m \in Listeners
               PROVE  /\ \A k \in 1..Len(lis'[m].ch) :
                           /\ lis'[m].ch[k].buf = NoBuf => k = Len(lis'[m].ch) /\ lis'[m].closed
                           /\ lis'[m].ch[k].buf # NoBuf => lis'[m].ch[k].err = "nil"
                      /\ con'[m].hold = NoBuf <=> con'[m].pc # "write"
                      /\ con'[m].pc \in {"idle", "elsewhere"} => lis'[m].ch = <<>>
                      /\ con'[m].pc \in {"idle", "elsewhere", "headers"} => con'[m].out = <<>>
                      /\ con'[m].res = "ok" => con'[m].pc = "drain"
    BY DEF Consumers
  <2>1. CASE m # l
    BY <2>1, SMT DEF Consumers, Pushes
  <2>2. CASE m = l
    <3>1. ASSUME NEW k \in 1..Len(lis'[l].ch)
          PROVE  lis'[l].ch[k].buf # NoBuf /\ lis'[l].ch[k].err = "nil"
      <4>1. CASE k = Len(lis[l].ch) + 1
        BY <4>1, OfBroadcaster DEF Pushes
      <4>2. CASE k # Len(lis[l].ch) + 1
        <5>1. k \in 1..Len(lis[l].ch) /\ lis'[l].ch[k] = lis[l].ch[k]
          BY <4>2, OfListener, SMT DEF Pushes
        <5> QED
          BY <5>1, SMT DEF Consumers
      <4> QED
        BY <4>1, <4>2
    <3> QED
      BY <3>1, <2>2 DEF Consumers
  <2> QED
    BY <2>1, <2>2
<1>PushedOnce.
      ASSUME Inv, NEW l \in Listeners, NEW x \in Bufs, Pushes(l, x), con' = con,
             x \in free \/ x = prod.buf, free' \subseteq free, x \notin free',
             prod'.buf # x, prod'.buf = prod.buf \/ prod'.buf \in free \/ prod'.buf = NoBuf
      PROVE  HeldOnce' /\ QueuedOnce'
  <2> USE <1>PushedOnce
  <2> Sole
    BY DEF Inv
  <2>0. /\ x # NoBuf /\ \A m \in Listeners : con[m].hold # x
        /\ \A m \in Listeners : \A k \in 1..Len(lis[m].ch) : lis[m].ch[k].buf # x
    <3>1. x # NoBuf
      BY OfBroadcaster
    <3>2. \A m \in Listeners : con[m].hold # x
      BY <3>1 DEF Sole, HeldOnce
    <3>3. \A m \in Listeners : \A k \in 1..Len(lis[m].ch) : lis[m].ch[k].buf # x
      BY <3>1, SMT DEF Sole, QueuedOnce
    <3> QED
      BY <3>1, <3>2, <3>3
  <2>1. HeldOnce'
    BY DEF Sole, HeldOnce
  <2>2. ASSUME NEW m \in Listeners, NEW k \in 1..Len(lis'[m].ch)
        PROVE  \/ m = l /\ k = Len(lis[l].ch) + 1 /\ lis'[m].ch[k].buf = x
               \/ k \in 1..Len(lis[m].ch) /\ lis'[m].ch[k] = lis[m].ch[k]
    <3>1. CASE m = l
      <4>1. Len(lis[l].ch) \in Nat /\ Len(lis'[l].ch) = Len(lis[l].ch) + 1
        BY OfListener DEF Pushes
      <4>2. k = Len(lis[l].ch) + 1 \/ k \in 1..Len(lis[l].ch)
        BY <4>1, <3>1, SMT
      <4> QED
        BY <4>2, <3>1 DEF Pushes
    <3>2. CASE m # l
      BY <3>2 DEF Pushes
    <3> QED
      BY <3>1, <3>2
  <2>3. QueuedOnce'
    <3> SUFFICES ASSUME NEW m \in Listeners, NEW k \in 1..Len(lis'[m].ch),
                        lis'[m].ch[k].buf # NoBuf
                 PROVE  /\ lis'[m].ch[k].buf \notin free' /\ lis'[m].ch[k].buf # prod'.buf
                        /\ \A n \in Listeners : con'[n].hold # lis'[m].ch[k].buf
                        /\ \A n \in Listeners : \A j \in 1..Len(lis'[n].ch) :
                             lis'[n].ch[j].buf = lis'[m].ch[k].buf => n = m /\ j = k
      BY DEF QueuedOnce
    <3>1. CASE m = l /\ k = Len(lis[l].ch) + 1 /\ lis'[m].ch[k].buf = x
      <4>1. ASSUME NEW n \in Listeners, NEW j \in 1..Len(lis'[n].ch), lis'[n].ch[j].buf = x
            PROVE  n = m /\ j = k
        <5>1. \/ n = l /\ j = Len(lis[l].ch) + 1
              \/ j \in 1..Len(lis[n].ch) /\ lis'[n].ch[j] = lis[n].ch[j]
          BY <2>2
        <5> QED
          BY <2>0, <3>1, <4>1, <5>1
      <4> QED
        BY <3>1, <4>1, <2>0
    <3>2. CASE k \in 1..Len(lis[m].ch) /\ lis'[m].ch[k] = lis[m].ch[k]
      <4>1. lis[m].ch[k].buf # x
        BY <2>0, <3>2
      <4>2. /\ lis[m].ch[k].buf \notin free /\ lis[m].ch[k].buf # prod.buf
            /\ \A n \in Listeners : con[n].hold # lis[m].ch[k].buf
        BY <3>2 DEF Sole, QueuedOnce
      <4>3. ASSUME NEW n \in Listeners, NEW j \in 1..Len(lis'[n].ch),
                   lis'[n].ch[j].buf = lis[m].ch[k].buf
            PROVE  n = m /\ j = k
        <5>1. j \in 1..Len(lis[n].ch) /\ lis'[n].ch[j] = lis[n].ch[j]
          BY <2>2, <4>1, <4>3
        <5> QED
          BY <5>1, <4>3, <3>2, SMT DEF Sole, QueuedOnce
      <4> QED
        BY <3>2, <4>1, <4>2, <4>3
    <3> QED
      BY <2>2, <3>1, <3>2
  <2> QED
    BY <2>1, <2>3
<1>PushedSomewhere.
      ASSUME Inv, NEW l \in Listeners, NEW x \in Bufs, Pushes(l, x), con' = con,
             NEW y \in Bufs, Somewhere(y), y \in free => y \in free' \/ prod'.buf = y \/ y = x,
             prod.buf = y => prod'.buf = y \/ y = x
      PROVE  Somewhere(y)'
  <2> USE <1>PushedSomewhere
  <2>1. CASE y = x
    <3>1. Len(lis[l].ch) + 1 \in 1..Len(lis'[l].ch) /\ lis'[l].ch[Len(lis[l].ch) + 1].buf = x
      BY OfListener, SMT DEF Pushes
    <3> QED
      BY <3>1, <2>1 DEF Somewhere
  <2>2. CASE \E m \in Listeners : \E k \in 1..Len(lis[m].ch) : lis[m].ch[k].buf = y
    <3>1. PICK m \in Listeners : \E k \in 1..Len(lis[m].ch) : lis[m].ch[k].buf = y
      BY <2>2
    <3>2. PICK k \in 1..Len(lis[m].ch) : lis[m].ch[k].buf = y
      BY <3>1
    <3>3. k \in 1..Len(lis'[m].ch) /\ lis'[m].ch[k] = lis[m].ch[k]
      BY OfListener, SMT DEF Pushes
    <3> QED
      BY <3>2, <3>3 DEF Somewhere
  <2>3. CASE y \in free \/ prod.buf = y \/ \E m \in Listeners : con[m].hold = y
    BY <2>1, <2>3 DEF Somewhere
  <2> QED
    BY <2>2, <2>3 DEF Somewhere
\* The chunk that was due continues the listener's stream.
<1>PushedStream.
      ASSUME Inv, NEW l \in Listeners, NEW x \in Bufs, Pushes(l, x), con'[l] = con[l],
             x \in free \/ x = prod.buf, mem'[x] = prod.n,
             \A y \in Bufs \ {x} : mem'[y] = mem[y],
             ~ lis[l].closed, Live(l), Due(l) = prod.n - 1, Due(l)' = prod.n,
             b'.done = b.done, b'.err = b.err, prod'.n = prod.n
      PROVE  Stream(l)'
  <2> USE <1>PushedStream
  <2> Consumers /\ Streams /\ Sole
    BY DEF Inv
  <2>0. /\ con[l].hold # NoBuf => con[l].hold \in Bufs \ {x}
        /\ \A k \in 1..Len(lis[l].ch) :
             lis[l].ch[k].buf # NoBuf => lis[l].ch[k].buf \in Bufs \ {x}
    BY OfConsumer, OfListener, SMT DEF Sole, HeldOnce, QueuedOnce
  <2>1. Fetched(l)' = Fetched(l) /\ Fetched(l) \in Nat
    <3>1. Len(con[l].out) \in Nat
      BY OfConsumer
    <3>2. PICK w \in 0..1 : w = IF con[l].pc = "write" THEN 1 ELSE 0
      BY SMT
    <3>3. Fetched(l) = Len(con[l].out) + w
      BY <3>2 DEF Fetched
    <3>4. Fetched(l)' = Fetched(l)
      BY DEF Fetched
    <3> QED
      BY <3>1, <3>3, <3>4, SMT
  <2>2. Stream(l) /\ (con[l].pc = "write" => con[l].hold # NoBuf)
    BY DEF Streams, Consumers
  <2>3. CASE con[l].pc \in {"headers", "receive", "write"}
    <3>1. Fetched(l) + Len(lis[l].ch) = prod.n - 1
      BY <2>2, <2>3 DEF Stream
    <3>2. Fetched(l)' + Len(lis'[l].ch) = prod.n
      <4>1. Len(lis[l].ch) \in Nat /\ prod.n \in Nat
        BY OfListener, OfProducer
      <4>2. Len(lis'[l].ch) = Len(lis[l].ch) + 1
        BY DEF Pushes
      <4>3. PICK f \in Nat, n \in Nat, k \in Nat :
              f = Fetched(l) /\ n = prod.n /\ k = Len(lis[l].ch)
        BY <2>1, <4>1
      <4>4. f + k = n - 1 /\ Len(lis'[l].ch) = k + 1 /\ Fetched(l)' = f
        BY <2>1, <3>1, <4>2, <4>3
      <4>5. f + (k + 1) = n
        BY <4>4, SMT
      <4> QED
        BY <4>3, <4>4, <4>5
    <3>3. ASSUME NEW k \in 1..Len(lis'[l].ch), lis'[l].ch[k].buf # NoBuf
          PROVE  mem'[lis'[l].ch[k].buf] = Fetched(l)' + k
      <4>1. CASE k = Len(lis[l].ch) + 1
        BY <4>1, <3>2 DEF Pushes
      <4>2. CASE k # Len(lis[l].ch) + 1
        <5>1. k \in 1..Len(lis[l].ch) /\ lis'[l].ch[k] = lis[l].ch[k]
          BY <4>2, OfListener, SMT DEF Pushes
        <5>2. mem[lis[l].ch[k].buf] = Fetched(l) + k
          BY <5>1, <3>3, <2>2, <2>3 DEF Stream
        <5>3. mem'[lis[l].ch[k].buf] = mem[lis[l].ch[k].buf]
          BY <5>1, <3>3, <2>0
        <5> QED
          BY <5>1, <5>2, <5>3, <2>1
      <4> QED
        BY <4>1, <4>2
    <3>4. con[l].pc = "write" => mem'[con[l].hold] = Len(con[l].out) + 1
      BY <2>0, <2>2, <2>3 DEF Stream
    <3>5. ~ lis'[l].closed
      BY DEF Pushes
    <3> QED
      BY <2>2, <2>3, <3>2, <3>3, <3>4, <3>5 DEF Stream
  <2>4. CASE con[l].pc \notin {"headers", "receive", "write"}
    BY <2>2, <2>4 DEF Stream
  <2> QED
    BY <2>3, <2>4
<1>CopyToListenerStep. Inv /\ CopyToListener => Inv'
\* Where the copy loop stands and where it goes next.
  <2>CopyNext.
        ASSUME Inv, prod.pc = "copy", prod.i <= Len(b.listeners)
        PROVE  /\ prod.i \in 1..Len(b.listeners) /\ b.listeners[prod.i] \in Listeners
               /\ ~ lis[b.listeners[prod.i]].closed
               /\ con[b.listeners[prod.i]].pc \notin {"idle", "elsewhere"}
               /\ \A m \in 1..Len(prod.kept) : prod.kept[m] # b.listeners[prod.i]
               /\ prod.owner # 0 => prod.owner \in 1..Len(b.listeners)
                                    /\ b.listeners[prod.owner] \in Listeners \ {b.listeners[prod.i]}
    <3> USE <2>CopyNext
    <3> Roll /\ Loop
      BY DEF Inv
    <3>1. b.listeners \in Seq(Listeners) /\ Len(b.listeners) \in Nat
      BY OfBroadcaster, SMT
    <3>2. prod.i \in 1..Len(b.listeners) /\ b.listeners[prod.i] \in Listeners
      BY <3>1, OfProducer, SMT
    <3>3. ~ Copied(prod.i)
      BY OfProducer, SMT DEF Copied
    <3>4. ~ lis[b.listeners[prod.i]].closed
      BY <3>2, <3>3 DEF Loop
    <3>5. con[b.listeners[prod.i]].pc \notin {"idle", "elsewhere"}
      BY <3>2 DEF Roll
    <3>6. ASSUME NEW m \in 1..Len(prod.kept) PROVE prod.kept[m] # b.listeners[prod.i]
      <4>1. PICK k \in 1..Len(b.listeners) : Copied(k) /\ b.listeners[k] = prod.kept[m]
        BY DEF Loop
      <4>2. k # prod.i
        BY <4>1, <3>3
      <4> QED
        BY <4>1, <4>2, <3>2 DEF Roll
    <3>7. ASSUME prod.owner # 0
          PROVE  prod.owner \in 1..Len(b.listeners)
                 /\ b.listeners[prod.owner] \in Listeners \ {b.listeners[prod.i]}
      <4>1. prod.owner \in 1..Len(b.listeners) /\ prod.owner # prod.i
        BY <3>1, <3>7, OfProducer, SMT DEF Loop
      <4>2. b.listeners[prod.owner] # b.listeners[prod.i]
        BY <4>1, <3>2 DEF Roll
      <4> QED
        BY <4>1, <4>2, <3>1, SMT
    <3> QED
      BY <3>2, <3>4, <3>5, <3>6, <3>7
  <2>CopyLoop.
        ASSUME Inv, prod.pc = "copy", prod.i <= Len(b.listeners), NEW l, l = b.listeners[prod.i],
               b' = b, prod' \in ProdOf, prod'.pc = "copy", prod'.owner = prod.owner,
               \A m \in Listeners \ {l} : lis'[m] = lis[m], Passes(l)
        PROVE  Loop'
    <3> USE <2>CopyLoop
    <3> Roll /\ Loop
      BY DEF Inv
    <3>1. /\ prod.i \in 1..Len(b.listeners) /\ l \in Listeners
          /\ \A m \in 1..Len(prod.kept) : prod.kept[m] # l
          /\ prod.owner # 0 => b.listeners[prod.owner] \in Listeners \ {l}
      BY <2>CopyNext
    <3>2. /\ prod.i \in Nat /\ prod.owner \in Nat /\ prod.pos \in Nat
          /\ prod.kept \in Seq(Listeners) /\ Len(prod.kept) \in Nat
      BY OfProducer, SMT
    <3>3. /\ prod.owner <= Len(b.listeners) /\ prod.i # prod.owner
          /\ prod.owner # 0 => HasRoom(b.listeners[prod.owner])
          /\ prod.pos <= Len(prod.kept)
      BY DEF Loop
    <3>a. \A m, k \in 1..Len(prod.kept) : prod.kept[m] = prod.kept[k] => m = k
      BY DEF Loop
    <3>b. \A m \in 1..Len(prod.kept) :
            /\ ~ lis[prod.kept[m]].closed
            /\ \E k \in 1..Len(b.listeners) : Copied(k) /\ b.listeners[k] = prod.kept[m]
      BY DEF Loop
    <3>c. \A k \in 1..Len(b.listeners) :
            IF Copied(k)
            THEN lis[b.listeners[k]].closed
                 \/ \E m \in 1..Len(prod.kept) : prod.kept[m] = b.listeners[k]
            ELSE ~ lis[b.listeners[k]].closed
      BY DEF Loop
    <3>4. \A k \in Nat : Copied(k)' <=> Copied(k) \/ k = prod.i
      BY <3>2, <3>3, SMT DEF Copied, Passes
    <3>5. prod'.i # prod'.owner
      BY <3>2, <3>3, SMT DEF Passes
    <3>6. prod'.owner # 0 => HasRoom(b.listeners[prod.owner])'
      BY <3>1, <3>3 DEF HasRoom
    <3>7. /\ \A m \in 1..Len(prod.kept) :
               prod'.kept[m] = prod.kept[m] /\ m \in 1..Len(prod'.kept)
          /\ \A m \in 1..Len(prod'.kept) :
               \/ m \in 1..Len(prod.kept) /\ prod'.kept[m] = prod.kept[m]
               \/ m = Len(prod.kept) + 1 /\ prod'.kept[m] = l /\ ~ lis'[l].closed
          /\ lis'[l].closed \/ \E m \in 1..Len(prod'.kept) : prod'.kept[m] = l
          /\ prod'.pos <= Len(prod'.kept)
      <4>1. CASE prod'.kept = prod.kept /\ prod'.pos = prod.pos /\ lis'[l].closed = TRUE
        BY <4>1, <3>3
      <4>2. CASE /\ prod'.kept = Append(prod.kept, l) /\ prod'.pos \in {prod.pos, prod.pos + 1}
                 /\ ~ lis'[l].closed
        <5>1. /\ Len(prod'.kept) = Len(prod.kept) + 1
              /\ \A m \in 1..Len(prod.kept) : prod'.kept[m] = prod.kept[m]
              /\ prod'.kept[Len(prod.kept) + 1] = l
          BY <4>2, <3>1, <3>2, Pushing, SMT
        <5>2. prod'.pos <= Len(prod'.kept) /\ Len(prod.kept) + 1 \in 1..Len(prod'.kept)
          BY <5>1, <4>2, <3>2, <3>3, SMT
        <5>3. \A m \in 1..Len(prod'.kept) : m \in 1..Len(prod.kept) \/ m = Len(prod.kept) + 1
          BY <5>1, <3>2, SMT
        <5>4. \A m \in 1..Len(prod.kept) : m \in 1..Len(prod'.kept)
          BY <5>1, <3>2, SMT
        <5> QED
          BY <5>1, <5>2, <5>3, <5>4, <4>2
      <4> QED
        BY <4>1, <4>2 DEF Passes
    <3>8. \A m, k \in 1..Len(prod'.kept) : prod'.kept[m] = prod'.kept[k] => m = k
      <4> SUFFICES ASSUME NEW m \in 1..Len(prod'.kept), NEW k \in 1..Len(prod'.kept),
                          prod'.kept[m] = prod'.kept[k]
                   PROVE  m = k
        OBVIOUS
      <4> QED
        BY <3>1, <3>a, <3>7, SMTT(30)
    <3>9. ASSUME NEW m \in 1..Len(prod'.kept)
          PROVE  /\ ~ lis'[prod'.kept[m]].closed
                 /\ \E k \in 1..Len(b.listeners) : Copied(k)' /\ b.listeners[k] = prod'.kept[m]
      <4>1. CASE m \in 1..Len(prod.kept) /\ prod'.kept[m] = prod.kept[m]
        <5>1. prod.kept[m] \in Listeners \ {l}
          BY <4>1, <3>1, <3>2, SMT
        <5>2. PICK k \in 1..Len(b.listeners) : Copied(k) /\ b.listeners[k] = prod.kept[m]
          BY <4>1, <3>b
        <5>3. Copied(k)'
          BY <5>2, <3>4, SMT
        <5>4. lis'[prod'.kept[m]] = lis[prod.kept[m]] /\ ~ lis[prod.kept[m]].closed
          BY <4>1, <5>1, <3>b
        <5> QED
          BY <4>1, <5>2, <5>3, <5>4
      <4>2. CASE m = Len(prod.kept) + 1 /\ prod'.kept[m] = l /\ ~ lis'[l].closed
        BY <4>2, <3>1, <3>4, SMT
      <4> QED
        BY <4>1, <4>2, <3>7
    <3>10. ASSUME NEW k \in 1..Len(b.listeners)
           PROVE  IF Copied(k)'
                  THEN lis'[b.listeners[k]].closed
                       \/ \E m \in 1..Len(prod'.kept) : prod'.kept[m] = b.listeners[k]
                  ELSE ~ lis'[b.listeners[k]].closed
      <4>1. CASE k = prod.i
        BY <4>1, <3>4, <3>7, SMT
      <4>2. CASE k # prod.i
        <5>1. b.listeners[k] \in Listeners \ {l}
          BY <4>2, <3>1, OfBroadcaster, SMT DEF Roll
        <5>2. Copied(k)' <=> Copied(k)
          BY <4>2, <3>4, SMT
        <5>3. lis'[b.listeners[k]] = lis[b.listeners[k]]
          BY <5>1
        <5>4. ASSUME NEW m \in 1..Len(prod.kept), prod.kept[m] = b.listeners[k]
              PROVE  \E n \in 1..Len(prod'.kept) : prod'.kept[n] = b.listeners[k]
          BY <5>4, <3>7
        <5> QED
          BY <5>2, <5>3, <5>4, <3>c
      <4> QED
        BY <4>1, <4>2
    <3> QED
      BY <3>3, <3>5, <3>6, <3>7, <3>8, <3>9, <3>10, ZenonT(60) DEF Loop
  \* A full channel: its listener is closed, and nothing queued is displaced.
  <2>Disconnected.
        ASSUME Inv, NEW l \in Listeners, ~ HasRoom(l),
               lis' = [lis EXCEPT ![l] = DisconnectSlowConsumer(@)]
        PROVE  /\ DOMAIN lis' = Listeners /\ lis' = [m \in Listeners |-> lis'[m]]
               /\ \A m \in Listeners \ {l} : lis'[m] = lis[m]
               /\ lis'[l] \in LisOf(lis'[l]) /\ lis'[l].ch = lis[l].ch
               /\ lis'[l].closed = TRUE /\ lis'[l].termErr = "slow"
    <3> USE <2>Disconnected
    <3> Types
      BY DEF Inv
    <3>1. PICK r, d, q : r = lis[l] /\ d = [r EXCEPT !.disconnected = TRUE] /\ q = lis'[l]
      OBVIOUS
    <3>2. /\ DOMAIN lis' = Listeners /\ lis' = [m \in Listeners |-> lis'[m]]
          /\ \A m \in Listeners \ {l} : lis'[m] = lis[m]
          /\ q = CloseWithError(d, "slow")
      BY <3>1 DEF Types, DisconnectSlowConsumer
    <3>3. r \in LisOf(r)
      BY <3>1, OfListener
    <3>4. d \in LisOf(d) /\ d.ch = r.ch
      <4>1. d = [r EXCEPT !.disconnected = TRUE]
        BY <3>1
      <4> QED
        BY <4>1, <3>3 DEF LisOf
    <3>5. /\ q \in LisOf(q) /\ q.closed = TRUE /\ q.termErr = "slow"
          /\ ~ (Len(d.ch) < ChannelBuf) => q.ch = d.ch
      <4>1. PICK e \in Errors : e = "slow"
        BY DEF Errors
      <4>2. d \in LisOf(d) /\ q = CloseWithError(d, e)
        BY <3>2, <3>4, <4>1
      <4>3. /\ q \in LisOf(q) /\ q.closed = TRUE /\ q.termErr = e
            /\ ~ (Len(d.ch) < ChannelBuf) => q.ch = d.ch
        BY <4>2, Closing, ZenonT(30)
      <4> QED
        BY <4>1, <4>3
    <3>6. q.ch = r.ch
      BY <3>1, <3>4, <3>5 DEF HasRoom
    <3> QED
      BY <3>1, <3>2, <3>5, <3>6
  \* The stream of a listener that is cut off.
  <2>CutStream.
        ASSUME Inv, NEW l \in Listeners, lis'[l].ch = lis[l].ch, lis'[l].closed = TRUE,
               lis'[l].termErr # "nil", con'[l] = con[l], mem' = mem,
               b'.done = b.done, b'.err = b.err, prod'.n = prod.n
        PROVE  Stream(l)'
    <3> USE <2>CutStream
    <3> Streams
      BY DEF Inv
    <3>1. Fetched(l)' = Fetched(l)
      BY DEF Fetched
    <3>2. Stream(l)
      BY DEF Streams
    <3> QED
      BY <3>1, <3>2, ZenonT(60) DEF Stream
  <2> SUFFICES ASSUME Inv, CopyToListener PROVE Inv'
    OBVIOUS
  <2> Types /\ Producer /\ Roll /\ Consumers /\ Sole
    BY DEF Inv
  <2>0. prod.pc = "copy" /\ prod.i <= Len(b.listeners) /\ UNCHANGED <<setup, b, con>>
    BY DEF CopyToListener
  <2>1. PICK l \in Listeners : l = b.listeners[prod.i]
    BY <2>0, <2>CopyNext
  <2>2. /\ prod.i \in 1..Len(b.listeners) /\ ~ lis[l].closed
        /\ con[l].pc \notin {"idle", "elsewhere"}
        /\ \A m \in 1..Len(prod.kept) : prod.kept[m] # l
    BY <2>0, <2>1, <2>CopyNext
  <2>3. PICK next \in Nat \ {0} : next = IF prod.i + 1 = prod.owner THEN prod.i + 2 ELSE prod.i + 1
    BY OfProducer, SMT
  <2>4. /\ prod.buf \in Bufs /\ mem[prod.buf] = prod.n /\ prod.n > 0 /\ ~ b.done
    BY <2>0 DEF Producer
  <2>5. Live(l) /\ Awaits(l) /\ Due(l) = prod.n - 1
    BY <2>0, <2>1, <2>2, SMT DEF Live, Awaits, Due
  <2>6. CASE HasRoom(l)
    <3>0. /\ PoolLeft /\ lis' = [lis EXCEPT ![l].ch = Append(@, Chunk(Lease, "nil"))]
          /\ mem' = [mem EXCEPT ![Lease] = mem[prod.buf]] /\ free' = free \ {Lease}
          /\ prod' = [prod EXCEPT !.i = next, !.kept = Append(@, l),
                                  !.pos = IF prod.i < prod.owner THEN @ + 1 ELSE @]
      BY <2>1, <2>3, <2>6 DEF CopyToListener
    <3>1. PICK x \in Bufs : x = Lease /\ x \in free /\ x # NoBuf
      BY <3>0, Leased
    <3>2. Pushes(l, x)
      BY <3>0, <3>1, <2>6, <1>Push
    <3>3. /\ mem' \in [Bufs -> 0..MaxChunks] /\ mem'[x] = prod.n
          /\ \A y \in Bufs \ {x} : mem'[y] = mem[y]
      BY <3>0, <3>1, <2>4, OfProducer, SMT DEF Types
    <3>4. /\ prod' \in ProdOf /\ prod'.pc = "copy" /\ prod'.buf = prod.buf
          /\ prod'.end = prod.end /\ prod'.n = prod.n /\ prod'.i = next
          /\ prod'.owner = prod.owner /\ prod'.pos \in {prod.pos, prod.pos + 1}
          /\ prod'.kept = Append(prod.kept, l)
      <4>1. PICK pos \in Nat : /\ pos = IF prod.i < prod.owner THEN prod.pos + 1 ELSE prod.pos
                               /\ pos \in {prod.pos, prod.pos + 1}
        BY OfProducer, SMT
      <4>2. PICK kept \in Seq(Listeners) : kept = Append(prod.kept, l)
        BY OfProducer, Pushing
      <4>3. prod' = [prod EXCEPT !.i = next, !.kept = kept, !.pos = pos]
        BY <3>0, <4>1, <4>2
      <4>4. /\ prod' \in ProdOf /\ prod'.pc = prod.pc /\ prod'.buf = prod.buf
            /\ prod'.end = prod.end /\ prod'.n = prod.n /\ prod'.i = next
            /\ prod'.owner = prod.owner /\ prod'.pos = pos /\ prod'.kept = kept
        BY <4>3, OfProducer, ZenonT(60) DEF ProdOf
      <4> QED
        BY <4>1, <4>2, <4>4, <2>0
    <3>5. free' = free \ {x} /\ x # prod.buf
      BY <3>0, <3>1 DEF Sole
    <3>6. /\ DOMAIN lis' = Listeners /\ lis' = [m \in Listeners |-> lis'[m]]
          /\ \A m \in Listeners \ {l} : lis'[m] = lis[m]
          /\ lis'[l] \in LisOf(lis'[l]) /\ Len(lis'[l].ch) <= ChannelBuf
          /\ lis'[l].closed = lis[l].closed
      BY <3>2 DEF Pushes
    <3>7. Types'
      BY <2>0, <3>3, <3>4, <3>5, <3>6, ZenonT(60) DEF Types
    <3>8. Producer'
      <4>1. mem'[prod'.buf] = prod'.n
        BY <3>3, <3>4, <3>5, <2>4, SMT
      <4> QED
        BY <4>1, <2>0, <2>4, <3>4 DEF Producer
    <3>9. Roll'
      BY <2>0, <3>4 DEF Roll
    <3>10. Loop'
      <4>1. Passes(l)
        BY <3>4, <3>6, <2>2, <2>3, SMT DEF Passes
      <4> QED
        BY <4>1, <2>0, <2>1, <3>4, <3>6, <2>CopyLoop
    <3>11. Consumers'
      BY <2>0, <2>2, <3>2, <1>PushedConsumers
    <3>12. Streams'
      <4>0. /\ Len(prod'.kept) = Len(prod.kept) + 1 /\ Len(prod.kept) \in Nat
            /\ \A k \in 1..Len(prod.kept) : prod'.kept[k] = prod.kept[k]
            /\ prod'.kept[Len(prod.kept) + 1] = l
        BY <3>4, OfProducer, Pushing, SMT
      <4>1. Due(l)' = prod.n
        BY <3>4, <4>0, SMT DEF Due, Awaits
      <4>2. Stream(l)'
        BY <2>0, <2>2, <2>5, <3>1, <3>2, <3>3, <3>4, <4>1, <1>PushedStream
      <4>3. ASSUME NEW m \in Listeners \ {l} PROVE Stream(m)'
        <5>1. Live(m)' => Live(m)
          BY <2>0 DEF Live
        <5>2. Awaits(m)' <=> Awaits(m)
          BY <2>0, <3>4, <4>0, SMT DEF Awaits
        <5>3. Due(m)' = Due(m)
          BY <5>2, <3>4, SMT DEF Due
        <5>4. con[m].hold # NoBuf => mem'[con[m].hold] = mem[con[m].hold]
          BY <3>1, <3>3, OfConsumer, SMT DEF Sole, HeldOnce
        <5>5. \A k \in 1..Len(lis[m].ch) :
                lis[m].ch[k].buf # NoBuf => mem'[lis[m].ch[k].buf] = mem[lis[m].ch[k].buf]
          BY <3>1, <3>3, OfListener, SMTT(30) DEF Sole, QueuedOnce
        <5> QED
          BY <5>1, <5>3, <5>4, <5>5, <2>0, <3>4, <3>6, StreamKept
      <4> QED
        BY <4>2, <4>3 DEF Streams
    <3>13. Sole'
      <4>1. HeldOnce' /\ QueuedOnce'
        BY <2>0, <3>1, <3>2, <3>4, <3>5, <1>PushedOnce
      <4>2. ASSUME NEW y \in Bufs PROVE Somewhere(y)'
        <5>1. Somewhere(y)
          BY DEF Sole
        <5> QED
          BY <5>1, <2>0, <3>2, <3>4, <3>5, <1>PushedSomewhere, ZenonT(60)
      <4>3. prod'.buf \notin free'
        BY <3>4, <3>5 DEF Sole
      <4> QED
        BY <4>1, <4>2, <4>3 DEF Sole
    <3> QED
      BY <3>7, <3>8, <3>9, <3>10, <3>11, <3>12, <3>13 DEF Inv
  <2>7. CASE ~ HasRoom(l)
    <3>0. /\ lis' = [lis EXCEPT ![l] = DisconnectSlowConsumer(@)]
          /\ mem' = mem /\ free' = free /\ prod' = [prod EXCEPT !.i = next]
      BY <2>1, <2>3, <2>7 DEF CopyToListener
    <3>1. /\ DOMAIN lis' = Listeners /\ lis' = [m \in Listeners |-> lis'[m]]
          /\ \A m \in Listeners \ {l} : lis'[m] = lis[m]
          /\ lis'[l] \in LisOf(lis'[l]) /\ lis'[l].ch = lis[l].ch
          /\ lis'[l].closed = TRUE /\ lis'[l].termErr = "slow"
      BY <3>0, <2>7, <2>Disconnected
    <3>2. /\ prod' \in ProdOf /\ prod'.pc = "copy" /\ prod'.buf = prod.buf
          /\ prod'.end = prod.end /\ prod'.n = prod.n /\ prod'.i = next
          /\ prod'.owner = prod.owner /\ prod'.pos = prod.pos /\ prod'.kept = prod.kept
      BY <3>0, <2>0, OfProducer, ZenonT(60) DEF ProdOf
    <3>3. \A m \in Listeners : lis'[m].ch = lis[m].ch
      BY <3>1, SMT
    <3>4. Types'
      BY <2>0, <3>0, <3>1, <3>2, SMT DEF Types
    <3>5. Producer'
      BY <2>0, <2>4, <3>0, <3>2 DEF Producer
    <3>6. Roll'
      BY <2>0, <3>2 DEF Roll
    <3>7. Loop'
      <4>1. Passes(l)
        BY <3>1, <3>2, <2>3 DEF Passes
      <4> QED
        BY <4>1, <2>0, <2>1, <3>1, <3>2, <2>CopyLoop, SMT
    <3>8. Consumers'
      BY <2>0, <2>2, <3>1, <3>3, SMT DEF Consumers
    <3>9. Streams'
      <4>1. Stream(l)'
        BY <2>0, <3>0, <3>1, <3>2, <2>CutStream
      <4>2. ASSUME NEW m \in Listeners \ {l} PROVE Stream(m)'
        <5>1. Live(m)' => Live(m)
          BY <2>0 DEF Live
        <5>2. Due(m)' = Due(m)
          BY <2>0, <3>2, SMT DEF Due, Awaits
        <5> QED
          BY <5>1, <5>2, <2>0, <3>0, <3>1, <3>2, StreamKept, SMT
      <4> QED
        BY <4>1, <4>2 DEF Streams
    <3>10. Sole'
      <4>1. HeldOnce'
        BY <2>0, <3>0, <3>2, SMT DEF Sole, HeldOnce
      <4>2. QueuedOnce'
        <5>1. \A m \in Listeners : \A k \in 1..Len(lis[m].ch) : lis[m].ch[k].buf # NoBuf =>
                /\ lis[m].ch[k].buf \notin free' /\ lis[m].ch[k].buf # prod'.buf
                /\ \A n \in Listeners : con'[n].hold # lis[m].ch[k].buf
          BY <2>0, <3>0, <3>2, SMT DEF Sole, QueuedOnce
        <5> QED
          BY <5>1, <3>3, QueuesKept
      <4>3. ASSUME NEW y \in Bufs PROVE Somewhere(y)'
        <5>1. Somewhere(y)
          BY DEF Sole
        <5> QED
          BY <5>1, <2>0, <3>0, <3>2, <3>3, SMT DEF Somewhere
      <4> QED
        BY <4>1, <4>2, <4>3, <3>0, <3>2, SMT DEF Sole
    <3> QED
      BY <3>4, <3>5, <3>6, <3>7, <3>8, <3>9, <3>10, SMT DEF Inv
  <2> QED
    BY <2>6, <2>7
\* broadcast() returns: the fetch goroutine reads on with a buffer, or completes.
<1>Returning.
      ASSUME Inv, CopiesDone, NEW held \in Bufs \cup {NoBuf}, prod' = Returned(held)
      PROVE  /\ prod' \in ProdOf /\ prod'.buf = held /\ prod'.n = prod.n /\ prod'.i = 1
             /\ prod'.owner = 0 /\ prod'.pos = 0 /\ prod'.kept = <<>>
             /\ \/ prod'.pc = "read" /\ prod.end = "more"
                \/ prod'.pc = "complete" /\ prod'.end \in {"nil", "failed", "canceled"}
  <2> USE <1>Returning
  <2> Producer
    BY DEF Inv
  <2>1. prod.pc = "copy" /\ prod.end \in {"more", "eof", "failed"}
    BY DEF Producer, CopiesDone
  <2>2. PICK e : e = NextRead
    OBVIOUS
  <2>3. \/ e = "more" /\ prod.end = "more"
        \/ e \in {"nil", "failed", "canceled"}
    BY <2>1, <2>2 DEF NextRead
  <2>4. PICK pc : pc = IF e = "more" THEN "read" ELSE "complete"
    OBVIOUS
  <2>5. prod' = [prod EXCEPT !.pc = pc, !.end = e, !.buf = held,
                             !.i = 1, !.owner = 0, !.pos = 0, !.kept = <<>>]
    BY <2>2, <2>4 DEF Returned
  <2>6. <<>> \in Seq(Listeners) /\ pc \in {"read", "complete"}
        /\ e \in {"more", "nil", "failed", "canceled"}
    BY <2>3, <2>4, SMT
  <2>7. /\ prod' \in ProdOf /\ prod'.buf = held /\ prod'.n = prod.n /\ prod'.i = 1
        /\ prod'.owner = 0 /\ prod'.pos = 0 /\ prod'.kept = <<>>
        /\ prod'.pc = pc /\ prod'.end = e
    <3>1. PICK kept \in Seq(Listeners) : kept = <<>>
      BY <2>6
    <3>2. prod' = [prod EXCEPT !.pc = pc, !.end = e, !.buf = held,
                               !.i = 1, !.owner = 0, !.pos = 0, !.kept = kept]
      BY <2>5, <3>1
    <3>3. prod \in ProdOf
      BY OfProducer
    <3>4. /\ prod'.buf = held /\ prod'.n = prod.n /\ prod'.i = 1
          /\ prod'.owner = 0 /\ prod'.pos = 0 /\ prod'.kept = kept
          /\ prod'.pc = pc /\ prod'.end = e
      BY <3>2, <3>3, SMT DEF ProdOf
    <3>5. prod' \in ProdOf
      <4>1. PICK q : q = [prod EXCEPT !.pc = pc, !.end = e, !.buf = held]
        OBVIOUS
      <4>2. q \in ProdOf
        BY <4>1, <3>3, <2>6, ZenonT(60) DEF ProdOf
      <4>3. PICK i \in Nat \ {0}, o \in Nat : i = 1 /\ o = 0
        BY SMT
      <4>4. prod' = [q EXCEPT !.i = i, !.owner = o, !.pos = o, !.kept = kept]
        BY <4>1, <4>3, <3>2
      <4> QED
        BY <4>2, <4>4, ZenonT(60) DEF ProdOf
    <3> QED
      BY <3>1, <3>4, <3>5
  <2> QED
    BY <2>3, <2>4, <2>7
\* What is due to the listeners it kept.
<1>KeptDue.
      ASSUME Inv, CopiesDone, NEW m \in 1..Len(prod.kept)
      PROVE  /\ prod.kept[m] \in Listeners /\ Live(prod.kept[m]) /\ ~ lis[prod.kept[m]].closed
             /\ con[prod.kept[m]].pc \notin {"idle", "elsewhere"}
             /\ Due(prod.kept[m]) = prod.n
             /\ prod.owner # 0 => prod.kept[m] # b.listeners[prod.owner]
  <2> USE <1>KeptDue
  <2> Roll /\ Loop
    BY DEF Inv
  <2>1. prod.pc = "copy" /\ prod.kept[m] \in Listeners
    BY OfProducer, SMT DEF CopiesDone
  <2>2. ~ lis[prod.kept[m]].closed
    BY <2>1 DEF Loop
  <2>3. PICK k \in 1..Len(b.listeners) : Copied(k) /\ b.listeners[k] = prod.kept[m]
    BY <2>1 DEF Loop
  <2>4. Live(prod.kept[m]) /\ con[prod.kept[m]].pc \notin {"idle", "elsewhere"}
    BY <2>3 DEF Live, Roll
  <2>5. Due(prod.kept[m]) = prod.n
    BY <2>1 DEF Due, Awaits
  <2>6. ASSUME prod.owner # 0 PROVE prod.kept[m] # b.listeners[prod.owner]
    <3>0. prod.owner \in Nat /\ Len(b.listeners) \in Nat
      BY OfProducer, OfBroadcaster, SMT
    <3>1. prod.owner \in 1..Len(b.listeners) /\ k # prod.owner
      BY <3>0, <2>1, <2>3, <2>6, SMT DEF Loop, Copied
    <3> QED
      BY <3>1, <2>3, SMT DEF Roll
  <2> QED
    BY <2>1, <2>2, <2>4, <2>5, <2>6, SMT
<1>KeepInputStep. Inv /\ KeepInput => Inv'
  <2> SUFFICES ASSUME Inv, KeepInput PROVE Inv'
    OBVIOUS
  <2> Types /\ Producer /\ Loop /\ Consumers /\ Sole
    BY DEF Inv
  <2>0. /\ CopiesDone /\ prod' = Returned(prod.buf)
        /\ UNCHANGED <<setup, lis, con, mem, free>>
    BY DEF KeepInput
  <2>1. prod.buf \in Bufs /\ prod.pc = "copy" /\ ~ b.done
    BY <2>0 DEF Producer, CopiesDone
  <2>2. /\ prod' \in ProdOf /\ prod'.buf = prod.buf /\ prod'.n = prod.n /\ prod'.i = 1
        /\ prod'.owner = 0 /\ prod'.pos = 0 /\ prod'.kept = <<>>
        /\ \/ prod'.pc = "read" /\ prod.end = "more"
           \/ prod'.pc = "complete" /\ prod'.end \in {"nil", "failed", "canceled"}
    BY <2>0, <2>1, <1>Returning, SMT
  <2>3. /\ b' \in BOf(b') /\ b'.listeners = prod.kept
        /\ b'.streaming = b.streaming /\ b'.done = b.done /\ b'.err = b.err
    <3>1. b \in BOf(b) /\ b' = [b EXCEPT !.listeners = prod.kept] /\ prod.kept \in Seq(Listeners)
      BY OfProducer DEF Types, KeepInput
    <3> QED
      BY <3>1, ListenersSet, SMT
  <2>4. \A m \in 1..Len(prod.kept) :
          /\ prod.kept[m] \in Listeners /\ Live(prod.kept[m]) /\ ~ lis[prod.kept[m]].closed
          /\ con[prod.kept[m]].pc \notin {"idle", "elsewhere"}
          /\ Due(prod.kept[m]) = prod.n
    BY <2>0, <1>KeptDue
  <2>5. Types'
    BY <2>0, <2>2, <2>3, SMT DEF Types
  <2>6. Producer'
    BY <2>0, <2>1, <2>2, <2>3, SMT DEF Producer
  <2>7. Roll'
    <3>1. \A i, k \in 1..Len(prod.kept) : prod.kept[i] = prod.kept[k] => i = k
      BY <2>1 DEF Loop
    <3> QED
      BY <3>1, <2>0, <2>3, <2>4, ZenonT(60) DEF Roll
  <2>8. Loop'
    BY <2>2 DEF Loop
  <2>9. Consumers'
    BY <2>0 DEF Consumers
  <2>10. Streams'
    <3> SUFFICES ASSUME NEW l \in Listeners PROVE Stream(l)'
      BY DEF Streams
    <3>1. Due(l)' = prod.n
      BY <2>2, SMT DEF Due, Awaits
    <3>2. Live(l)' => Live(l) /\ Due(l) = prod.n
      BY <2>3, <2>4, ZenonT(60) DEF Live
    <3> QED
      BY <3>1, <3>2, <2>0, <2>1, StreamKept, ZenonT(60)
  <2>11. Sole'
    <3>1. HeldOnce'
      BY <2>0, <2>2, SMTT(30) DEF Sole, HeldOnce
    <3>2. QueuedOnce'
      BY <2>0, <2>2, SMTT(30) DEF Sole, QueuedOnce
    <3>3. prod'.buf \notin free' /\ \A x \in Bufs : Somewhere(x)'
      BY <2>0, <2>2, SMTT(30) DEF Sole, Somewhere
    <3> QED
      BY <3>1, <3>2, <3>3 DEF Sole
  <2> QED
    BY <2>5, <2>6, <2>7, <2>8, <2>9, <2>10, <2>11 DEF Inv
<1>HandOverStep. Inv /\ HandOver => Inv'
\* The owner goes back to its place in the list.
  <2>Reinserting.
        ASSUME Inv, CopiesDone, NEW l \in Listeners,
               \A m \in 1..Len(prod.kept) : prod.kept[m] # l
        PROVE  /\ Reinserted(l) \in Seq(Listeners) /\ Len(Reinserted(l)) = Len(prod.kept) + 1
               /\ \A k \in 1..Len(Reinserted(l)) :
                    Reinserted(l)[k] = l \/ \E m \in 1..Len(prod.kept) : Reinserted(l)[k] = prod.kept[m]
               /\ \A i, k \in 1..Len(Reinserted(l)) : Reinserted(l)[i] = Reinserted(l)[k] => i = k
    <3> USE <2>Reinserting
    <3> Loop
      BY DEF Inv
    <3>1. /\ prod.kept \in Seq(Listeners) /\ Len(prod.kept) \in Nat /\ prod.pos \in Nat
          /\ prod.pos <= Len(prod.kept)
          /\ \A m, k \in 1..Len(prod.kept) : prod.kept[m] = prod.kept[k] => m = k
      BY OfProducer, SMT DEF Loop, CopiesDone
    <3>2. PICK n \in Nat, p \in Nat : n = Len(prod.kept) /\ p = prod.pos
      BY <3>1
    <3>3. PICK s : s = Reinserted(l)
      OBVIOUS
    <3>4. s = [k \in 1..(n + 1) |-> IF k <= p THEN prod.kept[k]
                                    ELSE IF k = p + 1 THEN l ELSE prod.kept[k - 1]]
      BY <3>2, <3>3 DEF Reinserted
    <3>5. /\ \A k \in 1..(n + 1) : k <= p => k \in 1..n /\ s[k] = prod.kept[k]
          /\ \A k \in 1..(n + 1) : k = p + 1 => s[k] = l
          /\ \A k \in 1..(n + 1) : k > p + 1 => k - 1 \in 1..n /\ s[k] = prod.kept[k - 1]
      BY <3>1, <3>2, <3>4, SMT
    <3>6. \A k \in 1..(n + 1) : k <= p \/ k = p + 1 \/ k > p + 1
      BY <3>2, SMT
    <3>7. \A k \in 1..(n + 1) : s[k] \in Listeners
      BY <3>1, <3>2, <3>5, <3>6, SMT
    <3>8. s \in Seq(Listeners) /\ Len(s) = n + 1
      <4>1. s \in [1..(n + 1) -> Listeners]
        BY <3>4, <3>7
      <4> QED
        BY <4>1, SMT
    <3>9. \A k \in 1..Len(s) : s[k] = l \/ \E m \in 1..Len(prod.kept) : s[k] = prod.kept[m]
      BY <3>2, <3>5, <3>6, <3>8, SMT
    <3>10. \A i, k \in 1..Len(s) : s[i] = s[k] => i = k
      <4> SUFFICES ASSUME NEW i \in 1..(n + 1), NEW k \in 1..(n + 1), s[i] = s[k] PROVE i = k
        BY <3>8, SMT
      <4>1. CASE i <= p
        BY <4>1, <3>1, <3>2, <3>5, <3>6, SMTT(30)
      <4>2. CASE i = p + 1
        BY <4>2, <3>2, <3>5, <3>6
      <4>3. CASE i > p + 1
        <5>1. i - 1 \in 1..n /\ s[i] = prod.kept[i - 1] /\ s[i] # l
          BY <4>3, <3>2, <3>5, SMT
        <5>2. CASE k <= p
          <6>1. k \in 1..n /\ prod.kept[k] = prod.kept[i - 1]
            BY <5>1, <5>2, <3>5, ZenonT(60)
          <6>2. k = i - 1
            BY <6>1, <5>1, <3>1, <3>2
          <6> QED
            BY <6>2, <4>3, <5>2, SMT
        <5>3. CASE k > p + 1
          <6>1. k - 1 \in 1..n /\ prod.kept[k - 1] = prod.kept[i - 1]
            BY <5>1, <5>3, <3>5, ZenonT(60)
          <6>2. k - 1 = i - 1
            BY <6>1, <5>1, <3>1, <3>2
          <6> QED
            BY <6>2, SMT
        <5>4. k # p + 1
          BY <5>1, <3>5, ZenonT(60)
        <5> QED
          BY <5>2, <5>3, <5>4, <3>6
      <4> QED
        BY <4>1, <4>2, <4>3, <3>6
    <3> QED
      BY <3>2, <3>3, <3>8, <3>9, <3>10, SMT
  <2> SUFFICES ASSUME Inv, HandOver PROVE Inv'
    OBVIOUS
  <2> Types /\ Producer /\ Roll /\ Loop /\ Sole
    BY SMT DEF Inv
  <2>0. CopiesDone /\ prod.owner # 0 /\ UNCHANGED <<setup, con, mem>>
    BY DEF HandOver
  <2>1. prod.pc = "copy" /\ ~ b.done /\ prod.n > 0
    BY <2>0 DEF Producer, CopiesDone
  <2>2. prod.owner \in 1..Len(b.listeners)
    <3>1. prod.owner \in Nat /\ Len(b.listeners) \in Nat
      BY OfProducer, OfBroadcaster, SMT
    <3> QED
      BY <3>1, <2>0, <2>1, SMT DEF Loop
  <2>3. PICK l \in Listeners : l = b.listeners[prod.owner]
    BY <2>2, OfBroadcaster, SMT
  <2>4. PICK x \in Bufs : x = prod.buf /\ mem[x] = prod.n /\ x \notin free
    BY <2>1 DEF Producer, Sole
  <2>5. HasRoom(l)
    BY <2>0, <2>1, <2>3, SMT DEF Loop
  <2>6. PICK fresh : fresh = IF prod.end = "more" THEN Lease ELSE NoBuf
    BY SMT
  <2>7. /\ prod.end = "more" => PoolLeft
        /\ lis' = [lis EXCEPT ![l].ch = Append(@, Chunk(x, "nil"))]
        /\ b' = [b EXCEPT !.listeners = Reinserted(l)]
        /\ prod' = Returned(fresh) /\ free' = free \ {fresh}
    BY <2>3, <2>4, <2>5, <2>6 DEF HandOver
  <2>8. /\ fresh \in Bufs \cup {NoBuf} /\ fresh # x
        /\ fresh = NoBuf \/ fresh \in free
        /\ prod.end = "more" => fresh \in Bufs
    <3>1. CASE prod.end = "more"
      <4>1. fresh \in free /\ fresh \in Bufs
        BY <3>1, <2>6, <2>7, Leased
      <4> QED
        BY <4>1, <2>4, SMT
    <3>2. CASE prod.end # "more"
      BY <3>2, <2>6, OfBroadcaster, SMT
    <3> QED
      BY <3>1, <3>2, SMT
  <2>9. Pushes(l, x)
    BY <2>5, <2>7, <1>Push
  <2>10. /\ prod' \in ProdOf /\ prod'.buf = fresh /\ prod'.n = prod.n /\ prod'.i = 1
         /\ prod'.owner = 0 /\ prod'.pos = 0 /\ prod'.kept = <<>>
         /\ \/ prod'.pc = "read" /\ prod.end = "more"
            \/ prod'.pc = "complete" /\ prod'.end \in {"nil", "failed", "canceled"}
    BY <2>0, <2>7, <2>8, <1>Returning
  <2>11. \A m \in 1..Len(prod.kept) :
           /\ prod.kept[m] \in Listeners \ {l} /\ Live(prod.kept[m])
           /\ ~ lis[prod.kept[m]].closed
           /\ con[prod.kept[m]].pc \notin {"idle", "elsewhere"}
           /\ Due(prod.kept[m]) = prod.n
    BY <2>0, <2>3, <1>KeptDue, SMT
  <2>12. PICK s \in Seq(Listeners) :
           /\ s = Reinserted(l)
           /\ \A k \in 1..Len(s) : s[k] = l \/ \E m \in 1..Len(prod.kept) : s[k] = prod.kept[m]
           /\ \A i, k \in 1..Len(s) : s[i] = s[k] => i = k
    <3>1. \A m \in 1..Len(prod.kept) : prod.kept[m] # l
      BY <2>11
    <3> QED
      BY <3>1, <2>0, <2>Reinserting
  <2>13. /\ b' \in BOf(b') /\ b'.listeners = s
         /\ b'.streaming = b.streaming /\ b'.done = b.done /\ b'.err = b.err
    <3>1. b \in BOf(b) /\ b' = [b EXCEPT !.listeners = s]
      BY <2>7, <2>12, SMT DEF Types
    <3> QED
      BY <3>1, ListenersSet, SMT
  <2>14. /\ DOMAIN lis' = Listeners /\ lis' = [m \in Listeners |-> lis'[m]]
         /\ \A m \in Listeners \ {l} : lis'[m] = lis[m]
         /\ lis'[l] \in LisOf(lis'[l]) /\ Len(lis'[l].ch) <= ChannelBuf
         /\ lis'[l].closed = lis[l].closed
    BY <2>9 DEF Pushes
  <2>15. /\ ~ lis[l].closed /\ con[l].pc \notin {"idle", "elsewhere"} /\ Live(l)
         /\ Due(l) = prod.n - 1
    <3>1. ~ Copied(prod.owner)
      BY SMT DEF Copied
    <3>2. ~ lis[l].closed
      BY <3>1, <2>1, <2>2, <2>3, ZenonT(60) DEF Loop
    <3>3. con[l].pc \notin {"idle", "elsewhere"} /\ Live(l)
      BY <2>2, <2>3, SMT DEF Roll, Live
    <3>4. Due(l) = prod.n - 1
      BY <2>1, <2>11 DEF Due, Awaits
    <3> QED
      BY <3>2, <3>3, <3>4, SMT
  <2>16. Types'
    <3>1. free' \subseteq Bufs
      BY <2>7 DEF Types
    <3> QED
      BY <3>1, <2>0, <2>10, <2>13, <2>14, SMT DEF Types
  <2>17. Producer'
    BY <2>0, <2>1, <2>8, <2>10, <2>13 DEF Producer
  <2>18. Roll'
    <3> SUFFICES ASSUME NEW k \in 1..Len(s)
                 PROVE  /\ con'[s[k]].pc \notin {"idle", "elsewhere"}
                        /\ ~ lis'[s[k]].closed
      BY <2>12, <2>13, SMT DEF Roll
    <3>1. CASE s[k] = l
      BY <3>1, <2>0, <2>14, <2>15, SMT
    <3>2. CASE \E m \in 1..Len(prod.kept) : s[k] = prod.kept[m]
      BY <3>2, <2>0, <2>11, <2>14, SMT
    <3> QED
      BY <3>1, <3>2, <2>12
  <2>19. Loop'
    BY <2>10 DEF Loop
  <2>20. Consumers'
    BY <2>0, <2>9, <2>15, <1>PushedConsumers, SMT
  <2>21. Streams'
    <3>1. ASSUME NEW m \in Listeners PROVE Due(m)' = prod.n
      BY <2>10, SMT DEF Due, Awaits
    <3>2. Stream(l)'
      BY <3>1, <2>0, <2>4, <2>9, <2>10, <2>13, <2>15, <1>PushedStream, ZenonT(60)
    <3>3. ASSUME NEW m \in Listeners \ {l} PROVE Stream(m)'
      <4>1. Live(m)' => Live(m) /\ Due(m) = prod.n
        <5> SUFFICES ASSUME NEW k \in 1..Len(s), s[k] = m PROVE Live(m) /\ Due(m) = prod.n
          BY <2>13 DEF Live
        <5>1. PICK n \in 1..Len(prod.kept) : prod.kept[n] = m
          BY <2>12, SMT
        <5> QED
          BY <5>1, <2>11, SMT
      <4> QED
        BY <4>1, <3>1, <2>0, <2>1, <2>14, StreamKept, SMT
    <3> QED
      BY <3>2, <3>3 DEF Streams
  <2>22. Sole'
    <3>1. HeldOnce' /\ QueuedOnce'
      BY <2>0, <2>4, <2>7, <2>8, <2>9, <2>10, <1>PushedOnce, SMT
    <3>2. ASSUME NEW y \in Bufs PROVE Somewhere(y)'
      <4>1. Somewhere(y)
        BY SMT DEF Sole
      <4> QED
        BY <4>1, <2>0, <2>4, <2>7, <2>9, <2>10, <1>PushedSomewhere, SMT
    <3>3. prod'.buf \notin free'
      BY <2>7, <2>10
    <3> QED
      BY <3>1, <3>2, <3>3, SMT DEF Sole
  <2> QED
    BY <2>16, <2>17, <2>18, <2>19, <2>20, <2>21, <2>22 DEF Inv
<1> QED
  BY <1>CopyToListenerStep, <1>KeepInputStep, <1>HandOverStep

\* A buffer goes back to the pool.
LEMMA Put ==
    ASSUME Inv, NEW x \in Bufs \cup {NoBuf}, PutChunkBuf({x})
    PROVE  /\ mem' \in [Bufs -> 0..MaxChunks] /\ free' \subseteq Bufs
           /\ \A y \in Bufs : y # x => mem'[y] = mem[y]
           /\ \A y : y \in free' <=> y \in free \/ (y = x /\ y # NoBuf)
<1> Types
  BY DEF Inv
<1>1. mem \in [Bufs -> 0..MaxChunks] /\ free \subseteq Bufs /\ 0 \in 0..MaxChunks
  BY BroadcastAssumption, SMT DEF Types
<1>2. mem' = [y \in Bufs |-> IF y \in {x} THEN 0 ELSE mem[y]]
  BY DEF PutChunkBuf
<1>3. mem' \in [Bufs -> 0..MaxChunks] /\ \A y \in Bufs : y # x => mem'[y] = mem[y]
  BY <1>1, <1>2
<1>4. \A y : y \in free' <=> y \in free \/ (y = x /\ y # NoBuf)
  BY DEF PutChunkBuf
<1>5. free' \subseteq Bufs
  BY <1>1, <1>4, SMT
<1> QED
  BY <1>3, <1>4, <1>5

LEMMA CompleteStep == Inv /\ Complete => Inv'
<1>ClosingRoom.
      ASSUME NEW r, r \in LisOf(r), NEW e \in Errors, Len(r.ch) < ChannelBuf
      PROVE  CloseWithError(r, e).ch = Append(r.ch, Chunk(NoBuf, e))
  <2> USE <1>ClosingRoom
  <2>1. PICK ch : ch = Append(r.ch, Chunk(NoBuf, e))
    OBVIOUS
  <2>2. CloseWithError(r, e) = [r EXCEPT !.termErr = e, !.closed = TRUE, !.ch = ch]
    BY <2>1 DEF CloseWithError
  <2>3. [r EXCEPT !.termErr = e, !.closed = TRUE, !.ch = ch].ch = ch
    BY DEF LisOf
  <2> QED
    BY <2>1, <2>2, <2>3
<1>PublishedRecord.
      ASSUME NEW r, r \in LisOf(r), NEW h \in Errors, NEW q,
             q = [r EXCEPT !.ready = TRUE, !.headerErr = h]
      PROVE  q \in LisOf(q) /\ q.ch = r.ch
  BY <1>PublishedRecord DEF LisOf
\* Complete: the end of the body is published to every listener.
<1>Published.
      ASSUME Inv, Complete, NEW l \in Listeners
      PROVE  /\ lis'[l] \in LisOf(lis'[l])
             /\ ~ Live(l) => lis'[l] = lis[l]
             /\ Live(l) => lis'[l].closed = TRUE /\ lis'[l].termErr = prod.end
             /\ \A k \in 1..Len(lis[l].ch) :
                  k \in 1..Len(lis'[l].ch) /\ lis'[l].ch[k] = lis[l].ch[k]
             /\ \/ Len(lis'[l].ch) = Len(lis[l].ch)
                \/ /\ Len(lis'[l].ch) = Len(lis[l].ch) + 1 /\ Live(l)
                   /\ Len(lis[l].ch) < ChannelBuf
                   /\ lis'[l].ch[Len(lis[l].ch) + 1].buf = NoBuf
  <2> USE <1>Published
  <2> Producer
    BY DEF Inv
  <2>0. lis[l] \in LisOf(lis[l]) /\ lis[l].ch \in Seq(Chunks)
    BY OfListener
  <2>2. CASE ~ Live(l)
    <3>1. lis'[l] = lis[l]
      BY <2>2 DEF Complete
    <3> QED
      BY <3>1, <2>0, <2>2
  <2>3. CASE Live(l)
    <3>0. PICK e \in Errors : e = prod.end
      BY DEF Producer, Complete, Errors
    <3>1. PICK h \in Errors : h = IF b.headerSet THEN "nil" ELSE prod.end
      BY <3>0 DEF Errors
    <3>2. PICK r, d, q : r = lis[l] /\ d = [r EXCEPT !.ready = TRUE, !.headerErr = h] /\ q = lis'[l]
      OBVIOUS
    <3>3. q = CloseWithError(d, e)
      BY <2>3, <3>0, <3>1, <3>2 DEF Complete
    <3>4. r \in LisOf(r) /\ r.ch = lis[l].ch
      BY <2>0, <3>2
    <3>5. d \in LisOf(d) /\ d.ch = r.ch
      <4>1. d = [r EXCEPT !.ready = TRUE, !.headerErr = h]
        BY <3>2
      <4> QED
        BY <3>4, <4>1, <1>PublishedRecord
    <3>6. /\ q \in LisOf(q) /\ q.closed = TRUE /\ q.termErr = e
          /\ Len(d.ch) < ChannelBuf => q.ch = Append(d.ch, Chunk(NoBuf, e))
          /\ ~ (Len(d.ch) < ChannelBuf) => q.ch = d.ch
      <4>1. d \in LisOf(d)
        BY <3>5
      <4>2. /\ q \in LisOf(q) /\ q.closed = TRUE /\ q.termErr = e
            /\ ~ (Len(d.ch) < ChannelBuf) => q.ch = d.ch
        BY <4>1, <3>3, Closing, ZenonT(30)
      <4>3. Len(d.ch) < ChannelBuf => q.ch = Append(d.ch, Chunk(NoBuf, e))
        BY <4>1, <3>3, <1>ClosingRoom
      <4> QED
        BY <4>2, <4>3
    <3>7. CASE ~ (Len(d.ch) < ChannelBuf)
      <4>1. lis'[l].ch = lis[l].ch
        BY <3>2, <3>4, <3>5, <3>6, <3>7
      <4> QED
        BY <4>1, <3>0, <3>2, <3>6, <2>3
    <3>8. CASE Len(d.ch) < ChannelBuf
      <4>1. PICK c \in Chunks : c = Chunk(NoBuf, e) /\ c.buf = NoBuf
        <5>1. Chunk(NoBuf, e) \in Chunks /\ Chunk(NoBuf, e).buf = NoBuf
          BY DEF Chunk, Chunks
        <5> QED
          BY <5>1
      <4>2. lis'[l].ch = Append(lis[l].ch, c) /\ Len(lis[l].ch) < ChannelBuf
        BY <4>1, <3>2, <3>4, <3>5, <3>6, <3>8
      <4>3. /\ Len(lis'[l].ch) = Len(lis[l].ch) + 1 /\ Len(lis[l].ch) \in Nat
            /\ \A k \in 1..Len(lis[l].ch) : lis'[l].ch[k] = lis[l].ch[k]
            /\ lis'[l].ch[Len(lis[l].ch) + 1] = c
        BY <4>2, <2>0, Pushing, SMT
      <4>4. \A k \in 1..Len(lis[l].ch) : k \in 1..Len(lis'[l].ch)
        BY <4>3, SMT
      <4>5. lis'[l] \in LisOf(lis'[l]) /\ lis'[l].closed = TRUE /\ lis'[l].termErr = prod.end
        BY <3>0, <3>2, <3>6
      <4> QED
        BY <4>1, <4>2, <4>3, <4>4, <4>5, <2>3
    <3> QED
      BY <3>7, <3>8
  <2> QED
    BY <2>2, <2>3
<1> SUFFICES ASSUME Inv, Complete PROVE Inv'
  OBVIOUS
<1> Types /\ Producer /\ Roll /\ Consumers /\ Streams /\ Sole
  BY DEF Inv
<1>0. prod.pc = "complete" /\ PutChunkBuf({prod.buf}) /\ UNCHANGED <<setup, con>>
  BY DEF Complete
<1>1. /\ mem' \in [Bufs -> 0..MaxChunks] /\ free' \subseteq Bufs
      /\ \A y \in Bufs : y # prod.buf => mem'[y] = mem[y]
      /\ \A y : y \in free' <=> y \in free \/ (y = prod.buf /\ y # NoBuf)
  BY <1>0, OfProducer, Put
<1>2. /\ prod' \in ProdOf /\ prod'.pc = "done" /\ prod'.buf = NoBuf /\ prod'.end = prod.end
      /\ prod'.n = prod.n /\ prod'.i = prod.i
      /\ prod'.owner = prod.owner /\ prod'.pos = prod.pos /\ prod'.kept = prod.kept
  BY OfProducer DEF Complete, ProdOf
<1>3. /\ b' \in BOf(b') /\ b'.listeners = b.listeners
      /\ b'.streaming = b.streaming /\ b'.done = TRUE /\ b'.err = prod.end
  <2>1. b \in BOf(b) /\ b' = [b EXCEPT !.done = TRUE, !.err = prod.end] /\ prod.end \in Errors
    BY <1>0 DEF Types, Complete, Producer, Errors
  <2>2. PICK e \in Errors : e = prod.end
    BY <2>1
  <2>3. b' = [b EXCEPT !.done = TRUE, !.err = e]
    BY <2>1, <2>2
  <2> QED
    BY <2>1, <2>2, <2>3 DEF BOf
<1>4. DOMAIN lis' = Listeners /\ lis' = [m \in Listeners |-> lis'[m]]
  BY DEF Complete
<1>5. ASSUME NEW l \in Listeners
      PROVE  /\ lis'[l] \in LisOf(lis'[l]) /\ Len(lis'[l].ch) <= ChannelBuf
             /\ ~ Live(l) => lis'[l] = lis[l]
             /\ Live(l) => lis'[l].closed = TRUE /\ lis'[l].termErr = prod.end
             /\ \A k \in 1..Len(lis[l].ch) :
                  k \in 1..Len(lis'[l].ch) /\ lis'[l].ch[k] = lis[l].ch[k]
             /\ \A k \in 1..Len(lis'[l].ch) :
                  \/ k \in 1..Len(lis[l].ch) /\ lis'[l].ch[k] = lis[l].ch[k]
                  \/ /\ k = Len(lis'[l].ch) /\ Len(lis'[l].ch) = Len(lis[l].ch) + 1
                     /\ lis'[l].ch[k].buf = NoBuf /\ Live(l)
  <2>1. Len(lis[l].ch) \in 0..ChannelBuf /\ Len(lis[l].ch) \in Nat
    BY OfListener
  <2>2. /\ lis'[l] \in LisOf(lis'[l])
        /\ ~ Live(l) => lis'[l] = lis[l]
        /\ Live(l) => lis'[l].closed = TRUE /\ lis'[l].termErr = prod.end
        /\ \A k \in 1..Len(lis[l].ch) :
             k \in 1..Len(lis'[l].ch) /\ lis'[l].ch[k] = lis[l].ch[k]
        /\ \/ Len(lis'[l].ch) = Len(lis[l].ch)
           \/ /\ Len(lis'[l].ch) = Len(lis[l].ch) + 1 /\ Live(l)
              /\ Len(lis[l].ch) < ChannelBuf
              /\ lis'[l].ch[Len(lis[l].ch) + 1].buf = NoBuf
    BY <1>Published
  <2>3. Len(lis'[l].ch) <= ChannelBuf
    BY <2>1, <2>2, BroadcastAssumption, SMT
  <2>4. ASSUME NEW k \in 1..Len(lis'[l].ch)
        PROVE  \/ k \in 1..Len(lis[l].ch) /\ lis'[l].ch[k] = lis[l].ch[k]
               \/ /\ k = Len(lis'[l].ch) /\ Len(lis'[l].ch) = Len(lis[l].ch) + 1
                  /\ lis'[l].ch[k].buf = NoBuf /\ Live(l)
    <3>1. CASE k \in 1..Len(lis[l].ch)
      BY <3>1, <2>2
    <3>2. CASE k \notin 1..Len(lis[l].ch)
      <4>1. k = Len(lis[l].ch) + 1 /\ Len(lis'[l].ch) = Len(lis[l].ch) + 1
        BY <3>2, <2>1, <2>2, SMT
      <4> QED
        BY <4>1, <2>1, <2>2
    <3> QED
      BY <3>1, <3>2
  <2> QED
    BY <2>2, <2>3, <2>4
<1>6. \A k \in 1..Len(b.listeners) : b.listeners[k] \in Listeners
  BY OfBroadcaster, SMT
<1>7. \A l \in Listeners : Live(l) => ~ lis[l].closed /\ con[l].pc \notin {"idle", "elsewhere"}
  BY <1>0 DEF Roll, Live
<1>8. Types'
  BY <1>0, <1>1, <1>2, <1>3, <1>4, <1>5 DEF Types
<1>9. Producer'
  BY <1>0, <1>2, <1>3 DEF Producer
<1>10. Roll'
  BY <1>0, <1>2, <1>3, ZenonT(60) DEF Roll
<1>11. Loop'
  BY <1>2 DEF Loop
<1>12. Consumers'
  <2> SUFFICES ASSUME NEW m \in Listeners
               PROVE  /\ \A k \in 1..Len(lis'[m].ch) :
                           /\ lis'[m].ch[k].buf = NoBuf => k = Len(lis'[m].ch) /\ lis'[m].closed
                           /\ lis'[m].ch[k].buf # NoBuf => lis'[m].ch[k].err = "nil"
                      /\ con[m].pc \in {"idle", "elsewhere"} => lis'[m].ch = <<>>
    BY <1>0 DEF Consumers
  <2>1. CASE ~ Live(m)
    <3>1. lis'[m] = lis[m]
      BY <2>1, <1>5
    <3> QED
      BY <3>1, SMT DEF Consumers
  <2>2. CASE Live(m)
    <3>1. ~ lis[m].closed /\ lis'[m].closed /\ con[m].pc \notin {"idle", "elsewhere"}
      BY <2>2, <1>5, <1>7
    <3>2. \A k \in 1..Len(lis[m].ch) : lis[m].ch[k].buf # NoBuf /\ lis[m].ch[k].err = "nil"
      BY <3>1 DEF Consumers
    <3>3. ASSUME NEW k \in 1..Len(lis'[m].ch)
          PROVE  /\ lis'[m].ch[k].buf = NoBuf => k = Len(lis'[m].ch) /\ lis'[m].closed
                 /\ lis'[m].ch[k].buf # NoBuf => lis'[m].ch[k].err = "nil"
      <4>1. \/ k \in 1..Len(lis[m].ch) /\ lis'[m].ch[k] = lis[m].ch[k]
            \/ k = Len(lis'[m].ch) /\ lis'[m].ch[k].buf = NoBuf
        BY <1>5, ZenonT(60)
      <4> QED
        BY <4>1, <3>1, <3>2
    <3> QED
      BY <3>1, <3>3
  <2> QED
    BY <2>1, <2>2
<1>13. Streams'
  <2> SUFFICES ASSUME NEW l \in Listeners PROVE Stream(l)'
    BY DEF Streams
  <2>0. /\ con[l].hold # NoBuf => mem'[con[l].hold] = mem[con[l].hold]
        /\ \A k \in 1..Len(lis[l].ch) :
             lis[l].ch[k].buf # NoBuf => mem'[lis[l].ch[k].buf] = mem[lis[l].ch[k].buf]
    <3>1. con[l].hold # NoBuf => mem'[con[l].hold] = mem[con[l].hold]
      BY <1>1, OfConsumer DEF Sole, HeldOnce
    <3>2. \A k \in 1..Len(lis[l].ch) :
            lis[l].ch[k].buf # NoBuf => mem'[lis[l].ch[k].buf] = mem[lis[l].ch[k].buf]
      BY <1>1, OfListener, ZenonT(60) DEF Sole, QueuedOnce
    <3> QED
      BY <3>1, <3>2
  <2>1. CASE ~ Live(l)
    <3>1. ~ Live(l)' /\ ~ b.done
      BY <2>1, <1>0, <1>3 DEF Live, Producer
    <3> QED
      BY <3>1, <2>0, <2>1, <1>0, <1>5, StreamKept
  <2>2. CASE Live(l)
    <3>1. /\ ~ lis[l].closed /\ lis'[l].closed /\ lis'[l].termErr = prod.end
          /\ con[l].pc \notin {"idle", "elsewhere"}
      BY <2>2, <1>5, <1>7
    <3>2. Fetched(l)' = Fetched(l)
      BY <1>0 DEF Fetched
    <3>3. Due(l) = prod.n /\ ~ b.done
      BY <1>0 DEF Due, Awaits, Producer
    <3>4. DataIn(l)' = Len(lis[l].ch)
      <4>1. \A k \in 1..Len(lis[l].ch) : lis[l].ch[k].buf # NoBuf
        BY <3>1 DEF Consumers
      <4>2. Len(lis[l].ch) \in Nat /\ Len(lis'[l].ch) \in Nat
        BY OfListener, <1>5, Fields, SMT
      <4>3. PICK n \in Nat : n = Len(lis'[l].ch)
        BY <4>2
      <4>4. CASE n = 0
        <5>1. Len(lis[l].ch) = 0
          <6>1. 1 \in 1..Len(lis[l].ch) => 1 \in 1..Len(lis'[l].ch)
            BY <1>5
          <6> QED
            BY <6>1, <4>2, <4>3, <4>4, SMT
        <5> QED
          BY <5>1, <4>3, <4>4, SMT DEF DataIn
      <4>5. CASE n > 0
        <5>1. n \in 1..Len(lis'[l].ch)
          BY <4>3, <4>5, SMT
        <5>2. CASE n \in 1..Len(lis[l].ch) /\ lis'[l].ch[n] = lis[l].ch[n]
          <6>1. n = Len(lis[l].ch)
            <7>1. Len(lis[l].ch) \in 1..Len(lis[l].ch)
              BY <5>2, <4>2, SMT
            <7>2. Len(lis[l].ch) \in 1..Len(lis'[l].ch)
              BY <7>1, <1>5
            <7> QED
              BY <7>2, <5>2, <4>2, <4>3, SMT
          <6>2. lis'[l].ch[Len(lis'[l].ch)].buf # NoBuf
            BY <5>2, <4>1, <4>3
          <6> QED
            BY <6>1, <6>2, <4>3 DEF DataIn
        <5>3. CASE Len(lis'[l].ch) = Len(lis[l].ch) + 1 /\ lis'[l].ch[n].buf = NoBuf
          <6>1. Len(lis'[l].ch) > 0 /\ lis'[l].ch[Len(lis'[l].ch)].buf = NoBuf
            BY <5>3, <4>3, <4>5
          <6>2. DataIn(l)' = Len(lis'[l].ch) - 1
            BY <6>1 DEF DataIn
          <6> QED
            BY <6>2, <5>3, <4>2, SMT
        <5> QED
          BY <5>1, <5>2, <5>3, <1>5, ZenonT(60)
      <4> QED
        BY <4>3, <4>4, <4>5, SMT
    <3>5. \A k \in 1..Len(lis'[l].ch) : lis'[l].ch[k].buf # NoBuf =>
            k \in 1..Len(lis[l].ch) /\ lis'[l].ch[k] = lis[l].ch[k]
      BY <1>5
    <3>6. Stream(l) /\ (con[l].pc = "write" => con[l].hold # NoBuf)
      BY DEF Streams, Consumers
    <3>7. CASE con[l].pc \in {"headers", "receive", "write"}
      <4>1. Fetched(l)' + DataIn(l)' = prod'.n
        BY <3>1, <3>2, <3>3, <3>4, <3>6, <3>7, <2>2, <1>2 DEF Stream
      <4>2. \A k \in 1..Len(lis'[l].ch) :
              lis'[l].ch[k].buf # NoBuf => mem'[lis'[l].ch[k].buf] = Fetched(l)' + k
        <5>1. \A k \in 1..Len(lis[l].ch) :
                lis[l].ch[k].buf # NoBuf => mem[lis[l].ch[k].buf] = Fetched(l) + k
          BY <3>6, <3>7 DEF Stream
        <5> QED
          BY <3>2, <3>5, <5>1, <2>0, ZenonT(30)
      <4>3. con[l].pc = "write" => mem'[con[l].hold] = Len(con[l].out) + 1
        BY <2>0, <3>6, <3>7 DEF Stream
      <4> QED
        BY <4>1, <4>2, <4>3, <3>1, <3>6, <3>7, <1>0, <1>3 DEF Stream
    <3>8. CASE con[l].pc \notin {"headers", "receive", "write"}
      BY <3>3, <3>6, <3>8, <1>0 DEF Stream
    <3> QED
      BY <3>7, <3>8
  <2> QED
    BY <2>1, <2>2
<1>14. Sole'
  <2>1. HeldOnce'
    BY <1>0, <1>1, <1>2 DEF Sole, HeldOnce
  <2>2. QueuedOnce'
    <3> SUFFICES ASSUME NEW m \in Listeners, NEW k \in 1..Len(lis'[m].ch),
                        lis'[m].ch[k].buf # NoBuf
                 PROVE  /\ lis'[m].ch[k].buf \notin free' /\ lis'[m].ch[k].buf # prod'.buf
                        /\ \A n \in Listeners : con'[n].hold # lis'[m].ch[k].buf
                        /\ \A n \in Listeners : \A j \in 1..Len(lis'[n].ch) :
                             lis'[n].ch[j].buf = lis'[m].ch[k].buf => n = m /\ j = k
      BY DEF QueuedOnce
    <3>1. k \in 1..Len(lis[m].ch) /\ lis'[m].ch[k] = lis[m].ch[k]
      BY <1>5
    <3>2. /\ lis[m].ch[k].buf \notin free /\ lis[m].ch[k].buf # prod.buf
          /\ \A n \in Listeners : con[n].hold # lis[m].ch[k].buf
      BY <3>1 DEF Sole, QueuedOnce
    <3>3. ASSUME NEW n \in Listeners, NEW j \in 1..Len(lis'[n].ch),
                 lis'[n].ch[j].buf = lis'[m].ch[k].buf
          PROVE  n = m /\ j = k
      <4>1. j \in 1..Len(lis[n].ch) /\ lis'[n].ch[j] = lis[n].ch[j]
        BY <1>5, <3>3, ZenonT(60)
      <4> QED
        BY <4>1, <3>1, <3>3, SMTT(30) DEF Sole, QueuedOnce
    <3> QED
      BY <3>1, <3>2, <3>3, <1>0, <1>1, <1>2
  <2>3. ASSUME NEW y \in Bufs PROVE Somewhere(y)'
    <3>1. Somewhere(y) /\ y # NoBuf
      BY OfBroadcaster DEF Sole
    <3>2. CASE \E m \in Listeners : \E k \in 1..Len(lis[m].ch) : lis[m].ch[k].buf = y
      <4>1. PICK m \in Listeners : \E k \in 1..Len(lis[m].ch) : lis[m].ch[k].buf = y
        BY <3>2
      <4>2. PICK k \in 1..Len(lis[m].ch) : lis[m].ch[k].buf = y
        BY <4>1
      <4>3. k \in 1..Len(lis'[m].ch) /\ lis'[m].ch[k].buf = y
        BY <4>2, <1>5, ZenonT(60)
      <4> QED
        BY <4>3 DEF Somewhere
    <3>3. CASE y \in free \/ prod.buf = y \/ \E m \in Listeners : con[m].hold = y
      BY <3>1, <3>3, <1>0, <1>1 DEF Somewhere
    <3> QED
      BY <3>1, <3>2, <3>3 DEF Somewhere
  <2>4. prod'.buf \notin free'
    BY <1>1, <1>2, OfBroadcaster
  <2> QED
    BY <2>1, <2>2, <2>3, <2>4 DEF Sole
<1> QED
  BY <1>8, <1>9, <1>10, <1>11, <1>12, <1>13, <1>14 DEF Inv

(***************************************************************************)
(* The consumers' steps.                                                    *)
(***************************************************************************)
LEMMA WaitForHeadersStep ==
    ASSUME Inv, NEW l \in Listeners, WaitForHeaders(l) PROVE Inv'
<1> Types /\ Consumers /\ Streams
  BY DEF Inv
<1>0. con[l].pc = "headers" /\ UNCHANGED <<setup, b, prod, lis, mem, free>>
  BY DEF WaitForHeaders
<1>1. con[l].hold = NoBuf /\ con[l].res # "ok" /\ Stream(l)
  BY <1>0 DEF Consumers, Streams
<1>2. CASE Failed(l)
  BY <1>0, <1>1, <1>2, FailedConsumer, ConsumerMoves
<1>3. CASE con' = [con EXCEPT ![l].pc = "receive"]
  <2>1. PICK c : c = [con[l] EXCEPT !.pc = "receive"]
    OBVIOUS
  <2>2. /\ c \in ConOf /\ c.pc = "receive" /\ c.hold = con[l].hold /\ c.out = con[l].out
        /\ c.res = con[l].res
    BY <2>1, OfConsumer DEF ConOf
  <2>3. con' = [con EXCEPT ![l] = c] /\ con \in [Listeners -> ConOf]
    BY <1>3, <2>1 DEF Types
  <2>4. con' \in [Listeners -> ConOf] /\ con'[l] = c /\ \A m \in Listeners \ {l} : con'[m] = con[m]
    BY <2>2, <2>3
  <2>5. Fetched(l)' = Fetched(l) /\ DataIn(l)' = DataIn(l) /\ Due(l)' = Due(l) /\ Live(l)' = Live(l)
    BY <1>0, <2>2, <2>4 DEF Fetched, DataIn, Due, Awaits, Live
  <2>6. Stream(l)'
    BY <1>0, <1>1, <2>2, <2>4, <2>5, ZenonT(60) DEF Stream
  <2> QED
    BY <1>0, <1>1, <2>2, <2>4, <2>6, ConsumerMoves
<1> QED
  BY <1>2, <1>3 DEF WaitForHeaders

LEMMA ChannelClosedStep ==
    ASSUME Inv, NEW l \in Listeners, ChannelClosed(l) PROVE Inv'
<1> Types /\ Consumers /\ Streams
  BY DEF Inv
<1>0. /\ con[l].pc = "receive" /\ lis[l].ch = <<>> /\ lis[l].closed
      /\ UNCHANGED <<setup, b, prod, lis, mem, free>>
  BY DEF ChannelClosed
<1>1. con[l].hold = NoBuf /\ Stream(l)
  BY <1>0 DEF Consumers, Streams
<1>2. CASE Failed(l)
  BY <1>0, <1>1, <1>2, FailedConsumer, ConsumerMoves
<1>3. CASE lis[l].termErr = "nil" /\ con' = [con EXCEPT ![l].pc = "drain", ![l].res = "ok"]
  <2>1. PICK c : c = [con[l] EXCEPT !.pc = "drain", !.res = "ok"]
    OBVIOUS
  <2>2. /\ c \in ConOf /\ c.pc = "drain" /\ c.hold = con[l].hold /\ c.out = con[l].out
        /\ c.res = "ok"
    BY <2>1, OfConsumer DEF ConOf
  <2>3. con' = [con EXCEPT ![l] = c] /\ con \in [Listeners -> ConOf]
    BY <1>3, <2>1 DEF Types
  <2>4. con' \in [Listeners -> ConOf] /\ con'[l] = c /\ \A m \in Listeners \ {l} : con'[m] = con[m]
    BY <2>2, <2>3
  <2>5. Fetched(l) = Len(con[l].out) /\ DataIn(l) = 0 /\ Len(con[l].out) \in Nat
    BY <1>0, OfConsumer, SMT DEF Fetched, DataIn
  <2>6. b.done /\ b.err = "nil" /\ Len(con[l].out) = prod.n
    BY <1>0, <1>1, <1>3, <2>5, SMT DEF Stream
  <2>7. Stream(l)'
    BY <1>0, <1>1, <2>2, <2>4, <2>6 DEF Stream
  <2> QED
    BY <1>0, <1>1, <2>2, <2>4, <2>7, ConsumerMoves
<1> QED
  BY <1>2, <1>3 DEF ChannelClosed

\* The steps of a consumer that has its headers.
LEMMA ReceiveSteps ==
    \A l \in Listeners : Inv /\ (Drain(l) \/ Write(l) \/ ReceiveChunk(l)) => Inv'
\* What receiving from a channel leaves of it.
<1>Popping.
      ASSUME NEW S, NEW s \in Seq(S), s # <<>>
      PROVE  /\ Tail(s) \in Seq(S)
             /\ Len(s) \in Nat \ {0} /\ Len(Tail(s)) = Len(s) - 1
             /\ \A k \in 1..(Len(s) - 1) : Tail(s)[k] = s[k + 1]
             /\ Head(s) = s[1] /\ s[1] \in S
  BY <1>Popping, SMT
\* The next chunk leaves a listener's channel.
<1>Popped.
      ASSUME Inv, NEW l \in Listeners, lis[l].ch # <<>>, Pop(l)
      PROVE  /\ lis' = [m \in Listeners |-> lis'[m]]
             /\ \A m \in Listeners \ {l} : lis'[m] = lis[m]
             /\ lis'[l] \in LisOf(lis'[l])
             /\ lis'[l].closed = lis[l].closed /\ lis'[l].ready = lis[l].ready
             /\ lis'[l].headerErr = lis[l].headerErr /\ lis'[l].termErr = lis[l].termErr
             /\ lis'[l].disconnected = lis[l].disconnected
             /\ Len(lis[l].ch) \in Nat \ {0} /\ Len(lis'[l].ch) = Len(lis[l].ch) - 1
             /\ \A k \in 1..(Len(lis[l].ch) - 1) : lis'[l].ch[k] = lis[l].ch[k + 1]
             /\ Head(lis[l].ch) = lis[l].ch[1] /\ lis[l].ch[1] \in Chunks
             /\ 1 \in 1..Len(lis[l].ch)
  <2> USE <1>Popped
  <2> Types
    BY DEF Inv
  <2>1. PICK ch \in Seq(Chunks) : ch = lis[l].ch
    BY OfListener
  <2>2. /\ Tail(ch) \in Seq(Chunks) /\ Len(ch) \in Nat \ {0} /\ Len(Tail(ch)) = Len(ch) - 1
        /\ \A k \in 1..(Len(ch) - 1) : Tail(ch)[k] = ch[k + 1]
        /\ Head(ch) = ch[1] /\ ch[1] \in Chunks
    BY <2>1, <1>Popping
  <2>3. PICK t \in Seq(Chunks) : t = Tail(ch)
    BY <2>2
  <2>4. PICK r : r = lis[l]
    OBVIOUS
  <2>5. r \in LisOf(r)
    BY <2>4, OfListener
  <2>6. PICK q : q = [r EXCEPT !.ch = t]
    OBVIOUS
  <2>7. /\ q \in LisOf(q) /\ q.ch = t /\ q.closed = r.closed /\ q.ready = r.ready
        /\ q.headerErr = r.headerErr /\ q.termErr = r.termErr /\ q.disconnected = r.disconnected
    BY <2>5, <2>6 DEF LisOf
  <2>8. lis' = [lis EXCEPT ![l] = q] /\ lis = [m \in Listeners |-> lis[m]]
    BY <2>1, <2>3, <2>4, <2>6 DEF Pop, Types
  <2>9. /\ lis' = [m \in Listeners |-> lis'[m]] /\ lis'[l] = q
        /\ \A m \in Listeners \ {l} : lis'[m] = lis[m]
    BY <2>8
  <2>10. /\ Len(lis[l].ch) \in Nat \ {0} /\ Len(lis'[l].ch) = Len(lis[l].ch) - 1
         /\ \A k \in 1..(Len(lis[l].ch) - 1) : lis'[l].ch[k] = lis[l].ch[k + 1]
         /\ Head(lis[l].ch) = lis[l].ch[1] /\ lis[l].ch[1] \in Chunks
    <3>1. lis'[l].ch = Tail(ch)
      BY <2>3, <2>7, <2>9
    <3> QED
      BY <3>1, <2>1, <2>2
  <2>11. 1 \in 1..Len(lis[l].ch)
    BY <2>10, SMT
  <2> QED
    BY <2>4, <2>7, <2>9, <2>10, <2>11
\* Each buffer still queued was queued before, in one place.
<1>PoppedOnce.
      ASSUME Inv, NEW l \in Listeners, lis[l].ch # <<>>, Pop(l), prod' = prod,
             \A y : y \in free' => y \in free \/ y = lis[l].ch[1].buf,
             \A m \in Listeners : con'[m].hold \in {con[m].hold, NoBuf, lis[l].ch[1].buf}
      PROVE  QueuedOnce'
  <2> USE <1>PoppedOnce
  <2> Sole
    BY DEF Inv
  <2> SUFFICES ASSUME NEW m \in Listeners, NEW k \in 1..Len(lis'[m].ch),
                      lis'[m].ch[k].buf # NoBuf
               PROVE  /\ lis'[m].ch[k].buf \notin free' /\ lis'[m].ch[k].buf # prod'.buf
                      /\ \A n \in Listeners : con'[n].hold # lis'[m].ch[k].buf
                      /\ \A n \in Listeners : \A j \in 1..Len(lis'[n].ch) :
                           lis'[n].ch[j].buf = lis'[m].ch[k].buf => n = m /\ j = k
    BY DEF QueuedOnce
  <2> DEFINE Old(n, j) == IF n = l THEN j + 1 ELSE j
  <2>1. ASSUME NEW n \in Listeners, NEW j \in 1..Len(lis'[n].ch)
        PROVE  /\ Old(n, j) \in 1..Len(lis[n].ch) /\ lis'[n].ch[j] = lis[n].ch[Old(n, j)]
               /\ n = l => Old(n, j) # 1
    <3>1. CASE n = l
      <4>1. PICK c \in Nat : c = Len(lis[l].ch)
        BY <1>Popped
      <4>2. Len(lis'[l].ch) = c - 1 /\ \A k1 \in 1..(c - 1) : lis'[l].ch[k1] = lis[l].ch[k1 + 1]
        BY <4>1, <1>Popped
      <4>3. j \in 1..(c - 1) /\ j + 1 \in 1..c /\ j + 1 # 1 /\ Old(n, j) = j + 1
        BY <3>1, <4>1, <4>2, SMT
      <4> QED
        BY <3>1, <4>1, <4>2, <4>3
    <3>2. CASE n # l
      BY <3>2, <1>Popped, SMT
    <3> QED
      BY <3>1, <3>2
  <2>2. PICK p \in 1..Len(lis[m].ch) : p = Old(m, k) /\ lis'[m].ch[k] = lis[m].ch[p] /\ (m = l => p # 1)
    BY <2>1, SMT
  <2>3. /\ lis[m].ch[p].buf \notin free /\ lis[m].ch[p].buf # prod.buf
        /\ \A n \in Listeners : con[n].hold # lis[m].ch[p].buf
    <3>1. lis[m].ch[p].buf # NoBuf /\ QueuedOnce
      BY <2>2 DEF Sole
    <3> QED
      BY <3>1, ZenonT(30) DEF QueuedOnce
  <2>4. lis[m].ch[p].buf # lis[l].ch[1].buf
    <3>1. 1 \in 1..Len(lis[l].ch)
      BY <1>Popped
    <3> QED
      <4>1. lis[m].ch[p].buf # NoBuf /\ QueuedOnce /\ (m # l \/ p # 1)
        BY <2>2 DEF Sole
      <4>2. \A n \in Listeners : \A j \in 1..Len(lis[n].ch) :
              lis[n].ch[j].buf = lis[m].ch[p].buf => n = m /\ j = p
        BY <4>1, ZenonT(30) DEF QueuedOnce
      <4> QED
        BY <3>1, <4>1, <4>2
  <2>5. ASSUME NEW n \in Listeners, NEW j \in 1..Len(lis'[n].ch),
               lis'[n].ch[j].buf = lis'[m].ch[k].buf
        PROVE  n = m /\ j = k
    <3>1. PICK q \in 1..Len(lis[n].ch) : q = Old(n, j) /\ lis'[n].ch[j] = lis[n].ch[q]
      BY <2>1
    <3>2. n = m /\ q = p
      <4>1. lis[n].ch[q].buf = lis[m].ch[p].buf /\ lis[m].ch[p].buf # NoBuf
        BY <3>1, <2>2, <2>5
      <4>2. QueuedOnce
        BY DEF Sole
      <4>3. \A h \in Listeners : \A i \in 1..Len(lis[h].ch) :
              lis[h].ch[i].buf = lis[m].ch[p].buf => h = m /\ i = p
        BY <4>1, <4>2, ZenonT(30) DEF QueuedOnce
      <4> QED
        BY <4>1, <4>3
    <3> QED
      BY <3>1, <3>2, <2>2, SMT
  <2> QED
    BY <2>2, <2>3, <2>4, <2>5
\* Each buffer of the channel is still in it, but the one taken.
<1>PoppedSomewhere.
      ASSUME Inv, NEW l \in Listeners, lis[l].ch # <<>>, Pop(l), prod' = prod,
             NEW y \in Bufs,
             y = lis[l].ch[1].buf => y \in free' \/ \E m \in Listeners : con'[m].hold = y,
             y \in free => y \in free',
             \A m \in Listeners : con[m].hold = y => con'[m].hold = y \/ y \in free'
      PROVE  Somewhere(y)'
  <2> USE <1>PoppedSomewhere
  <2> Sole
    BY DEF Inv
  <2>1. Somewhere(y)
    BY DEF Sole
  <2>2. CASE y = lis[l].ch[1].buf
    BY <2>2 DEF Somewhere
  <2>3. CASE y \in free \/ prod.buf = y \/ \E m \in Listeners : con[m].hold = y
    BY <2>3 DEF Somewhere
  <2>4. CASE /\ y # lis[l].ch[1].buf
             /\ \E m \in Listeners : \E k \in 1..Len(lis[m].ch) : lis[m].ch[k].buf = y
    <3>1. PICK m \in Listeners : \E k \in 1..Len(lis[m].ch) : lis[m].ch[k].buf = y
      BY <2>4
    <3>2. PICK k \in 1..Len(lis[m].ch) : lis[m].ch[k].buf = y
      BY <3>1
    <3>3. CASE m # l
      <4>1. lis'[m] = lis[m]
        BY <3>3, <1>Popped, SMT
      <4> QED
        BY <3>2, <4>1 DEF Somewhere
    <3>4. CASE m = l
      <4>1. k # 1
        BY <2>4, <3>2, <3>4
      <4>2. PICK j : j = k - 1
        OBVIOUS
      <4>3. j \in 1..Len(lis'[l].ch) /\ lis'[l].ch[j] = lis[l].ch[k]
        <5>1. Len(lis[l].ch) \in Nat /\ Len(lis'[l].ch) = Len(lis[l].ch) - 1
          BY <1>Popped
        <5>2. j \in 1..(Len(lis[l].ch) - 1) /\ j + 1 = k
          BY <5>1, <4>1, <4>2, <3>4, SMT
        <5> QED
          BY <5>1, <5>2, <1>Popped
      <4> QED
        BY <3>2, <3>4, <4>3 DEF Somewhere
    <3> QED
      BY <3>3, <3>4
  <2> QED
    BY <2>1, <2>2, <2>3, <2>4 DEF Somewhere
\* What a chunk taken from a channel leaves true of the channels.
<1>PoppedRest.
      ASSUME Inv, NEW l \in Listeners, lis[l].ch # <<>>, Pop(l)
      PROVE  /\ \A m \in Listeners : \A k \in 1..Len(lis'[m].ch) :
                  /\ lis'[m].ch[k].buf = NoBuf => k = Len(lis'[m].ch) /\ lis'[m].closed
                  /\ lis'[m].ch[k].buf # NoBuf => lis'[m].ch[k].err = "nil"
             /\ \A m \in Listeners : lis'[m] \in LisOf(lis'[m]) /\ Len(lis'[m].ch) <= ChannelBuf
             /\ \A m \in Listeners : lis'[m].closed = lis[m].closed /\ (HasRoom(m) => HasRoom(m)')
  <2> USE <1>PoppedRest
  <2> Types /\ Consumers
    BY DEF Inv
  <2>1. ASSUME NEW m \in Listeners, NEW k \in 1..Len(lis'[m].ch)
        PROVE  /\ lis'[m].ch[k].buf = NoBuf => k = Len(lis'[m].ch) /\ lis'[m].closed
               /\ lis'[m].ch[k].buf # NoBuf => lis'[m].ch[k].err = "nil"
    <3>1. CASE m # l
      <4>1. lis'[m] = lis[m]
        BY <3>1, <1>Popped
      <4> QED
        BY <4>1, SMT DEF Consumers
    <3>2. CASE m = l
      <4>1. /\ Len(lis[l].ch) \in Nat /\ Len(lis'[l].ch) = Len(lis[l].ch) - 1
            /\ lis'[l].closed = lis[l].closed
        BY <1>Popped
      <4>2. PICK p \in 1..Len(lis[l].ch) : p = k + 1 /\ lis'[l].ch[k] = lis[l].ch[p]
        <5>1. k \in 1..(Len(lis[l].ch) - 1)
          BY <3>2, <4>1
        <5> QED
          BY <5>1, <4>1, <1>Popped, SMT
      <4>3. /\ lis[l].ch[p].buf = NoBuf => p = Len(lis[l].ch) /\ lis[l].closed
            /\ lis[l].ch[p].buf # NoBuf => lis[l].ch[p].err = "nil"
        BY <4>2 DEF Consumers
      <4>4. lis[l].ch[p].buf = NoBuf => k = Len(lis'[l].ch)
        BY <4>1, <4>2, <4>3, SMT
      <4> QED
        BY <3>2, <4>1, <4>2, <4>3, <4>4
    <3> QED
      BY <3>1, <3>2
  <2>2. ASSUME NEW m \in Listeners PROVE lis'[m] \in LisOf(lis'[m]) /\ Len(lis'[m].ch) <= ChannelBuf
    <3>1. CASE m # l
      BY <3>1, <1>Popped, SMT DEF Types
    <3>2. CASE m = l
      <4>1. Len(lis[l].ch) \in 0..ChannelBuf
        BY OfListener
      <4> QED
        BY <3>2, <4>1, <1>Popped, BroadcastAssumption, SMT
    <3> QED
      BY <3>1, <3>2
  <2>3. ASSUME NEW m \in Listeners PROVE lis'[m].closed = lis[m].closed /\ (HasRoom(m) => HasRoom(m)')
    <3>1. CASE m # l
      BY <3>1, <1>Popped DEF HasRoom
    <3>2. CASE m = l
      <4>1. /\ Len(lis[l].ch) \in Nat /\ Len(lis'[l].ch) = Len(lis[l].ch) - 1
            /\ lis'[l].closed = lis[l].closed
        BY <1>Popped
      <4> QED
        BY <3>2, <4>1, BroadcastAssumption, SMT DEF HasRoom
    <3> QED
      BY <3>1, <3>2
  <2> QED
    BY <2>1, <2>2, <2>3
\* What a consumer's step leaves true of the producer and of the listeners.
<1>ConsumerActs.
      ASSUME Inv, NEW l \in Listeners, UNCHANGED <<setup, b, prod>>,
             con' \in [Listeners -> ConOf], \A m \in Listeners \ {l} : con'[m] = con[m],
             con[l].pc \in {"receive", "write", "drain"},
             con'[l].pc \in {"receive", "write", "drain"},
             con'[l].hold = NoBuf <=> con'[l].pc # "write",
             con'[l].res = "ok" => con'[l].pc = "drain",
             lis' = [m \in Listeners |-> lis'[m]],
             \A m \in Listeners \ {l} : lis'[m] = lis[m],
             \A m \in Listeners : \A k \in 1..Len(lis'[m].ch) :
               /\ lis'[m].ch[k].buf = NoBuf => k = Len(lis'[m].ch) /\ lis'[m].closed
               /\ lis'[m].ch[k].buf # NoBuf => lis'[m].ch[k].err = "nil",
             \A m \in Listeners : lis'[m] \in LisOf(lis'[m]) /\ Len(lis'[m].ch) <= ChannelBuf,
             \A m \in Listeners : lis'[m].closed = lis[m].closed /\ (HasRoom(m) => HasRoom(m)'),
             mem' \in [Bufs -> 0..MaxChunks], free' \subseteq Bufs,
             prod.buf \in Bufs => mem'[prod.buf] = mem[prod.buf]
      PROVE  Types' /\ Producer' /\ Roll' /\ Loop' /\ Consumers'
  <2> USE <1>ConsumerActs
  <2> Types /\ Producer /\ Roll /\ Loop /\ Consumers
    BY DEF Inv
  <2>0. \A k \in 1..Len(b.listeners) : b.listeners[k] \in Listeners
    BY OfBroadcaster, SMT
  <2>2. Types'
    <3>1. DOMAIN lis' = Listeners
      OBVIOUS
    <3> QED
      BY <3>1 DEF Types
  <2>3. Producer'
    <3>1. prod.pc = "request" => con'[CacheListener].pc = "idle"
      <4>1. CacheListener \in Listeners
        BY BroadcastAssumption DEF Listeners
      <4> QED
        BY <4>1 DEF Producer
    <3> QED
      BY <3>1 DEF Producer
  <2>4. Roll'
    <3>1. \A m \in Listeners : con[m].pc \notin {"idle", "elsewhere"} =>
            con'[m].pc \notin {"idle", "elsewhere"}
      OBVIOUS
    <3> QED
      BY <2>0, <3>1 DEF Roll
  <2>5. Loop'
    <3> SUFFICES ASSUME prod.pc = "copy" PROVE Loop'
      BY DEF Loop
    <3>2. \A m \in 1..Len(prod.kept) : prod.kept[m] \in Listeners
      BY OfProducer, SMT
    <3>3. prod.owner # 0 => HasRoom(b.listeners[prod.owner])'
      <4>1. prod.owner # 0 => prod.owner \in 1..Len(b.listeners) /\ HasRoom(b.listeners[prod.owner])
        BY OfProducer, OfBroadcaster, SMTT(30) DEF Loop
      <4> QED
        BY <4>1, <2>0
    <3>4. \A m \in 1..Len(prod.kept) :
            /\ ~ lis'[prod.kept[m]].closed
            /\ \E k \in 1..Len(b.listeners) : Copied(k) /\ b.listeners[k] = prod.kept[m]
      BY <3>2 DEF Loop
    <3>5. ASSUME NEW k \in 1..Len(b.listeners)
          PROVE  IF Copied(k)
                 THEN lis'[b.listeners[k]].closed
                      \/ \E m \in 1..Len(prod.kept) : prod.kept[m] = b.listeners[k]
                 ELSE ~ lis'[b.listeners[k]].closed
      BY <2>0 DEF Loop
    <3> QED
      <4>1. \A k \in 1..Len(b.listeners) :
              IF Copied(k)
              THEN lis'[b.listeners[k]].closed
                   \/ \E m \in 1..Len(prod.kept) : prod.kept[m] = b.listeners[k]
              ELSE ~ lis'[b.listeners[k]].closed
        BY <3>5
      <4> QED
        BY <3>3, <3>4, <4>1, LoopKept
  <2>6. Consumers'
    <3> SUFFICES ASSUME NEW m \in Listeners
                 PROVE  /\ con'[m].hold = NoBuf <=> con'[m].pc # "write"
                        /\ con'[m].pc \in {"idle", "elsewhere"} => lis'[m].ch = <<>>
                        /\ con'[m].pc \in {"idle", "elsewhere", "headers"} => con'[m].out = <<>>
                        /\ con'[m].res = "ok" => con'[m].pc = "drain"
      BY DEF Consumers
    <3>1. CASE m = l
      BY <3>1
    <3>2. CASE m # l
      BY <3>2, SMT DEF Consumers
    <3> QED
      BY <3>1, <3>2
  <2> QED
    BY <2>2, <2>3, <2>4, <2>5, <2>6
\* The others' streams do not see a consumer's step.
<1>OtherStreams.
      ASSUME Inv, NEW l \in Listeners, UNCHANGED <<b, prod>>,
             NEW m \in Listeners, m # l, con'[m] = con[m], lis'[m] = lis[m],
             NEW x, \A y \in Bufs : y # x => mem'[y] = mem[y],
             x # NoBuf => con[l].hold = x \/ \E k \in 1..Len(lis[l].ch) : lis[l].ch[k].buf = x
      PROVE  Stream(m)'
  <2> USE <1>OtherStreams
  <2> Sole
    BY DEF Inv
  <2>1. con[m].hold # NoBuf => mem'[con[m].hold] = mem[con[m].hold]
    <3> SUFFICES ASSUME con[m].hold # NoBuf PROVE con[m].hold \in Bufs /\ con[m].hold # x
      OBVIOUS
    <3>1. con[m].hold \in Bufs
      BY OfConsumer
    <3>2. con[l].hold # con[m].hold
      BY DEF Sole, HeldOnce
    <3>3. \A k \in 1..Len(lis[l].ch) : lis[l].ch[k].buf # con[m].hold
      BY HeldApart
    <3> QED
      BY <3>1, <3>2, <3>3
  <2>2. ASSUME NEW k \in 1..Len(lis[m].ch), lis[m].ch[k].buf # NoBuf
        PROVE  mem'[lis[m].ch[k].buf] = mem[lis[m].ch[k].buf]
    <3>1. lis[m].ch[k].buf # x
      <4>1. /\ con[l].hold # lis[m].ch[k].buf
            /\ \A j \in 1..Len(lis[l].ch) : lis[l].ch[j].buf # lis[m].ch[k].buf
        BY <2>2, QueuedApart
      <4> QED
        BY <2>2, <4>1
    <3> QED
      BY <2>2, <3>1, OfListener
  <2>3. Live(m)' => Live(m) /\ Due(m)' = Due(m)
    BY DEF Live, Due, Awaits
  <2> QED
    BY <2>1, <2>2, <2>3, StreamKept
<1>DrainStep.
      ASSUME Inv, NEW l \in Listeners, Drain(l) PROVE Inv'
  <2> USE <1>DrainStep
  <2> Types /\ Consumers /\ Streams /\ Sole
    BY DEF Inv
  <2>0. /\ con[l].pc = "drain" /\ lis[l].ch # <<>> /\ Pop(l)
        /\ UNCHANGED <<setup, b, prod, con>>
    BY DEF Drain
  <2>1. PICK x \in Bufs \cup {NoBuf} : x = lis[l].ch[1].buf
    BY <2>0, <1>Popped, OfListener
  <2>2. PutChunkBuf({x}) /\ 1 \in 1..Len(lis[l].ch)
    BY <2>0, <2>1, <1>Popped, SMT DEF Drain
  <2>3. /\ mem' \in [Bufs -> 0..MaxChunks] /\ free' \subseteq Bufs
        /\ \A y \in Bufs : y # x => mem'[y] = mem[y]
        /\ \A y : y \in free' <=> y \in free \/ (y = x /\ y # NoBuf)
    BY <2>2, Put
  <2>4. /\ x # NoBuf => x # prod.buf /\ \A m \in Listeners : con[m].hold # x
        /\ con[l].hold = NoBuf /\ con[l].res = con'[l].res
    <3>1. QueuedOnce /\ Consumers
      BY DEF Sole
    <3>2. x # NoBuf => x # prod.buf /\ \A m \in Listeners : con[m].hold # x
      <4>1. lis[l].ch[1].buf # NoBuf =>
              /\ lis[l].ch[1].buf # prod.buf
              /\ \A m \in Listeners : con[m].hold # lis[l].ch[1].buf
        BY <3>1, <2>2, ZenonT(30) DEF QueuedOnce
      <4> QED
        BY <4>1, <2>1
    <3>3. con[l].hold = NoBuf /\ con[l].res = con'[l].res
      BY <3>1, <2>0, ZenonT(30) DEF Consumers
    <3> QED
      BY <3>2, <3>3
  <2>5. Types' /\ Producer' /\ Roll' /\ Loop' /\ Consumers'
    <3>1. con \in [Listeners -> ConOf]
      BY DEF Types
    <3>2. prod.buf \in Bufs => mem'[prod.buf] = mem[prod.buf]
      BY <2>3, <2>4, OfBroadcaster
    <3> QED
      BY <2>0, <2>3, <2>4, <3>1, <3>2, <1>Popped, <1>PoppedRest, <1>ConsumerActs, ZenonT(60)
  <2>6. Streams'
    <3>1. ASSUME NEW m \in Listeners, m # l PROVE Stream(m)'
      <4>1. lis'[m] = lis[m] /\ con'[m] = con[m]
        BY <3>1, <2>0, <1>Popped
      <4> QED
        BY <3>1, <4>1, <2>0, <2>1, <2>2, <2>3, <1>OtherStreams, ZenonT(60)
    <3>2. Stream(l)'
      BY <2>0 DEF Streams, Stream
    <3> QED
      BY <3>1, <3>2, SMT DEF Streams
  <2>7. QueuedOnce'
    BY <2>0, <2>1, <2>3, <1>PoppedOnce
  <2>8. HeldOnce'
    BY <2>0, <2>3, <2>4, ZenonT(60) DEF Sole, HeldOnce
  <2>9. ASSUME NEW y \in Bufs PROVE Somewhere(y)'
    <3>1. y # NoBuf
      BY OfBroadcaster
    <3> QED
      BY <3>1, <2>0, <2>1, <2>3, <1>PoppedSomewhere
  <2>10. prod'.buf \notin free'
    <3>1. prod.buf \notin free
      BY DEF Sole
    <3> QED
      BY <3>1, <2>0, <2>3, <2>4
  <2> QED
    BY <2>5, <2>6, <2>7, <2>8, <2>9, <2>10 DEF Inv, Sole
<1>WriteStep.
      ASSUME Inv, NEW l \in Listeners, Write(l) PROVE Inv'
  <2> USE <1>WriteStep
  <2> Types /\ Consumers /\ Streams /\ Sole
    BY DEF Inv
  <2>0. con[l].pc = "write" /\ UNCHANGED <<setup, b, prod, lis>>
    BY DEF Write
  <2>1. PICK x \in Bufs : x = con[l].hold
    BY <2>0, OfConsumer DEF Consumers
  <2>2. x # NoBuf /\ PutChunkBuf({x})
    BY <2>1, OfBroadcaster DEF Write
  <2>3. /\ mem' \in [Bufs -> 0..MaxChunks] /\ free' \subseteq Bufs
        /\ \A y \in Bufs : y # x => mem'[y] = mem[y]
        /\ \A y : y \in free' <=> y \in free \/ y = x
    BY <2>2, Put
  <2>4. x # prod.buf /\ x \notin free /\ \A m \in Listeners : con[m].hold = x => m = l
    BY <2>1, <2>2 DEF Sole, HeldOnce
  <2>5. \A m \in Listeners : \A k \in 1..Len(lis[m].ch) : lis[m].ch[k].buf # x
    BY <2>1, <2>2 DEF Sole, QueuedOnce
  <2>6. /\ con' \in [Listeners -> ConOf] /\ \A m \in Listeners \ {l} : con'[m] = con[m]
        /\ con'[l].pc \in {"receive", "drain"} /\ con'[l].hold = NoBuf
        /\ con'[l].res = "ok" => con'[l].pc = "drain"
        /\ Stream(l)'
    <3>1. CASE Failed(l)
      BY <3>1, FailedConsumer
    <3>2. CASE con' = [con EXCEPT ![l].pc = "receive", ![l].hold = NoBuf,
                                  ![l].out = Append(@, mem[con[l].hold])]
      <4>1. Stream(l) /\ mem[x] = Len(con[l].out) + 1 /\ con[l].res # "ok"
        BY <2>0, <2>1, ZenonT(60) DEF Streams, Stream, Consumers
      <4>2. PICK n \in Nat : n = Len(con[l].out)
        BY OfConsumer
      <4>3. PICK o \in Seq(Nat) : o = Append(con[l].out, n + 1)
        <5>1. PICK w \in Seq(Nat) : w = con[l].out
          BY OfConsumer
        <5>2. Append(w, n + 1) \in Seq(Nat)
          BY SMT
        <5> QED
          BY <5>1, <5>2
      <4>4. Len(o) = n + 1 /\ \A k \in 1..n : o[k] = con[l].out[k]
        <5>1. PICK w \in Seq(Nat) : w = con[l].out
          BY OfConsumer
        <5>2. Len(Append(w, n + 1)) = Len(w) + 1
              /\ \A k \in 1..Len(w) : Append(w, n + 1)[k] = w[k]
          BY SMTT(30)
        <5> QED
          BY <4>2, <4>3, <5>1, <5>2
      <4>5. o[n + 1] = n + 1
        BY <4>2, <4>3, OfConsumer, SMT
      <4>6. PICK c : c = [con[l] EXCEPT !.pc = "receive", !.hold = NoBuf, !.out = o]
        OBVIOUS
      <4>7. /\ c \in ConOf /\ c.pc = "receive" /\ c.hold = NoBuf /\ c.out = o
            /\ c.res = con[l].res
        BY <4>6, OfConsumer, ZenonT(60) DEF ConOf
      <4>8. con' = [con EXCEPT ![l] = c] /\ con \in [Listeners -> ConOf]
        <5>1. Append(con[l].out, mem[con[l].hold]) = o
          BY <2>1, <4>1, <4>2, <4>3
        <5> QED
          BY <3>2, <4>6, <5>1 DEF Types
      <4>9. con' \in [Listeners -> ConOf] /\ con'[l] = c /\ \A m \in Listeners \ {l} : con'[m] = con[m]
        BY <4>7, <4>8
      <4>10. /\ Fetched(l)' = Fetched(l) /\ DataIn(l)' = DataIn(l)
             /\ Due(l)' = Due(l) /\ Live(l)' = Live(l)
        <5>1. Fetched(l) = n + 1 /\ Fetched(l)' = n + 1
          <6>1. Len(con'[l].out) = n + 1 /\ con'[l].pc = "receive"
            BY <4>4, <4>7, <4>9
          <6> QED
            BY <6>1, <2>0, <4>2, SMT DEF Fetched
        <5> QED
          BY <5>1, <2>0 DEF DataIn, Due, Awaits, Live
      <4>11. \A k \in 1..Len(o) : o[k] = k
        <5>1. \A k \in 1..n : con[l].out[k] = k
          BY <2>0, <4>1, <4>2, ZenonT(60) DEF Stream
        <5> QED
          BY <5>1, <4>4, <4>5, SMT
      <4>12. \A k \in 1..Len(lis'[l].ch) :
               lis'[l].ch[k].buf # NoBuf => mem'[lis'[l].ch[k].buf] = Fetched(l)' + k
        <5> SUFFICES ASSUME NEW k \in 1..Len(lis[l].ch), lis[l].ch[k].buf # NoBuf
                     PROVE  mem'[lis[l].ch[k].buf] = Fetched(l)' + k
          BY <2>0
        <5>1. lis[l].ch[k].buf \in Bufs /\ lis[l].ch[k].buf # x
          BY <2>5, OfListener
        <5> QED
          BY <5>1, <2>0, <2>3, <4>1, <4>10, ZenonT(60) DEF Stream
      <4>13. Stream(l)'
        BY <2>0, <4>1, <4>7, <4>9, <4>10, <4>11, <4>12, ZenonT(60) DEF Stream
      <4> QED
        BY <4>1, <4>7, <4>9, <4>13
    <3> QED
      BY <3>1, <3>2 DEF Write
  <2>7. Types' /\ Producer' /\ Roll' /\ Loop' /\ Consumers'
    <3>1. prod.buf \in Bufs => mem'[prod.buf] = mem[prod.buf]
      BY <2>3, <2>4
    <3>2. lis = [m \in Listeners |-> lis[m]]
      BY DEF Types
    <3>3. \A m \in Listeners : lis'[m].closed = lis[m].closed /\ (HasRoom(m) => HasRoom(m)')
      BY <2>0 DEF HasRoom
    <3>4. \A m \in Listeners : \A k \in 1..Len(lis[m].ch) :
            /\ lis[m].ch[k].buf = NoBuf => k = Len(lis[m].ch) /\ lis[m].closed
            /\ lis[m].ch[k].buf # NoBuf => lis[m].ch[k].err = "nil"
      BY DEF Consumers
    <3>5. \A m \in Listeners : lis[m] \in LisOf(lis[m]) /\ Len(lis[m].ch) <= ChannelBuf
      BY DEF Types
    <3> QED
      BY <2>0, <2>3, <2>6, <3>1, <3>2, <3>3, <3>4, <3>5, <1>ConsumerActs, ZenonT(60)
  <2>8. Streams'
    <3>1. ASSUME NEW m \in Listeners, m # l PROVE Stream(m)'
      BY <3>1, <2>0, <2>1, <2>3, <2>6, <1>OtherStreams, ZenonT(60)
    <3> QED
      BY <3>1, <2>6, SMT DEF Streams
  <2>9. QueuedOnce'
    <3>1. \A m \in Listeners : lis'[m].ch = lis[m].ch
      BY <2>0
    <3>2. ASSUME NEW m \in Listeners, NEW k \in 1..Len(lis[m].ch), lis[m].ch[k].buf # NoBuf
          PROVE  /\ lis[m].ch[k].buf \notin free' /\ lis[m].ch[k].buf # prod'.buf
                 /\ \A n \in Listeners : con'[n].hold # lis[m].ch[k].buf
      <4>1. /\ lis[m].ch[k].buf \notin free /\ lis[m].ch[k].buf # prod.buf
            /\ \A n \in Listeners : con[n].hold # lis[m].ch[k].buf
        BY <3>2, ZenonT(60) DEF Sole, QueuedOnce
      <4>2. lis[m].ch[k].buf # x
        BY <2>5
      <4>3. ASSUME NEW n \in Listeners PROVE con'[n].hold # lis[m].ch[k].buf
        BY <3>2, <4>1, <2>6
      <4> QED
        BY <4>1, <4>2, <4>3, <2>0, <2>3
    <3> QED
      BY <3>1, <3>2, QueuesKept
  <2>10. HeldOnce'
    BY <2>0, <2>3, <2>4, <2>6, SMTT(30) DEF Sole, HeldOnce
  <2>11. ASSUME NEW y \in Bufs PROVE Somewhere(y)'
    BY <2>0, <2>1, <2>3, <2>6, SMT DEF Sole, Somewhere
  <2>12. prod'.buf \notin free'
    BY <2>0, <2>3, <2>4 DEF Sole
  <2> QED
    BY <2>7, <2>8, <2>9, <2>10, <2>11, <2>12, SMT DEF Inv, Sole
<1>ReceiveChunkStep.
      ASSUME Inv, NEW l \in Listeners, ReceiveChunk(l) PROVE Inv'
  <2> USE <1>ReceiveChunkStep
  <2> Types /\ Consumers /\ Streams /\ Sole
    BY DEF Inv
  <2>0. /\ con[l].pc = "receive" /\ lis[l].ch # <<>> /\ Pop(l)
        /\ UNCHANGED <<setup, b, prod, mem, free>>
    BY DEF ReceiveChunk
  <2>1. PICK c \in Chunks : c = lis[l].ch[1] /\ c = Head(lis[l].ch)
    BY <2>0, <1>Popped
  <2>2. con[l].hold = NoBuf /\ con[l].res # "ok" /\ Stream(l)
    BY <2>0 DEF Consumers, Streams
  <2>3. /\ 1 \in 1..Len(lis[l].ch) /\ Len(lis[l].ch) \in Nat \ {0}
        /\ Len(lis'[l].ch) = Len(lis[l].ch) - 1
        /\ lis'[l].closed = lis[l].closed /\ lis'[l].termErr = lis[l].termErr
    BY <2>0, <1>Popped, SMT
  <2>4. /\ c.buf \in Bufs \cup {NoBuf}
        /\ c.buf = NoBuf => Len(lis[l].ch) = 1 /\ lis[l].closed
        /\ c.buf # NoBuf => c.err = "nil"
    <3>1. lis[l].ch[1].buf \in Bufs \cup {NoBuf}
      BY <2>3, OfListener
    <3>2. /\ lis[l].ch[1].buf = NoBuf => 1 = Len(lis[l].ch) /\ lis[l].closed
          /\ lis[l].ch[1].buf # NoBuf => lis[l].ch[1].err = "nil"
      BY <2>3, ZenonT(60) DEF Consumers
    <3> QED
      BY <2>1, <3>1, <3>2, SMT
  <2>5. /\ Live(l)' = Live(l) /\ Due(l)' = Due(l) /\ Fetched(l) = Len(con[l].out)
        /\ Len(con[l].out) \in Nat
    BY <2>0, OfConsumer, SMT DEF Live, Due, Awaits, Fetched
  <2>6. /\ con' \in [Listeners -> ConOf] /\ \A m \in Listeners \ {l} : con'[m] = con[m]
        /\ con'[l].pc \in {"receive", "write", "drain"}
        /\ con'[l].hold = NoBuf <=> con'[l].pc # "write"
        /\ con'[l].hold = c.buf
        /\ con'[l].res = "ok" => con'[l].pc = "drain"
        /\ Stream(l)'
    <3>1. CASE c.err # "nil"
      <4>1. Failed(l) /\ c.buf = NoBuf
        BY <2>1, <2>4, <3>1 DEF ReceiveChunk
      <4> QED
        BY <4>1, FailedConsumer
    <3>2. CASE c.err = "nil" /\ c.buf = NoBuf
      <4>1. con' = con
        BY <2>1, <3>2 DEF ReceiveChunk
      <4>2. Len(lis[l].ch) = 1 /\ Len(lis'[l].ch) = 0 /\ lis[l].closed
        BY <2>3, <2>4, <3>2, SMT
      <4>3. DataIn(l) = 0 /\ DataIn(l)' = 0
        BY <4>2, <2>1, <3>2, SMT DEF DataIn
      <4>4. Fetched(l)' = Fetched(l)
        BY <4>1 DEF Fetched
      <4>5. Stream(l)'
        <5>1. \A k \in 1..Len(lis'[l].ch) : FALSE
          BY <4>2, SMT
        <5>2. b' = b /\ prod' = prod /\ con[l].pc # "write"
          BY <2>0
        <5> QED
          BY <2>2, <2>3, <4>1, <4>2, <4>3, <4>4, <5>1, <5>2, ZenonT(30) DEF Stream
      <4>6. con \in [Listeners -> ConOf]
        BY DEF Types
      <4> QED
        BY <2>0, <2>2, <3>2, <4>1, <4>5, <4>6, ZenonT(60)
    <3>3. CASE c.err = "nil" /\ c.buf # NoBuf
      <4>1. PICK x \in Bufs : x = c.buf
        BY <2>4, <3>3, SMT
      <4>2. PICK d : d = [con[l] EXCEPT !.pc = "write", !.hold = x]
        OBVIOUS
      <4>3. /\ d \in ConOf /\ d.pc = "write" /\ d.hold = x /\ d.out = con[l].out
            /\ d.res = con[l].res
        BY <4>2, OfConsumer, ZenonT(60) DEF ConOf
      <4>4. con' = [con EXCEPT ![l] = d] /\ con \in [Listeners -> ConOf]
        BY <2>1, <3>3, <4>1, <4>2, ZenonT(60) DEF ReceiveChunk, Types
      <4>5. con' \in [Listeners -> ConOf] /\ con'[l] = d /\ \A m \in Listeners \ {l} : con'[m] = con[m]
        BY <4>3, <4>4
      <4>6. Fetched(l)' = Fetched(l) + 1
        BY <2>5, <4>3, <4>5 DEF Fetched
      <4>7. \A k \in 1..Len(lis[l].ch) :
              lis[l].ch[k].buf # NoBuf => mem[lis[l].ch[k].buf] = Fetched(l) + k
        BY <2>0, <2>2, ZenonT(60) DEF Stream
      <4>8. mem'[con'[l].hold] = Len(con'[l].out) + 1
        BY <2>0, <2>1, <2>3, <2>5, <3>3, <4>1, <4>3, <4>5, <4>7, ZenonT(60)
      <4>9. ASSUME NEW k \in 1..Len(lis'[l].ch), lis'[l].ch[k].buf # NoBuf
            PROVE  mem'[lis'[l].ch[k].buf] = Fetched(l)' + k
        <5>1. PICK q \in 1..Len(lis[l].ch) : q = k + 1 /\ lis'[l].ch[k] = lis[l].ch[q]
          <6>1. k \in 1..(Len(lis[l].ch) - 1)
            BY <2>3
          <6> QED
            BY <6>1, <2>0, <2>3, <1>Popped, SMT
        <5>2. mem[lis[l].ch[q].buf] = Fetched(l) + q
          BY <4>7, <4>9, <5>1
        <5> QED
          <6>1. PICK f \in Nat : f = Fetched(l)
            BY <2>5, SMT
          <6>2. f + (k + 1) = (f + 1) + k
            BY <6>1, SMT
          <6>3. Fetched(l) + q = Fetched(l)' + k
            BY <6>1, <6>2, <5>1, <4>6
          <6> QED
            BY <6>3, <5>1, <5>2, <2>0
      <4>10. Fetched(l)' + Len(lis'[l].ch) = Fetched(l) + Len(lis[l].ch)
        <5>1. PICK f \in Nat, n \in Nat : f = Fetched(l) /\ n = Len(lis[l].ch)
          BY <2>3, <2>5
        <5>2. Fetched(l)' = f + 1 /\ Len(lis'[l].ch) = n - 1
          BY <5>1, <2>3, <4>6
        <5>3. (f + 1) + (n - 1) = f + n
          BY <5>1, SMT
        <5> QED
          BY <5>1, <5>2, <5>3
      <4>11. DataIn(l) \in Nat /\ DataIn(l)' = DataIn(l) - 1
        <5>1. CASE Len(lis[l].ch) = 1
          <6>1. Len(lis'[l].ch) = 0
            BY <5>1, <2>3, SMTT(30)
          <6>2. lis[l].ch[Len(lis[l].ch)].buf # NoBuf
            BY <5>1, <2>1, <3>3
          <6> QED
            BY <5>1, <6>1, <6>2, SMTT(30) DEF DataIn
        <5>2. CASE Len(lis[l].ch) # 1
          <6>0. PICK n \in Nat : n = Len(lis[l].ch)
            BY <2>3
          <6>1. PICK k \in 1..(Len(lis[l].ch) - 1) : k = Len(lis'[l].ch) /\ k + 1 = Len(lis[l].ch)
            <7>1. n # 0 /\ n # 1 /\ Len(lis'[l].ch) = n - 1
              BY <6>0, <5>2, <2>3, SMT
            <7>2. n - 1 \in 1..(n - 1) /\ (n - 1) + 1 = n
              BY <7>1, SMT
            <7> QED
              BY <6>0, <7>1, <7>2
          <6>2. lis'[l].ch[k] = lis[l].ch[k + 1]
            BY <2>0, <1>Popped
          <6>3. lis'[l].ch[Len(lis'[l].ch)] = lis[l].ch[Len(lis[l].ch)]
            BY <6>1, <6>2
          <6>4. Len(lis'[l].ch) > 0 /\ Len(lis[l].ch) > 0
            BY <6>1, SMT
          <6> QED
            BY <6>3, <6>4, <2>3, SMT DEF DataIn
        <5> QED
          BY <5>1, <5>2, SMT
      <4>12. Fetched(l)' + DataIn(l)' = Fetched(l) + DataIn(l)
        BY <4>6, <4>11, <2>5, SMT
      <4>13. Stream(l)'
        BY <2>0, <2>2, <2>3, <2>5, <4>3, <4>5, <4>8, <4>9, <4>10, <4>12, ZenonT(60) DEF Stream
      <4> QED
        BY <2>2, <3>3, <4>1, <4>3, <4>5, <4>13
    <3> QED
      BY <3>1, <3>2, <3>3
  <2>7. Types' /\ Producer' /\ Roll' /\ Loop' /\ Consumers'
    <3>1. mem \in [Bufs -> 0..MaxChunks] /\ free \subseteq Bufs
      BY DEF Types
    <3> QED
      BY <2>0, <2>6, <3>1, <1>Popped, <1>PoppedRest, <1>ConsumerActs, ZenonT(60)
  <2>8. Streams'
    <3>1. ASSUME NEW m \in Listeners, m # l PROVE Stream(m)'
      <4>1. lis'[m] = lis[m] /\ con'[m] = con[m]
        BY <3>1, <2>0, <2>6, <1>Popped, SMT
      <4>2. \A y \in Bufs : y # NoBuf => mem'[y] = mem[y]
        BY <2>0
      <4> QED
        BY <3>1, <4>1, <4>2, <2>0, <1>OtherStreams, ZenonT(60)
    <3> QED
      BY <3>1, <2>6 DEF Streams
  <2>9. QueuedOnce'
    BY <2>0, <2>1, <2>6, <1>PoppedOnce
  <2>10. HeldOnce'
    <3> SUFFICES ASSUME NEW m \in Listeners, con'[m].hold # NoBuf
                 PROVE  /\ con'[m].hold \notin free /\ con'[m].hold # prod.buf
                        /\ \A n \in Listeners : con'[n].hold = con'[m].hold => n = m
      BY <2>0 DEF HeldOnce
    <3>1. c.buf # NoBuf =>
            c.buf \notin free /\ c.buf # prod.buf /\ \A n \in Listeners : con[n].hold # c.buf
      BY <2>1, <2>3, SMTT(30) DEF Sole, QueuedOnce
    <3>2. CASE m = l
      BY <3>1, <3>2, <2>6
    <3>3. CASE m # l
      BY <3>1, <3>3, <2>6, ZenonT(60) DEF Sole, HeldOnce
    <3> QED
      BY <3>2, <3>3, SMT
  <2>11. ASSUME NEW y \in Bufs PROVE Somewhere(y)'
    <3>1. y # NoBuf
      BY OfBroadcaster
    <3>2. \A m \in Listeners : con[m].hold = y => con'[m].hold = y
      BY <3>1, <2>2, <2>6
    <3> QED
      BY <3>1, <3>2, <2>0, <2>1, <2>6, <1>PoppedSomewhere, ZenonT(60)
  <2>12. prod'.buf \notin free'
    BY <2>0 DEF Sole
  <2> QED
    BY <2>7, <2>8, <2>9, <2>10, <2>11, <2>12 DEF Inv, Sole
<1> QED
  BY <1>DrainStep, <1>WriteStep, <1>ReceiveChunkStep

(***************************************************************************)
(* The invariant holds.                                                     *)
(***************************************************************************)
\* Nothing of it is about who left or whose context is over.
LEMMA Unmoved == Inv /\ UNCHANGED <<setup, b, prod, lis, con, mem, free>> => Inv'
<1> SUFFICES ASSUME Inv, UNCHANGED <<setup, b, prod, lis, con, mem, free>> PROVE Inv'
  OBVIOUS
<1> Types /\ Producer /\ Roll /\ Loop /\ Consumers /\ Sole
  BY DEF Inv
<1>1. Types' /\ Producer' /\ Roll' /\ Loop' /\ Consumers'
  <2>1. Types' /\ Consumers'
    BY SMT DEF Types, Consumers
  <2>2. Producer' /\ Roll'
    BY DEF Producer, Roll
  <2>3. Loop'
    BY DEF Loop, Copied, HasRoom
  <2> QED
    BY <2>1, <2>2, <2>3
<1>2. Streams'
  <2>1. \A l \in Listeners : Live(l)' => Live(l) /\ Due(l)' = Due(l)
    BY DEF Live, Due, Awaits
  <2> QED
    BY <2>1, StreamKept DEF Streams
<1>3. Sole'
  <2>1. HeldOnce'
    BY DEF Sole, HeldOnce
  <2>3. QueuedOnce'
    <3>1. QueuedOnce
      BY DEF Sole
    <3> QED
      BY <3>1, SMTT(30) DEF QueuedOnce
  <2>2. \A x \in Bufs : Somewhere(x)'
    BY DEF Sole, Somewhere
  <2> QED
    BY <2>1, <2>2, <2>3 DEF Sole
<1> QED
  BY <1>1, <1>2, <1>3 DEF Inv

LEMMA Keeps == Inv /\ [Next]_vars => Inv'
<1> SUFFICES ASSUME Inv, [Next]_vars PROVE Inv'
  OBVIOUS
<1>1. CASE UNCHANGED vars
  BY <1>1, Unmoved DEF vars
<1>2. CASE FetchNext
  BY <1>2, TaskRefusedStep, RequestFailsStep, JoinSteps, SetHeadersStep, ReadDataStep,
     ReadNoneStep, ScanOwnerStep, CopySteps, CompleteStep
  DEF FetchNext
<1>3. ASSUME NEW l \in Listeners, ConsumerNext(l) PROVE Inv'
  BY <1>3, WaitForHeadersStep, ReceiveSteps, ChannelClosedStep
  DEF ConsumerNext
<1>4. ASSUME NEW c \in Clients, ClientLeaves(c) PROVE Inv'
  BY <1>4, Unmoved DEF ClientLeaves
<1>5. CASE Finished
  BY <1>5, Unmoved DEF Finished, vars
<1> QED
  BY <1>1, <1>2, <1>3, <1>4, <1>5, JoinSteps DEF Next

LEMMA Invariance == Spec => []Inv
<1>1. Init => Inv
  BY Begins
<1>2. Inv /\ [Next]_vars => Inv'
  BY Keeps
<1> QED
  BY <1>1, <1>2, PTL DEF Spec

(***************************************************************************)
(* What it says of the buffers.                                             *)
(***************************************************************************)
LEMMA InvOneOwner == Inv => OneOwner
<1> SUFFICES ASSUME Inv PROVE OneOwner
  OBVIOUS
<1> Loop /\ Sole
  BY DEF Inv
<1>1. CopiesDone /\ prod.owner # 0 => HasRoom(b.listeners[prod.owner])
  BY DEF Loop, CopiesDone
<1>2. ASSUME NEW x \in Bufs PROVE \E o \in Owners(x) : Owners(x) = {o}
  <2>0. x # NoBuf
    BY BroadcastAssumption DEF NoBuf
  <2>1. ASSUME NEW p \in Queued(x)
        PROVE  /\ p = <<p[1], p[2]>>
               /\ p[1] \in Listeners /\ p[2] \in 1..Len(lis[p[1]].ch)
               /\ lis[p[1]].ch[p[2]].buf = x
    BY OfListener, SMT DEF Queued
  <2>2. CASE x \in free
    <3>1. {prod.buf} \cap {x} = {} /\ Held(x) = {} /\ free \cap {x} = {x}
      BY <2>2, <2>0 DEF Sole, Held, HeldOnce
    <3>2. Queued(x) = {}
      BY <2>2, <2>0, <2>1, SMT DEF Sole, QueuedOnce
    <3>3. ASSUME NEW o PROVE o \in Owners(x) <=> o = <<"pool", x>>
      BY <3>1, <3>2 DEF Owners
    <3>4. Owners(x) = {<<"pool", x>>}
      BY <3>3
    <3> QED
      BY <3>4
  <2>3. CASE prod.buf = x
    <3>1. {prod.buf} \cap {x} = {x} /\ Held(x) = {} /\ free \cap {x} = {}
      BY <2>3, <2>0 DEF Sole, Held, HeldOnce
    <3>2. Queued(x) = {}
      BY <2>3, <2>0, <2>1, SMT DEF Sole, QueuedOnce
    <3>3. ASSUME NEW o PROVE o \in Owners(x) <=> o = <<"producer", x>>
      BY <3>1, <3>2 DEF Owners
    <3>4. Owners(x) = {<<"producer", x>>}
      BY <3>3
    <3> QED
      BY <3>4
  <2>4. CASE \E l \in Listeners : con[l].hold = x
    <3>0. PICK l \in Listeners : con[l].hold = x
      BY <2>4
    <3>1. {prod.buf} \cap {x} = {} /\ Held(x) = {l} /\ free \cap {x} = {}
      BY <3>0, <2>0 DEF Sole, Held, HeldOnce
    <3>2. Queued(x) = {}
      BY <3>0, <2>0, <2>1, SMT DEF Sole, QueuedOnce
    <3>3. ASSUME NEW o PROVE o \in Owners(x) <=> o = <<"consumer", l>>
      BY <3>1, <3>2 DEF Owners
    <3>4. Owners(x) = {<<"consumer", l>>}
      BY <3>3
    <3> QED
      BY <3>4
  <2>5. CASE \E l \in Listeners : \E k \in 1..Len(lis[l].ch) : lis[l].ch[k].buf = x
    <3>0. PICK l \in Listeners : \E k \in 1..Len(lis[l].ch) : lis[l].ch[k].buf = x
      BY <2>5
    <3>1. PICK k \in 1..Len(lis[l].ch) : lis[l].ch[k].buf = x
      BY <3>0
    <3>2. {prod.buf} \cap {x} = {} /\ Held(x) = {} /\ free \cap {x} = {}
      BY <3>1, <2>0, SMTT(30) DEF Sole, Held, QueuedOnce
    <3>3. ASSUME NEW p \in Queued(x) PROVE p = <<l, k>>
      <4>1. p[1] = l /\ p[2] = k
        <5>1. PICK m \in Listeners : m = p[1] /\ p[2] \in 1..Len(lis[m].ch) /\ lis[m].ch[p[2]].buf = x
          BY <2>1
        <5>2. PICK j \in 1..Len(lis[m].ch) : j = p[2] /\ lis[m].ch[j].buf = x
          BY <5>1
        <5>3. m = l /\ j = k
          <6>1. \A n \in Listeners : \A q \in 1..Len(lis[n].ch) :
                  lis[n].ch[q].buf = lis[l].ch[k].buf => n = l /\ q = k
            BY <3>1, <2>0 DEF Sole, QueuedOnce
          <6> QED
            BY <6>1, <3>1, <5>2
        <5> QED
          BY <5>1, <5>2, <5>3
      <4> QED
        BY <4>1, <2>1
    <3>4. <<l, k>> \in Queued(x)
      <4>1. k \in 1..ChannelBuf /\ k <= Len(lis[l].ch)
        BY OfListener, BroadcastAssumption, SMT
      <4> QED
        BY <4>1, <3>1 DEF Queued
    <3>5. Queued(x) = {<<l, k>>}
      BY <3>3, <3>4
    <3>6. ASSUME NEW o PROVE o \in Owners(x) <=> o = <<"channel", <<l, k>>>>
      BY <3>2, <3>5 DEF Owners
    <3>7. Owners(x) = {<<"channel", <<l, k>>>>}
      BY <3>6
    <3> QED
      BY <3>7
  <2>6. Somewhere(x)
    BY DEF Sole
  <2> QED
    BY <2>2, <2>3, <2>4, <2>5, <2>6 DEF Somewhere
<1> QED
  BY <1>1, <1>2 DEF OneOwner

(***************************************************************************)
(* The theorems.                                                            *)
(***************************************************************************)
\* The broadcaster, its producer, its listeners and their consumers stay in the
\* states the code gives them, however Subscribe, BroadcastOwned and the consumers
\* interleave; no channel holds more than ChannelBuffer chunks.
THEOREM BroadcastTypes == Spec => []TypeOK
<1>1. Inv => TypeOK
  BY InvTypes
<1> QED
  BY <1>1, Invariance, PTL

\* What a consumer has written out is a prefix of the upstream body, each chunk once
\* and in order, for any number of clients, chunks and buffers: the copies made by
\* broadcastOwnedLocked and the hand-over of the input buffer never reorder, repeat
\* or skip a chunk of a listener that stays connected.
THEOREM ConsumersReadInOrder == Spec => []InOrder
<1>1. Inv => InOrder
  BY InvInOrder
<1> QED
  BY <1>1, Invariance, PTL

\* A consumer that ends with Err() = nil has written the whole body: a listener cut
\* off by a full channel, or by Complete with an error, never takes the close of its
\* channel for a clean end.
THEOREM SuccessIsTheWholeBody == Spec => []SuccessIsWhole
<1>1. Inv => SuccessIsWhole
  BY InvWhole
<1> QED
  BY <1>1, Invariance, PTL

\* Each pooled buffer is in exactly one place, the pool, the producer's hands, one
\* slot of one channel or one consumer's hands, so that no buffer is refilled while
\* a consumer still reads it and none is lost; and the owner the scan picked still
\* has room when the input is handed over.
THEOREM OneOwnerPerBuffer == Spec => []OneOwner
<1>1. Inv => OneOwner
  BY InvOneOwner
<1> QED
  BY <1>1, Invariance, PTL
============================================================================
