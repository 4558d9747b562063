-------------------------- MODULE CacheWriteProofs --------------------------
(***************************************************************************)
(* Proofs about CacheWrite, for any job, any channel and queue capacity and  *)
(* any inline threshold.                                                     *)
(***************************************************************************)
EXTENDS CacheWrite, TLAPS

-----------------------------------------------------------------------------
(* The inductive invariant.                                                   *)

One(held) == IF held THEN 1 ELSE 0

\* Chunks of the body somewhere between the listener and the store's count.
Carried == up.ch + One(own.hold) + queue.n + One(pw.pc = "write") + wr.got

\* Nothing is counted that was not sent.
NothingInvented == Carried <= up.sent

\* How a stream ends, and that the body is closed under a reader only after the
\* write deadline.
StreamEnded ==
    /\ up.closed /\ up.term = "nil" => up.sent = job.len
    /\ up.errChunk => up.closed /\ up.term # "nil"
    /\ up.term = "short" => job.cut = "short"
    /\ up.bodyClosed => ~Live("cache")

\* No goroutine of the relay has met an error.
NoRelayError == own.chunkErr = "nil" /\ own.relayErr = "nil" /\ pw.err = "nil"

\* Where the relay's goroutines can be, given where their owner is.
RelayStages ==
    /\ own.pc \in {"headers", "consume", "drain", "join", "finish", "done"}
    /\ slot = IF own.pc = "done" THEN 0 ELSE 1
    /\ own.hold => own.pc = "consume"
    /\ own.pc = "headers" =>
         /\ wr.pc = "idle" /\ pw.pc = "idle" /\ queue.n = 0 /\ NoRelayError
    /\ own.pc \in {"consume", "drain", "join", "finish"} => wr.pc # "idle" /\ pw.pc # "idle"
    /\ own.pc \in {"headers", "consume", "drain"} => ~queue.closed
    /\ own.pc = "consume" => own.chunkErr = "nil" /\ own.relayErr = "nil"
    /\ own.pc = "drain" => ~(own.chunkErr = "nil" /\ own.relayErr = "nil")
    /\ own.pc \in {"join", "finish"} => up.closed /\ up.ch = 0
    /\ own.pc = "finish" => pw.pc = "done"
    /\ own.pc = "done" =>
         \/ wr.pc = "idle" /\ pw.pc = "idle" /\ queue.n = 0
         \/ wr.pc = "done" /\ pw.pc = "done" /\ queue.n = 0 /\ up.ch = 0 /\ up.closed
    /\ pw.pc = "done" => queue.n = 0 /\ queue.closed
    /\ pw.pc = "discard" => pw.err # "nil"

\* While nothing has gone wrong no chunk is lost on the way to the store, and
\* the write end of the pipe is closed cleanly only after the whole body.
RelayFaithful ==
    /\ NoRelayError /\ wr.pc \in {"idle", "init", "read"} => up.sent = Carried
    /\ /\ own.pc \in {"join", "finish"}
       /\ own.chunkErr = "nil" /\ own.relayErr = "nil"
       => up.sent = job.len
    /\ pipe.writeEnd # "open" => own.pc \in {"finish", "done"}
    /\ pipe.writeEnd # "short"
    /\ own.pc = "finish" /\ pipe.writeEnd = "eof" => NoRelayError

\* The same for a background fetch and the writer it supervises.
DirectStages ==
    /\ own.pc \in {"begin", "wait", "done"}
    /\ ~own.hold /\ queue.n = 0 /\ pw.pc = "idle"
    /\ own.pc = "begin" => wr.pc = "idle"
    /\ own.pc = "wait" => wr.pc # "idle"
    /\ slot = IF wr.pc = "done" \/ (own.pc = "done" /\ wr.pc = "idle") THEN 0 ELSE 1
    /\ wr.pc \in {"idle", "init", "read"} => up.sent = up.ch + wr.got

Inv ==
    /\ TypeOK
    /\ NothingInvented
    /\ StreamEnded
    /\ job.mode = "relay" => RelayStages /\ RelayFaithful
    /\ job.mode = "direct" => DirectStages

\* Only a whole body is committed.
WholeInv ==
    /\ wr.pc = "commit" => wr.got = job.len
    /\ committed => wr.pc \in {"exit", "done"} /\ wr.got = job.len

-----------------------------------------------------------------------------
(* Steps that touch one record.                                               *)

USE CacheWriteAssumption DEF JobTypes, Errors

UpType ==
    [headers : BOOLEAN, sent : 0..job.len, ch : 0..ChannelBuf, closed : BOOLEAN,
     term : Errors, errChunk : BOOLEAN, bodyClosed : BOOLEAN]

OwnType ==
    [pc : {"headers", "begin", "consume", "drain", "join", "finish", "wait", "done"},
     hold : BOOLEAN, chunkErr : Errors, relayErr : Errors]

WrType ==
    [pc : {"idle", "init", "read", "rest", "commit", "exit", "done"},
     reading : BOOLEAN, got : 0..job.len, err : Errors]

\* The upstream side moves on: it may send a chunk into the channel, end, or be
\* closed, and an ended stream keeps its outcome.
UpstreamMoves ==
    /\ up' \in UpType
    /\ \/ up'.sent = up.sent /\ up'.ch = up.ch
       \/ up'.sent = up.sent + 1 /\ up'.ch = up.ch + 1 /\ ~up.closed
    /\ up.closed => up'.closed
    /\ StreamEnded'
    /\ UNCHANGED <<job, ctx, own, queue, pw, pipe, wr, slot, committed>>

\* The cache writer moves on without taking a chunk, and is not back to reading
\* once it has stopped.
WriterMoves ==
    /\ wr' \in WrType /\ wr'.got = wr.got
    /\ wr.pc \in {"init", "read", "rest", "commit"}
    /\ wr'.pc \in {"read", "rest", "commit", "exit"}
    /\ wr'.pc = "read" => wr.pc = "init"
    /\ UNCHANGED <<job, ctx, up, own, queue, pw, pipe, slot>>

\* A step of the upstream side keeps the invariant.
LEMMA UpstreamMovesInv == ASSUME Inv, UpstreamMoves PROVE Inv'
<1>0. TypeOK /\ up' \in UpType
  BY DEF Inv, UpstreamMoves
<1>1. TypeOK'
  BY <1>0 DEF TypeOK, UpstreamMoves, UpType
<1>2. NothingInvented' /\ StreamEnded'
  BY <1>0 DEF Inv, TypeOK, UpType, UpstreamMoves, NothingInvented, Carried, One
<1>3. ASSUME job.mode = "relay" PROVE RelayStages'
  BY <1>0, <1>3 DEF Inv, TypeOK, UpType, UpstreamMoves, RelayStages, NoRelayError
<1>4. ASSUME job.mode = "relay" PROVE RelayFaithful'
  BY <1>0, <1>4 DEF Inv, TypeOK, UpType, UpstreamMoves, RelayStages, RelayFaithful,
                    NoRelayError, Carried, One
<1>5. ASSUME job.mode = "direct" PROVE DirectStages'
  BY <1>0, <1>5 DEF Inv, TypeOK, UpType, UpstreamMoves, DirectStages
<1>6. QED BY <1>1, <1>2, <1>3, <1>4, <1>5 DEF Inv, UpstreamMoves

\* A step of the cache writer that takes no chunk keeps the invariant.
LEMMA WriterMovesInv == ASSUME Inv, WriterMoves, committed' \in BOOLEAN PROVE Inv'
<1>0. TypeOK /\ wr' \in WrType
  BY DEF Inv, WriterMoves
<1>1. TypeOK'
  BY <1>0 DEF TypeOK, WriterMoves, WrType
<1>2. NothingInvented' /\ StreamEnded'
  BY <1>0 DEF Inv, TypeOK, WriterMoves, NothingInvented, Carried, One, StreamEnded, Live
<1>3. ASSUME job.mode = "relay" PROVE RelayStages'
  BY <1>0, <1>3 DEF Inv, TypeOK, WriterMoves, RelayStages, NoRelayError
<1>4. ASSUME job.mode = "relay" PROVE RelayFaithful'
  BY <1>0, <1>4 DEF Inv, TypeOK, WriterMoves, RelayStages, RelayFaithful,
                    NoRelayError, Carried, One
<1>5. ASSUME job.mode = "direct" PROVE DirectStages'
  BY <1>0, <1>5 DEF Inv, TypeOK, WriterMoves, DirectStages
<1>6. QED BY <1>1, <1>2, <1>3, <1>4, <1>5 DEF Inv, WriterMoves

-----------------------------------------------------------------------------
(* The upstream side.                                                         *)

LEMMA SetHeadersMoves == ASSUME Inv, SetHeaders PROVE UpstreamMoves
<1>1. /\ up' \in UpType /\ up'.sent = up.sent /\ up'.ch = up.ch
      /\ up'.closed = up.closed /\ up'.term = up.term
      /\ up'.errChunk = up.errChunk /\ up'.bodyClosed = up.bodyClosed
  BY Zenon DEF Inv, TypeOK, UpType, SetHeaders
<1>2. QED BY <1>1 DEF Inv, StreamEnded, Live, SetHeaders, UpstreamMoves

LEMMA DeliverMoves == ASSUME Inv, Deliver PROVE UpstreamMoves
<1>0. TypeOK /\ StreamEnded
  BY DEF Inv
<1>1. CASE up.ch < ChannelBuf /\ up' = [up EXCEPT !.ch = @ + 1, !.sent = @ + 1]
  <2>1. up.ch + 1 \in 0..ChannelBuf /\ up.sent + 1 \in 0..job.len
    BY <1>0, <1>1 DEF TypeOK, Deliver
  <2>2. /\ up' \in UpType /\ up'.sent = up.sent + 1 /\ up'.ch = up.ch + 1
        /\ up'.closed = up.closed /\ up'.term = up.term
        /\ up'.errChunk = up.errChunk /\ up'.bodyClosed = up.bodyClosed
    BY <1>0, <1>1, <2>1, Zenon DEF TypeOK, UpType
  <2>3. QED BY <1>0, <2>2 DEF StreamEnded, Live, Deliver, UpstreamMoves
<1>2. CASE up' = [up EXCEPT !.closed = TRUE, !.term = "slow"]
  <2>1. /\ up' \in UpType /\ up'.sent = up.sent /\ up'.ch = up.ch
        /\ up'.closed /\ up'.term = "slow"
        /\ up'.errChunk = up.errChunk /\ up'.bodyClosed = up.bodyClosed
    BY <1>0, <1>2, Zenon DEF TypeOK, UpType
  <2>2. QED BY <1>0, <2>1 DEF StreamEnded, Live, Deliver, UpstreamMoves
<1>3. QED BY <1>1, <1>2 DEF Deliver

\* Complete, as the broadcaster or the connection reports it.
LEMMA CompleteMoves ==
    ASSUME Inv, NEW e \in Errors, Complete(e), ~up.closed,
           e = "nil" => up.sent = job.len, e = "short" => job.cut = "short",
           UNCHANGED <<job, ctx, own, queue, pw, pipe, wr, slot, committed>>
    PROVE  UpstreamMoves
<1>0. TypeOK /\ StreamEnded
  BY DEF Inv
<1> DEFINE queued == e # "nil" /\ up.ch < ChannelBuf
<1>1. up' = [up EXCEPT !.closed = TRUE, !.term = e, !.errChunk = queued]
  BY DEF Complete
<1>2. queued \in BOOLEAN /\ (queued => e # "nil")
  OBVIOUS
<1> HIDE DEF queued
<1>3. /\ up' \in UpType /\ up'.sent = up.sent /\ up'.ch = up.ch
      /\ up'.closed /\ up'.term = e /\ up'.errChunk = queued
      /\ up'.bodyClosed = up.bodyClosed
  BY <1>0, <1>1, <1>2, Zenon DEF TypeOK, UpType
<1>4. QED BY <1>0, <1>2, <1>3 DEF StreamEnded, Live, UpstreamMoves

LEMMA StreamEndsMoves == ASSUME Inv, StreamEnds \/ StreamCanceled PROVE UpstreamMoves
<1>0. job.cut \in {"short", "failed"}
  BY DEF Inv, TypeOK
<1>1. CASE StreamEnds
  BY <1>0, <1>1, CompleteMoves DEF StreamEnds
<1>2. CASE StreamCanceled
  BY <1>2, CompleteMoves DEF StreamCanceled
<1>3. QED BY <1>1, <1>2

LEMMA CloseBodyMoves == ASSUME Inv, CloseBody PROVE UpstreamMoves
<1>1. /\ up' \in UpType /\ up'.sent = up.sent /\ up'.ch = up.ch
      /\ up'.closed = up.closed /\ up'.term = up.term /\ up'.errChunk = up.errChunk
  BY Zenon DEF Inv, TypeOK, UpType, CloseBody
<1>2. QED BY <1>1 DEF Inv, StreamEnded, Live, CloseBody, UpstreamMoves

-----------------------------------------------------------------------------
(* The relay's owner goroutine.                                               *)

LEMMA CancelInv == ASSUME Inv, Cancel PROVE Inv'
<1>0. TypeOK
  BY DEF Inv
<1>1. TypeOK'
  <2>1. /\ ctx' \subseteq {"request", "cache", "service"}
        /\ UNCHANGED <<job, up, own, queue, pw, pipe, wr, slot, committed>>
    BY <1>0, Zenon DEF TypeOK, Cancel
  <2>2. QED BY <1>0, <2>1 DEF TypeOK
<1>2. NothingInvented' /\ StreamEnded'
  BY <1>0 DEF Inv, TypeOK, NothingInvented, Carried, One, StreamEnded, Live, Cancel
<1>3. ASSUME job.mode = "relay" PROVE RelayStages'
  BY <1>0, <1>3 DEF Inv, TypeOK, RelayStages, NoRelayError, Cancel
<1>4. ASSUME job.mode = "relay" PROVE RelayFaithful'
  BY <1>0, <1>4 DEF Inv, TypeOK, RelayStages, RelayFaithful, NoRelayError, Carried,
                    One, Cancel
<1>5. ASSUME job.mode = "direct" PROVE DirectStages'
  BY <1>0, <1>5 DEF Inv, TypeOK, DirectStages, Cancel
<1>6. QED BY <1>1, <1>2, <1>3, <1>4, <1>5 DEF Inv, Cancel

LEMMA WaitForHeadersInv == ASSUME Inv, WaitForHeaders PROVE Inv'
<1>0. TypeOK /\ job.mode = "relay" /\ slot = 1
  BY DEF Inv, TypeOK, DirectStages, RelayStages, WaitForHeaders
<1>1. TypeOK'
  BY <1>0 DEF TypeOK, WaitForHeaders
<1>2. NothingInvented' /\ StreamEnded'
  BY <1>0 DEF Inv, TypeOK, NothingInvented, Carried, One, StreamEnded, Live, WaitForHeaders
<1>3. ASSUME job.mode = "relay" PROVE RelayStages'
  BY <1>0, <1>3 DEF Inv, TypeOK, RelayStages, NoRelayError, WaitForHeaders
<1>4. ASSUME job.mode = "relay" PROVE RelayFaithful'
  BY <1>0, <1>4 DEF Inv, TypeOK, RelayStages, RelayFaithful, NoRelayError, Carried,
                    One, WaitForHeaders
<1>5. ASSUME job.mode = "direct" PROVE DirectStages'
  BY <1>0, <1>5 DEF Inv, TypeOK, DirectStages, WaitForHeaders
<1>6. QED BY <1>0, <1>1, <1>2, <1>3, <1>4, <1>5 DEF Inv, WaitForHeaders

\* Receive takes a chunk, the error chunk, or the close.
LEMMA ReceiveInv == ASSUME Inv, Receive PROVE Inv'
<1>0. TypeOK /\ NothingInvented /\ StreamEnded /\ job.mode = "relay" /\ RelayStages
      /\ RelayFaithful /\ own.pc = "consume" /\ ~own.hold
      /\ own.chunkErr = "nil" /\ own.relayErr = "nil" /\ ~queue.closed
  BY DEF Inv, TypeOK, DirectStages, RelayStages, Receive
<1>1. UNCHANGED <<job, ctx, pw, pipe, wr, slot, committed>>
  BY DEF Receive
<1>2. up' \in UpType /\ own' \in OwnType
      /\ up'.sent = up.sent /\ up'.closed = up.closed /\ up'.term = up.term
      /\ up'.bodyClosed = up.bodyClosed /\ own'.relayErr = own.relayErr
      /\ \/ /\ up'.ch = up.ch - 1 /\ up'.errChunk = up.errChunk
            /\ own'.pc = "consume" /\ own'.hold /\ own'.chunkErr = "nil"
         \/ /\ up'.ch = up.ch /\ up.errChunk /\ ~up'.errChunk
            /\ own'.pc = "drain" /\ ~own'.hold /\ own'.chunkErr = up.term
         \/ /\ up'.ch = 0 /\ up.ch = 0 /\ up.closed /\ up'.errChunk = up.errChunk
            /\ own'.pc = "join" /\ ~own'.hold /\ own'.chunkErr = up.term
  <2>1. CASE /\ up.ch > 0
             /\ up' = [up EXCEPT !.ch = @ - 1] /\ own' = [own EXCEPT !.hold = TRUE]
    <3>1. up.ch - 1 \in 0..ChannelBuf
      BY <1>0, <2>1 DEF TypeOK
    <3>2. QED BY <1>0, <2>1, <3>1, Zenon DEF TypeOK, UpType, OwnType
  <2>2. CASE /\ up.errChunk /\ up' = [up EXCEPT !.errChunk = FALSE]
             /\ own' = [own EXCEPT !.pc = "drain", !.chunkErr = up.term]
    BY <1>0, <2>2, Zenon DEF TypeOK, UpType, OwnType
  <2>3. CASE /\ up.ch = 0 /\ up.closed /\ UNCHANGED up
             /\ own' = [own EXCEPT !.pc = "join", !.chunkErr = up.term]
    BY <1>0, <2>3, Zenon DEF TypeOK, UpType, OwnType
  <2>4. QED BY <2>1, <2>2, <2>3 DEF Receive
<1>3. /\ queue' \in [n : 0..QueueCap, closed : BOOLEAN] /\ queue'.n = queue.n
      /\ queue'.closed <=> own'.pc = "join"
  <2> DEFINE joined == own'.pc = "join"
  <2>1. joined \in BOOLEAN /\ queue' = [queue EXCEPT !.closed = joined]
    BY DEF Receive
  <2> HIDE DEF joined
  <2>2. /\ queue' \in [n : 0..QueueCap, closed : BOOLEAN] /\ queue'.n = queue.n
        /\ queue'.closed = joined
    BY <1>0, <2>1, Zenon DEF TypeOK
  <2>3. QED BY <2>2 DEF joined
<1>4. TypeOK'
  BY <1>0, <1>1, <1>2, <1>3 DEF TypeOK, UpType, OwnType
<1>5. NothingInvented' /\ StreamEnded'
  BY <1>0, <1>1, <1>2, <1>3 DEF TypeOK, NothingInvented, Carried, One, StreamEnded, Live
<1>6. RelayStages'
  BY <1>0, <1>1, <1>2, <1>3 DEF TypeOK, StreamEnded, RelayStages, NoRelayError
<1>7. RelayFaithful'
  BY <1>0, <1>1, <1>2, <1>3 DEF TypeOK, StreamEnded, RelayStages, RelayFaithful,
                                NoRelayError, Carried, One
<1>8. QED BY <1>0, <1>1, <1>4, <1>5, <1>6, <1>7 DEF Inv

\* Enqueue passes the chunk on, or drops it and remembers why.
LEMMA EnqueueInv == ASSUME Inv, Enqueue PROVE Inv'
<1>0. TypeOK /\ NothingInvented /\ StreamEnded /\ job.mode = "relay" /\ RelayStages
      /\ RelayFaithful /\ own.pc = "consume" /\ own.hold
      /\ own.chunkErr = "nil" /\ own.relayErr = "nil" /\ ~queue.closed
  BY DEF Inv, TypeOK, DirectStages, RelayStages, Enqueue
<1>1. UNCHANGED <<job, ctx, up, pw, pipe, wr, slot, committed>>
  BY DEF Enqueue
<1>2. /\ queue' \in [n : 0..QueueCap, closed : BOOLEAN] /\ own' \in OwnType
      /\ ~queue'.closed /\ ~own'.hold /\ own'.chunkErr = "nil"
      /\ \/ queue'.n = queue.n + 1 /\ own'.pc = "consume" /\ own'.relayErr = "nil"
         \/ queue'.n = queue.n /\ own'.pc = "drain" /\ own'.relayErr = "canceled"
  <2>1. CASE /\ queue.n < QueueCap
             /\ queue' = [queue EXCEPT !.n = @ + 1] /\ own' = [own EXCEPT !.hold = FALSE]
    <3>1. queue.n + 1 \in 0..QueueCap
      BY <1>0, <2>1 DEF TypeOK
    <3>2. QED BY <1>0, <2>1, <3>1, Zenon DEF TypeOK, OwnType
  <2>2. CASE /\ own' = [own EXCEPT !.hold = FALSE, !.pc = "drain", !.relayErr = "canceled"]
             /\ UNCHANGED queue
    BY <1>0, <2>2, Zenon DEF TypeOK, OwnType
  <2>3. QED BY <2>1, <2>2 DEF Enqueue
<1>3. TypeOK'
  BY <1>0, <1>1, <1>2 DEF TypeOK, OwnType
<1>4. NothingInvented' /\ StreamEnded'
  BY <1>0, <1>1, <1>2 DEF TypeOK, NothingInvented, Carried, One, StreamEnded, Live
<1>5. RelayStages'
  BY <1>0, <1>1, <1>2 DEF TypeOK, RelayStages, NoRelayError
<1>6. RelayFaithful'
  BY <1>0, <1>1, <1>2 DEF TypeOK, RelayStages, RelayFaithful, NoRelayError, Carried, One
<1>7. QED BY <1>0, <1>1, <1>3, <1>4, <1>5, <1>6 DEF Inv

LEMMA DrainInv == ASSUME Inv, Drain PROVE Inv'
<1>0. TypeOK /\ NothingInvented /\ StreamEnded /\ job.mode = "relay" /\ RelayStages
      /\ RelayFaithful /\ own.pc = "drain"
  BY DEF Inv, TypeOK, DirectStages, RelayStages, Drain
<1>1. UNCHANGED <<job, ctx, pw, pipe, wr, slot, committed>>
  BY DEF Drain
<1>2. /\ up' \in UpType /\ own' \in OwnType /\ queue' \in [n : 0..QueueCap, closed : BOOLEAN]
      /\ up'.sent = up.sent /\ up'.closed = up.closed /\ up'.term = up.term
      /\ up'.bodyClosed = up.bodyClosed /\ (up'.errChunk => up.errChunk)
      /\ own'.hold = own.hold /\ own'.chunkErr = own.chunkErr
      /\ own'.relayErr = own.relayErr /\ queue'.n = queue.n
      /\ \/ up'.ch = up.ch - 1 /\ own'.pc = own.pc /\ queue'.closed = queue.closed
         \/ up'.ch = 0 /\ up.ch = 0 /\ up.closed /\ own'.pc = "join" /\ queue'.closed
  <2>1. CASE up.ch > 0 /\ up' = [up EXCEPT !.ch = @ - 1] /\ UNCHANGED <<own, queue>>
    <3>1. up.ch - 1 \in 0..ChannelBuf /\ own' = own /\ queue' = queue
      BY <1>0, <2>1 DEF TypeOK
    <3>2. QED BY <1>0, <2>1, <3>1, ZenonT(60) DEF TypeOK, UpType, OwnType
  <2>2. CASE /\ up.ch = 0 /\ up.closed /\ up' = [up EXCEPT !.errChunk = FALSE]
             /\ own' = [own EXCEPT !.pc = "join"]
             /\ queue' = [queue EXCEPT !.closed = TRUE]
    BY <1>0, <2>2, Zenon DEF TypeOK, UpType, OwnType
  <2>3. QED BY <2>1, <2>2 DEF Drain
<1>3. TypeOK'
  BY <1>0, <1>1, <1>2 DEF TypeOK, UpType, OwnType
<1>4. NothingInvented' /\ StreamEnded'
  BY <1>0, <1>1, <1>2 DEF TypeOK, NothingInvented, Carried, One, StreamEnded, Live
<1>5. RelayStages'
  BY <1>0, <1>1, <1>2 DEF TypeOK, RelayStages, NoRelayError
<1>6. RelayFaithful'
  BY <1>0, <1>1, <1>2 DEF TypeOK, RelayStages, RelayFaithful, NoRelayError, Carried, One
<1>7. QED BY <1>0, <1>1, <1>3, <1>4, <1>5, <1>6 DEF Inv

LEMMA JoinPipeInv == ASSUME Inv, JoinPipe PROVE Inv'
<1>0. TypeOK /\ TypeOK'
  BY DEF Inv, TypeOK, JoinPipe, WriteEnd, cachePipeReadError
<1>2. NothingInvented' /\ StreamEnded'
  BY <1>0 DEF Inv, TypeOK, NothingInvented, Carried, One, StreamEnded, Live, JoinPipe, WriteEnd, cachePipeReadError
<1>3. ASSUME job.mode = "relay" PROVE RelayStages'
  BY <1>0, <1>3 DEF Inv, TypeOK, RelayStages, NoRelayError, JoinPipe, WriteEnd, cachePipeReadError
<1>4. ASSUME job.mode = "relay" PROVE RelayFaithful'
  BY <1>0, <1>4 DEF Inv, TypeOK, RelayStages, RelayFaithful, NoRelayError, Carried,
                    One, JoinPipe, WriteEnd, cachePipeReadError
<1>5. ASSUME job.mode = "direct" PROVE DirectStages'
  BY <1>0, <1>5 DEF Inv, TypeOK, DirectStages, JoinPipe, WriteEnd, cachePipeReadError
<1>6. QED BY <1>0, <1>2, <1>3, <1>4, <1>5 DEF Inv, JoinPipe

LEMMA JoinWriterInv == ASSUME Inv, JoinWriter PROVE Inv'
<1>0. TypeOK /\ job.mode = "relay" /\ slot = 1
  BY DEF Inv, TypeOK, DirectStages, RelayStages, JoinWriter
<1>1. TypeOK'
  BY <1>0 DEF TypeOK, JoinWriter
<1>2. NothingInvented' /\ StreamEnded'
  BY <1>0 DEF Inv, TypeOK, NothingInvented, Carried, One, StreamEnded, Live, JoinWriter
<1>3. ASSUME job.mode = "relay" PROVE RelayStages'
  BY <1>0, <1>3 DEF Inv, TypeOK, RelayStages, NoRelayError, JoinWriter
<1>4. ASSUME job.mode = "relay" PROVE RelayFaithful'
  BY <1>0, <1>4 DEF Inv, TypeOK, RelayStages, RelayFaithful, NoRelayError, Carried,
                    One, JoinWriter
<1>5. ASSUME job.mode = "direct" PROVE DirectStages'
  BY <1>0, <1>5 DEF Inv, TypeOK, DirectStages, JoinWriter
<1>6. QED BY <1>0, <1>1, <1>2, <1>3, <1>4, <1>5 DEF Inv, JoinWriter

-----------------------------------------------------------------------------
(* The pipe writer.                                                           *)

LEMMA PipeWriterInv == ASSUME Inv, PipeWriterNext PROVE Inv'
<1>0. TypeOK /\ job.mode = "relay" /\ job' = job
  BY DEF Inv, TypeOK, DirectStages, PipeWriterNext, AwaitReader, TakeFromQueue, WriteFails
<1>1. TypeOK'
  BY <1>0 DEF TypeOK, PipeWriterNext, AwaitReader, TakeFromQueue, WriteFails
<1>2. NothingInvented' /\ StreamEnded'
  BY <1>0 DEF Inv, TypeOK, NothingInvented, Carried, One, StreamEnded, Live, PipeWriterNext, AwaitReader, TakeFromQueue,
    WriteFails
<1>3. ASSUME job.mode = "relay" PROVE RelayStages'
  BY <1>0, <1>3 DEF Inv, TypeOK, RelayStages, NoRelayError, PipeWriterNext, AwaitReader, TakeFromQueue,
    WriteFails
<1>4. ASSUME job.mode = "relay" PROVE RelayFaithful'
  BY <1>0, <1>4 DEF Inv, TypeOK, RelayStages, RelayFaithful, NoRelayError, Carried,
                    One, PipeWriterNext, AwaitReader, TakeFromQueue,
    WriteFails
<1>5. ASSUME job.mode = "direct" PROVE DirectStages'
  BY <1>0, <1>5 DEF Inv, TypeOK, DirectStages, PipeWriterNext, AwaitReader, TakeFromQueue,
    WriteFails
<1>6. QED BY <1>0, <1>1, <1>2, <1>3, <1>4, <1>5 DEF Inv

-----------------------------------------------------------------------------
(* The cache writer.                                                          *)

\* What a failed write leaves of the writer's record.
LEMMA FailsShape ==
    ASSUME TypeOK, NEW e \in Errors
    PROVE  /\ Fails(e) \in WrType /\ Fails(e).got = wr.got
           /\ Fails(e).pc \in {"rest", "exit"}
<1> DEFINE p == IF job.kind = "block" THEN "rest" ELSE "exit"
<1>1. p \in {"rest", "exit"} /\ Fails(e) = [wr EXCEPT !.pc = p, !.err = e]
  BY DEF Fails
<1> HIDE DEF p
<1>2. QED BY <1>1, ZenonT(60) DEF TypeOK, WrType

\* What the end of the body leaves of it, and when it may be committed.
LEMMA BodyEndsShape ==
    ASSUME TypeOK, NEW e, BodyEnds(e)
    PROVE  /\ wr' \in WrType /\ wr'.got = wr.got
           /\ wr'.pc \in {"rest", "commit", "exit"}
           /\ wr'.pc = "commit" =>
                /\ e = "eof" \/ (e = "short" /\ job.kind = "whole")
                /\ job.known => wr.got = job.len
<1> DEFINE accepted == e = "eof" \/ (e = "short" /\ job.kind = "whole" /\ wr.got <= Inline)
           lengthOK == job.known => wr.got = job.len
<1>1. CASE accepted /\ lengthOK
  <2>1. wr' = [wr EXCEPT !.pc = "commit"]
    BY <1>1 DEF BodyEnds
  <2>2. wr' \in WrType /\ wr'.got = wr.got /\ wr'.pc = "commit"
    BY <2>1, Zenon DEF TypeOK, WrType
  <2>3. QED BY <1>1, <2>2
<1>2. CASE ~(accepted /\ lengthOK)
  <2>1. wr' = Fails("mismatch") \/ wr' = Fails("failed")
    BY <1>2 DEF BodyEnds
  <2>2. QED BY <2>1, FailsShape
<1>3. QED BY <1>1, <1>2

LEMMA FirstReadMoves == ASSUME Inv, FirstRead PROVE WriterMoves /\ wr'.pc # "commit"
<1>0. TypeOK
  BY DEF Inv
<1>1. wr' \in WrType /\ wr'.got = wr.got /\ wr'.pc \in {"read", "exit"}
  <2>1. CASE wr' = [wr EXCEPT !.pc = "read", !.reading = TRUE]
    BY <1>0, <2>1, Zenon DEF TypeOK, WrType
  <2>2. CASE wr' = [wr EXCEPT !.pc = "exit", !.err = "failed"]
    BY <1>0, <2>2, Zenon DEF TypeOK, WrType
  <2>3. QED BY <2>1, <2>2 DEF FirstRead
<1>2. QED BY <1>1 DEF FirstRead, WriterMoves

LEMMA StoreFailsMoves == ASSUME Inv, StoreFails PROVE WriterMoves
<1>1. wr' \in WrType /\ wr'.got = wr.got /\ wr'.pc \in {"rest", "exit"}
  BY FailsShape DEF Inv, StoreFails
<1>2. QED BY <1>1 DEF StoreFails, WriterMoves

LEMMA CommitMetaMoves ==
    ASSUME Inv, CommitMeta
    PROVE  WriterMoves /\ committed' \in BOOLEAN /\ wr'.pc = "exit"
<1>0. TypeOK
  BY DEF Inv
<1>1. wr' \in WrType /\ wr'.got = wr.got /\ wr'.pc = "exit"
  <2>1. CASE wr' = [wr EXCEPT !.pc = "exit"]
    BY <1>0, <2>1, Zenon DEF TypeOK, WrType
  <2>2. CASE wr' = [wr EXCEPT !.pc = "exit", !.err = "failed"]
    BY <1>0, <2>2, Zenon DEF TypeOK, WrType
  <2>3. QED BY <2>1, <2>2 DEF CommitMeta
<1>2. committed' \in BOOLEAN
  BY <1>0, Zenon DEF TypeOK, CommitMeta
<1>3. QED BY <1>1, <1>2 DEF CommitMeta, WriterMoves

\* A read of the pipe takes the chunk being written, or meets the end.
LEMMA ReadPipeInv == ASSUME Inv, ReadPipe PROVE Inv'
<1>0. TypeOK /\ NothingInvented /\ StreamEnded /\ job.mode = "relay" /\ RelayStages
      /\ RelayFaithful /\ wr.pc = "read"
  BY DEF Inv, ReadPipe
<1>1. CASE /\ pw.pc = "write" /\ wr' = [wr EXCEPT !.got = @ + 1]
           /\ pw' = [pw EXCEPT !.pc = "loop"]
  <2>1. wr.got + 1 \in 0..job.len
    BY <1>0, <1>1 DEF TypeOK, NothingInvented, Carried, One
  <2>2. /\ wr' \in WrType /\ wr'.got = wr.got + 1 /\ wr'.pc = "read"
        /\ pw' \in [pc : {"idle", "ready", "loop", "write", "discard", "done"}, err : Errors]
        /\ pw'.pc = "loop" /\ pw'.err = pw.err
    BY <1>0, <1>1, <2>1, Zenon DEF TypeOK, WrType
  <2>3. UNCHANGED <<job, ctx, up, own, queue, pipe, slot, committed>>
    BY DEF ReadPipe
  <2>4. TypeOK'
    BY <1>0, <2>2, <2>3 DEF TypeOK, WrType
  <2>5. NothingInvented' /\ StreamEnded'
    BY <1>0, <1>1, <2>2, <2>3 DEF TypeOK, NothingInvented, Carried, One, StreamEnded, Live
  <2>6. RelayStages' /\ RelayFaithful'
    BY <1>0, <1>1, <2>2, <2>3 DEF TypeOK, RelayStages, RelayFaithful, NoRelayError,
                                  Carried, One
  <2>7. QED BY <1>0, <2>3, <2>4, <2>5, <2>6 DEF Inv
<1>2. CASE BodyEnds(pipe.writeEnd) /\ UNCHANGED pw
  <2>1. WriterMoves
    BY <1>0, <1>2, BodyEndsShape DEF ReadPipe, WriterMoves
  <2>2. QED BY <1>0, <2>1, WriterMovesInv DEF TypeOK, ReadPipe
<1>3. QED BY <1>1, <1>2 DEF ReadPipe

\* So does a read of the upstream body.
LEMMA ReadBodyInv == ASSUME Inv, ReadBody PROVE Inv'
<1>0. TypeOK /\ NothingInvented /\ StreamEnded /\ job.mode = "direct" /\ DirectStages
      /\ wr.pc = "read"
  BY DEF Inv, ReadBody
<1>1. CASE /\ up.ch > 0 /\ up' = [up EXCEPT !.ch = @ - 1]
           /\ wr' = [wr EXCEPT !.got = @ + 1]
  <2>1. wr.got + 1 \in 0..job.len /\ up.ch - 1 \in 0..ChannelBuf
    BY <1>0, <1>1 DEF TypeOK, NothingInvented, Carried, One
  <2>2. /\ wr' \in WrType /\ wr'.got = wr.got + 1 /\ wr'.pc = "read"
        /\ up' \in UpType /\ up'.ch = up.ch - 1 /\ up'.sent = up.sent
        /\ up'.closed = up.closed /\ up'.term = up.term
        /\ up'.errChunk = up.errChunk /\ up'.bodyClosed = up.bodyClosed
    BY <1>0, <1>1, <2>1, Zenon DEF TypeOK, WrType, UpType
  <2>3. UNCHANGED <<job, ctx, own, queue, pw, pipe, slot, committed>>
    BY DEF ReadBody
  <2>4. TypeOK'
    BY <1>0, <2>2, <2>3 DEF TypeOK, WrType, UpType
  <2>5. NothingInvented' /\ StreamEnded' /\ DirectStages'
    BY <1>0, <1>1, <2>2, <2>3 DEF TypeOK, NothingInvented, Carried, One, StreamEnded,
                                  Live, DirectStages
  <2>6. QED BY <1>0, <2>3, <2>4, <2>5 DEF Inv
<1>2. CASE (wr' = Fails("canceled") \/ BodyEnds(BodyError)) /\ UNCHANGED up
  <2>1. WriterMoves
    BY <1>0, <1>2, FailsShape, BodyEndsShape DEF ReadBody, WriterMoves
  <2>2. QED BY <1>0, <2>1, WriterMovesInv DEF TypeOK, ReadBody
<1>3. QED BY <1>1, <1>2 DEF ReadBody

LEMMA DrainRestInv == ASSUME Inv, DrainRest PROVE Inv'
<1>0. TypeOK
  BY DEF Inv
<1>1. TypeOK'
  BY <1>0 DEF TypeOK, DrainRest, Returns
<1>2. NothingInvented' /\ StreamEnded'
  BY <1>0 DEF Inv, TypeOK, NothingInvented, Carried, One, StreamEnded, Live, DrainRest, Returns
<1>3. ASSUME job.mode = "relay" PROVE RelayStages'
  BY <1>0, <1>3 DEF Inv, TypeOK, RelayStages, NoRelayError, DrainRest, Returns
<1>4. ASSUME job.mode = "relay" PROVE RelayFaithful'
  BY <1>0, <1>4 DEF Inv, TypeOK, RelayStages, RelayFaithful, NoRelayError, Carried,
                    One, DrainRest, Returns
<1>5. ASSUME job.mode = "direct" PROVE DirectStages'
  BY <1>0, <1>5 DEF Inv, TypeOK, DirectStages, DrainRest, Returns
<1>6. QED BY <1>1, <1>2, <1>3, <1>4, <1>5 DEF Inv, DrainRest

LEMMA ExitInv == ASSUME Inv, Exit PROVE Inv'
<1>0. TypeOK /\ slot = 1
  BY DEF Inv, TypeOK, DirectStages, RelayStages, Exit
<1>1. TypeOK'
  BY <1>0 DEF TypeOK, Exit
<1>2. NothingInvented' /\ StreamEnded'
  BY <1>0 DEF Inv, TypeOK, NothingInvented, Carried, One, StreamEnded, Live, Exit
<1>3. ASSUME job.mode = "relay" PROVE RelayStages'
  BY <1>0, <1>3 DEF Inv, TypeOK, RelayStages, NoRelayError, Exit
<1>4. ASSUME job.mode = "relay" PROVE RelayFaithful'
  BY <1>0, <1>4 DEF Inv, TypeOK, RelayStages, RelayFaithful, NoRelayError, Carried,
                    One, Exit
<1>5. ASSUME job.mode = "direct" PROVE DirectStages'
  BY <1>0, <1>5 DEF Inv, TypeOK, DirectStages, Exit
<1>6. QED BY <1>1, <1>2, <1>3, <1>4, <1>5 DEF Inv, Exit

-----------------------------------------------------------------------------
(* The supervisor of a direct writer.                                         *)

LEMMA StartWriterInv == ASSUME Inv, StartWriter PROVE Inv'
<1>0. TypeOK /\ job.mode = "direct" /\ slot = 1
  BY DEF Inv, TypeOK, DirectStages, RelayStages, StartWriter
<1>1. TypeOK'
  BY <1>0 DEF TypeOK, StartWriter
<1>2. NothingInvented' /\ StreamEnded'
  BY <1>0 DEF Inv, TypeOK, NothingInvented, Carried, One, StreamEnded, Live, StartWriter
<1>3. DirectStages'
  BY <1>0 DEF Inv, TypeOK, DirectStages, StartWriter
<1>4. QED BY <1>0, <1>1, <1>2, <1>3 DEF Inv, StartWriter

LEMMA SuperviseInv == ASSUME Inv, Supervise PROVE Inv'
<1>0. TypeOK /\ job.mode = "direct"
  BY DEF Inv, TypeOK, DirectStages, RelayStages, Supervise
<1>1. /\ up' \in UpType /\ up'.ch = up.ch /\ up'.sent = up.sent
      /\ up'.closed = up.closed /\ up'.term = up.term /\ up'.errChunk = up.errChunk
      /\ up'.bodyClosed => up.bodyClosed \/ ~Live("cache")
  <2>1. CASE UNCHANGED up
    BY <1>0, <2>1 DEF TypeOK, UpType
  <2>2. CASE ~Live("cache") /\ up' = [up EXCEPT !.bodyClosed = TRUE]
    BY <1>0, <2>2, Zenon DEF TypeOK, UpType
  <2>3. QED BY <2>1, <2>2 DEF Supervise
<1>2. /\ own' = [own EXCEPT !.pc = "done"] /\ own.pc = "wait"
      /\ UNCHANGED <<job, ctx, queue, pw, pipe, wr, slot, committed>>
  BY DEF Supervise
<1>3. TypeOK'
  BY <1>0, <1>1, <1>2 DEF TypeOK, UpType
<1>4. NothingInvented' /\ StreamEnded'
  BY <1>0, <1>1, <1>2 DEF Inv, TypeOK, NothingInvented, Carried, One, StreamEnded, Live
<1>5. DirectStages'
  BY <1>0, <1>1, <1>2 DEF Inv, TypeOK, DirectStages
<1>6. QED BY <1>0, <1>2, <1>3, <1>4, <1>5 DEF Inv

-----------------------------------------------------------------------------
(* Every step.                                                                *)

LEMMA InitInv == ASSUME Init PROVE Inv
<1>1. TypeOK
  <2>1. job.len \in Nat /\ 0 \in 0..job.len /\ 0 \in 0..ChannelBuf /\ 0 \in 0..QueueCap
    BY DEF Init
  <2>2. job \in Jobs /\ (job.mode = "direct") \in BOOLEAN /\ committed \in BOOLEAN
    BY Zenon DEF Init
  <2>3. /\ up \in UpType /\ wr \in WrType /\ queue \in [n : 0..QueueCap, closed : BOOLEAN]
    BY <2>1, <2>2, Zenon DEF Init, UpType, WrType
  <2>4. own \in OwnType
    <3>1. CASE own = [pc |-> "headers", hold |-> FALSE, chunkErr |-> "nil", relayErr |-> "nil"]
      BY <3>1, Zenon DEF OwnType
    <3>2. CASE own = [pc |-> "begin", hold |-> FALSE, chunkErr |-> "nil", relayErr |-> "nil"]
      BY <3>2, Zenon DEF OwnType
    <3>3. QED BY <3>1, <3>2, Zenon DEF Init
  <2>5. /\ pw \in [pc : {"idle", "ready", "loop", "write", "discard", "done"}, err : Errors]
        /\ pipe \in [writeEnd : {"open", "eof"} \cup Errors, readEnd : {"open", "closed"}]
        /\ slot \in 0..1 /\ ctx \subseteq {"request", "cache", "service"}
    BY DEF Init
  <2>6. QED BY <2>2, <2>3, <2>4, <2>5 DEF TypeOK, UpType, OwnType, WrType
<1>2. NothingInvented /\ StreamEnded
  BY DEF Init, NothingInvented, Carried, One, StreamEnded, Live
<1>3. ASSUME job.mode = "relay" PROVE RelayStages /\ RelayFaithful
  BY <1>3 DEF Init, RelayStages, RelayFaithful, NoRelayError, Carried, One
<1>4. ASSUME job.mode = "direct" PROVE DirectStages
  BY <1>4 DEF Init, DirectStages
<1>5. QED BY <1>1, <1>2, <1>3, <1>4 DEF Inv

LEMMA NextInv == ASSUME Inv, [Next]_vars PROVE Inv'
<1>1. CASE UNCHANGED vars
  BY <1>1, SMTT(30) DEF vars, Inv, TypeOK, NothingInvented, Carried, One, StreamEnded, Live, RelayStages,
              RelayFaithful, NoRelayError, DirectStages
<1>2. CASE OwnerNext
  BY <1>2, WaitForHeadersInv, ReceiveInv, EnqueueInv, DrainInv, JoinPipeInv, JoinWriterInv,
     StartWriterInv, SuperviseInv DEF OwnerNext
<1>3. CASE WriterNext
  <2>1. CASE FirstRead
    BY <2>1, FirstReadMoves, WriterMovesInv DEF FirstRead, Inv, TypeOK
  <2>2. CASE CommitMeta
    BY <2>2, CommitMetaMoves, WriterMovesInv, SMTT(30)
  <2>3. QED BY <1>3, <2>1, <2>2, ReadPipeInv, ReadBodyInv, DrainRestInv, ExitInv DEF WriterNext
<1>4. CASE StoreFails
  BY <1>4, StoreFailsMoves, WriterMovesInv DEF StoreFails, Inv, TypeOK
<1>5. CASE SetHeaders \/ Deliver \/ StreamEnds \/ StreamCanceled \/ CloseBody
  BY <1>5, SetHeadersMoves, DeliverMoves, StreamEndsMoves, CloseBodyMoves, UpstreamMovesInv
<1>6. QED
  BY <1>1, <1>2, <1>3, <1>4, <1>5, PipeWriterInv, CancelInv, SMTT(30) DEF Next, Environment

-----------------------------------------------------------------------------
(* The theorems.                                                              *)

LEMMA SpecInv == Spec => []Inv
<1>1. Spec => Init /\ [][Next]_vars
  BY DEF Spec
<1>2. QED BY <1>1, InitInv, NextInv, PTL

\* Every variable keeps its type: no counter of the channel, the queue, the
\* store or the slots leaves its range.
THEOREM TypesHold == Spec => []TypeOK
<1>1. Inv => TypeOK
  BY DEF Inv
<1>2. QED BY <1>1, SpecInv, PTL

\* SlotCoversBuffers: the populate slot is given back (caching.go, the deferred
\* release of setupCacheListener and of the writer fetchFullObjectToCache starts)
\* only once no goroutine of the populate holds a chunk.
THEOREM SlotOutlivesBuffers == Spec => []SlotCoversBuffers
<1>1. Inv => SlotCoversBuffers
  <2> SUFFICES ASSUME Inv, slot = 0 PROVE SlotCoversBuffers
    BY DEF SlotCoversBuffers
  <2>1. CASE job.mode = "relay"
    BY <2>1 DEF Inv, TypeOK, RelayStages, SlotCoversBuffers
  <2>2. CASE job.mode = "direct"
    BY <2>2 DEF Inv, TypeOK, DirectStages, SlotCoversBuffers
  <2>3. QED BY <2>1, <2>2 DEF Inv, TypeOK
<1>2. QED BY <1>1, SpecInv, PTL

\* No body of undeclared length is handed to the store directly and cut with the
\* error the store's inline probe takes for a clean end.
Declared ==
    \A j \in Jobs : ~(j.mode = "direct" /\ j.kind = "whole" /\ ~j.known /\ j.cut = "short")

\* The pipe ends cleanly only after the whole body was read from it.
LEMMA PipeEndIsWhole ==
    ASSUME Inv, job.mode = "relay", wr.pc = "read", pipe.writeEnd = "eof"
    PROVE  wr.got = job.len
<1>1. TypeOK /\ RelayStages /\ RelayFaithful
  BY DEF Inv
<1>2. own.pc = "finish" /\ NoRelayError
  BY <1>1 DEF RelayStages, RelayFaithful
<1>3. pw.pc = "done" /\ queue.n = 0 /\ up.ch = 0 /\ ~own.hold
  BY <1>1, <1>2 DEF RelayStages
<1>4. up.sent = job.len /\ up.sent = Carried
  BY <1>1, <1>2 DEF RelayFaithful, NoRelayError
<1>5. QED BY <1>1, <1>3, <1>4 DEF TypeOK, Carried, One

\* So does the upstream body, unless it was closed under its reader, which then
\* finds its context expired.
LEMMA BodyEndIsWhole ==
    ASSUME Inv, job.mode = "direct", wr.pc = "read", Returns, Live("cache"), up.ch = 0,
           BodyError = "eof"
    PROVE  wr.got = job.len
BY SMTT(30) DEF Inv, TypeOK, StreamEnded, DirectStages, Returns, BodyError

LEMMA NextWhole == ASSUME Inv, WholeInv, Declared, [Next]_vars PROVE WholeInv'
<1>0. TypeOK
  BY DEF Inv
<1>1. CASE UNCHANGED <<job, wr, committed>>
  BY <1>1 DEF WholeInv
<1>2. CASE FirstRead
  BY <1>2, FirstReadMoves DEF FirstRead, WriterMoves, WholeInv
<1>3. CASE WaitForHeaders \/ StartWriter \/ Exit
  <2>1. wr.pc # "commit" /\ wr'.pc # "commit" /\ wr'.got = wr.got
        /\ (wr.pc = "exit" => wr'.pc = "done") /\ UNCHANGED <<job, committed>>
        /\ (wr.pc = "done" => wr'.pc = "done")
    BY <1>0, <1>3 DEF Inv, TypeOK, RelayStages, DirectStages, WaitForHeaders, StartWriter, Exit
  <2>2. QED BY <2>1 DEF WholeInv
<1>4. CASE CommitMeta
  BY <1>4, CommitMetaMoves, Zenon DEF WholeInv, CommitMeta, WriterMoves
<1>5. CASE ReadPipe
  <2>1. CASE wr' = [wr EXCEPT !.got = @ + 1]
    BY <1>0, <1>5, <2>1 DEF ReadPipe, WholeInv, TypeOK
  <2>2. CASE BodyEnds(pipe.writeEnd)
    BY <1>0, <1>5, <2>2, BodyEndsShape, PipeEndIsWhole
       DEF ReadPipe, WholeInv, Inv, RelayFaithful
  <2>3. QED BY <1>5, <2>1, <2>2 DEF ReadPipe
<1>6. CASE ReadBody
  <2>1. CASE wr' = [wr EXCEPT !.got = @ + 1]
    BY <1>0, <1>6, <2>1 DEF ReadBody, WholeInv, TypeOK
  <2>2. CASE wr' = Fails("canceled")
    BY <1>0, <1>6, <2>2, FailsShape DEF ReadBody, WholeInv
  <2>3. CASE Live("cache") /\ up.ch = 0 /\ BodyEnds(BodyError)
    <3>1. ASSUME wr'.pc = "commit" PROVE wr.got = job.len
      <4>1. CASE BodyError = "eof"
        BY <1>6, <2>3, <4>1, BodyEndIsWhole DEF ReadBody
      <4>2. CASE BodyError = "short" /\ job.kind = "whole"
        <5>1. job \in Jobs /\ job.cut = "short"
          BY <1>0, <4>2 DEF Inv, TypeOK, StreamEnded, BodyError
        <5>2. job.known
          BY <1>6, <4>2, <5>1 DEF Declared, ReadBody
        <5>3. QED BY <1>0, <2>3, <3>1, <5>2, BodyEndsShape
      <4>3. QED BY <1>0, <2>3, <3>1, <4>1, <4>2, BodyEndsShape
    <3>2. QED BY <1>0, <1>6, <2>3, <3>1, BodyEndsShape DEF ReadBody, WholeInv
  <2>4. QED BY <1>6, <2>1, <2>2, <2>3 DEF ReadBody
<1>7. CASE DrainRest
  <2>1. UNCHANGED wr \/ (wr'.pc = "exit" /\ wr'.got = wr.got)
    BY <1>0, <1>7 DEF TypeOK, DrainRest
  <2>2. QED BY <1>7, <2>1 DEF DrainRest, WholeInv
<1>8. CASE StoreFails
  BY <1>0, <1>8, FailsShape DEF StoreFails, WholeInv
<1>9. QED
  BY <1>1, <1>2, <1>3, <1>4, <1>5, <1>6, <1>7, <1>8, SMTT(30)
     DEF Next, OwnerNext, PipeWriterNext, WriterNext, Environment, vars, Receive, Enqueue,
         Drain, JoinPipe, JoinWriter, Supervise, AwaitReader, TakeFromQueue, WriteFails,
         SetHeaders, Deliver, StreamEnds, StreamCanceled, Cancel, CloseBody

\* CommittedWhole: whatever the interleaving of the relay's goroutines, the
\* upstream, the deadlines and the store, metadata is published only for a body
\* whose every chunk reached the store.  The hypothesis leaves out the one
\* populate for which this is false (run CacheWriteChunked).
THEOREM OnlyWholeBodiesCommit == Declared => (Spec => []CommittedWhole)
<1> SUFFICES ASSUME Declared PROVE Spec => []CommittedWhole
  OBVIOUS
<1>1. Spec => Init /\ [][Next]_vars
  BY DEF Spec
<1>2. Init => WholeInv
  BY DEF Init, WholeInv
<1>3. Inv /\ WholeInv /\ [Next]_vars => WholeInv'
  BY NextWhole
<1>4. WholeInv => CommittedWhole
  BY DEF WholeInv, CommittedWhole
<1>5. QED BY <1>1, <1>2, <1>3, <1>4, SpecInv, PTL
=============================================================================
