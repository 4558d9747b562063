----------------------------- MODULE CacheWrite -----------------------------
(***************************************************************************)
(* How one body reaches the cache (proxy/caching.go), in its two forms.     *)
(*                                                                         *)
(* "relay": the inline populate of a coalesced GET.  setupCacheListener runs *)
(* an owner goroutine that consumes the broadcast listener into a bounded    *)
(* queue, a pipe writer that moves the queue into an unbuffered io.Pipe once *)
(* the store has called Read, and a cache writer that reads the pipe.        *)
(*                                                                         *)
(* "direct": the background fetch.  fetchFullObjectToCache hands the upstream *)
(* body to a cache writer of its own and only supervises it, up to a         *)
(* deadline the writer may outlive.                                          *)
(*                                                                         *)
(* Chunks are anonymous: every channel is first-in first-out, so counting    *)
(* them is enough to tell a whole body from a truncated one.                 *)
(***************************************************************************)
EXTENDS Naturals

CONSTANTS
    Jobs,        \* the populates considered (see JobTypes)
    ChannelBuf,  \* capacity of the listener's channel
    QueueCap,    \* capacity of the relay's chunkQueue
    Inline       \* the longest body the store keeps inline

JobTypes ==
    [mode : {"relay", "direct"},
     kind : {"whole", "block"},       \* PutWithMetaStreamIfVersion or putBlocksFromStream
     len : Nat,                       \* chunks in the upstream body
     known : BOOLEAN,                 \* upstream declared a Content-Length
     cut : {"short", "failed"}]       \* how a body cut upstream reads: io.ErrUnexpectedEOF or not

ASSUME CacheWriteAssumption ==
    /\ Jobs \subseteq JobTypes
    /\ \A j \in Jobs : j.kind = "block" => j.known /\ j.len > 0
    /\ ChannelBuf \in Nat \ {0} /\ QueueCap \in Nat \ {0} /\ Inline \in Nat

VARIABLES
    job,        \* the populate at hand
    ctx,        \* the contexts still live: "request", "cache", "service"
    up,         \* the upstream body, or the listener that carries it
    own,        \* the owner goroutine (relay) or the supervisor (direct)
    queue,      \* chunkQueue
    pw,         \* the pipe writer goroutine
    pipe,       \* the io.Pipe
    wr,         \* the cache writer goroutine
    slot,       \* populate slots held: acquired by the caller, so 1 at the start
    committed   \* the metadata was published

vars == <<job, ctx, up, own, queue, pw, pipe, wr, slot, committed>>

Errors == {"nil", "short", "wrapped", "failed", "slow", "canceled", "mismatch"}

TypeOK ==
    /\ job \in Jobs
    /\ ctx \subseteq {"request", "cache", "service"}
    /\ up \in [headers : BOOLEAN, sent : 0..job.len, ch : 0..ChannelBuf, closed : BOOLEAN,
               term : Errors, errChunk : BOOLEAN, bodyClosed : BOOLEAN]
    /\ own \in [pc : {"headers", "begin", "consume", "drain", "join", "finish", "wait", "done"},
                hold : BOOLEAN, chunkErr : Errors, relayErr : Errors]
    /\ queue \in [n : 0..QueueCap, closed : BOOLEAN]
    /\ pw \in [pc : {"idle", "ready", "loop", "write", "discard", "done"}, err : Errors]
    /\ pipe \in [writeEnd : {"open", "eof"} \cup Errors, readEnd : {"open", "closed"}]
    /\ wr \in [pc : {"idle", "init", "read", "rest", "commit", "exit", "done"},
               reading : BOOLEAN, got : 0..job.len, err : Errors]
    /\ slot \in 0..1
    /\ committed \in BOOLEAN

Init ==
    /\ job \in Jobs
    /\ ctx = {"request", "cache", "service"}
    /\ up = [headers |-> job.mode = "direct", sent |-> 0, ch |-> 0, closed |-> FALSE,
             term |-> "nil", errChunk |-> FALSE, bodyClosed |-> FALSE]
    /\ own = [pc |-> IF job.mode = "relay" THEN "headers" ELSE "begin", hold |-> FALSE,
              chunkErr |-> "nil", relayErr |-> "nil"]
    /\ queue = [n |-> 0, closed |-> FALSE]
    /\ pw = [pc |-> "idle", err |-> "nil"]
    /\ pipe = [writeEnd |-> "open", readEnd |-> "open"]
    /\ wr = [pc |-> "idle", reading |-> FALSE, got |-> 0, err |-> "nil"]
    /\ slot = 1
    /\ committed = FALSE

Live(c) == c \in ctx

(***************************************************************************)
(* The environment: the broadcast or connection the body arrives on, and    *)
(* the contexts.                                                            *)
(***************************************************************************)
\* SetHeaders on the broadcaster: every listener learns status and headers.
SetHeaders ==
    /\ ~up.headers /\ ~up.closed
    /\ up' = [up EXCEPT !.headers = TRUE]
    /\ UNCHANGED <<job, ctx, own, queue, pw, pipe, wr, slot, committed>>

\* A chunk for the listener; a full channel disconnects it as a slow consumer,
\* with no room for an error chunk.  A plain connection just applies
\* backpressure.
Deliver ==
    /\ up.headers /\ ~up.closed /\ up.sent < job.len
    /\ \/ /\ up.ch < ChannelBuf
          /\ up' = [up EXCEPT !.ch = @ + 1, !.sent = @ + 1]
       \/ /\ up.ch = ChannelBuf /\ job.mode = "relay"
          /\ up' = [up EXCEPT !.closed = TRUE, !.term = "slow"]
    /\ UNCHANGED <<job, ctx, own, queue, pw, pipe, wr, slot, committed>>

\* Complete(err): the terminal error is queued only when the channel has room.
Complete(e) ==
    up' = [up EXCEPT !.closed = TRUE, !.term = e, !.errChunk = e # "nil" /\ up.ch < ChannelBuf]

StreamEnds ==
    /\ ~up.closed
    /\ \/ up.headers /\ up.sent = job.len /\ Complete("nil")
       \/ up.sent < job.len /\ Complete(job.cut)
    /\ UNCHANGED <<job, ctx, own, queue, pw, pipe, wr, slot, committed>>

\* The upstream request runs under the request's context and the service's.
StreamCanceled ==
    /\ ~up.closed /\ ~Live("request")
    /\ Complete("canceled")
    /\ UNCHANGED <<job, ctx, own, queue, pw, pipe, wr, slot, committed>>

\* The client leaves, the write deadline passes, or the service stops (which
\* cancels the other two as well).
Cancel ==
    /\ own.pc # "done"
    /\ \/ Live("request") /\ ctx' = ctx \ {"request"}
       \/ Live("cache") /\ wr.pc # "idle" /\ ctx' = ctx \ {"cache"}
       \/ Live("service") /\ ctx' = {}
    /\ UNCHANGED <<job, up, own, queue, pw, pipe, wr, slot, committed>>

\* context.AfterFunc closes the upstream body when the write deadline fires, so
\* that a blocked network read returns.
CloseBody ==
    /\ job.mode = "direct" /\ ~Live("cache") /\ ~up.bodyClosed
    /\ up' = [up EXCEPT !.bodyClosed = TRUE]
    /\ UNCHANGED <<job, ctx, own, queue, pw, pipe, wr, slot, committed>>

(***************************************************************************)
(* The relay's owner goroutine.                                             *)
(***************************************************************************)
\* WaitForHeaders.  Headers win over a cancellation; otherwise a failed
\* broadcast or a cancelled request ends the populate.  A response the metadata
\* says is not cacheable ends it too; the listener is then drained aside.
WaitForHeaders ==
    /\ own.pc = "headers"
    /\ \/ /\ up.headers
          /\ own' = [own EXCEPT !.pc = "consume"]
          /\ pw' = [pw EXCEPT !.pc = "ready"]
          /\ wr' = [wr EXCEPT !.pc = "init"]
          /\ UNCHANGED <<pipe, slot>>
       \/ /\ up.headers \/ up.closed \/ ~Live("request")
          /\ own' = [own EXCEPT !.pc = "done"]
          /\ pipe' = [pipe EXCEPT !.writeEnd = IF up.headers THEN "eof" ELSE "canceled"]
          /\ slot' = slot - 1
          /\ UNCHANGED <<pw, wr>>
    /\ UNCHANGED <<job, ctx, up, queue, committed>>

\* A receive from listener.Chunks(): data, the error chunk, or the close.
Receive ==
    /\ own.pc = "consume" /\ ~own.hold
    /\ \/ /\ up.ch > 0
          /\ up' = [up EXCEPT !.ch = @ - 1]
          /\ own' = [own EXCEPT !.hold = TRUE]
       \/ /\ up.ch = 0 /\ up.errChunk
          /\ up' = [up EXCEPT !.errChunk = FALSE]
          /\ own' = [own EXCEPT !.pc = "drain", !.chunkErr = up.term]
       \/ /\ up.ch = 0 /\ ~up.errChunk /\ up.closed
          /\ own' = [own EXCEPT !.pc = "join", !.chunkErr = up.term]
          /\ UNCHANGED up
    /\ queue' = [queue EXCEPT !.closed = own'.pc = "join"]
    /\ UNCHANGED <<job, ctx, pw, pipe, wr, slot, committed>>

\* The queue is taken to have room always.
EnqueueUnbounded ==
    /\ own.pc = "consume" /\ own.hold
    /\ own' = [own EXCEPT !.hold = FALSE]
    /\ queue' = [queue EXCEPT !.n = @ + 1]
    /\ UNCHANGED <<job, ctx, up, pw, pipe, wr, slot, committed>>

\* The chunk goes to the queue, or back to the pool once the cache context is
\* done; a select with both ready picks either.
Enqueue ==
    /\ own.pc = "consume" /\ own.hold
    /\ \/ /\ queue.n < QueueCap
          /\ queue' = [queue EXCEPT !.n = @ + 1]
          /\ own' = [own EXCEPT !.hold = FALSE]
       \/ /\ ~Live("cache")
          /\ own' = [own EXCEPT !.hold = FALSE, !.pc = "drain", !.relayErr = "canceled"]
          /\ UNCHANGED queue
    /\ UNCHANGED <<job, ctx, up, pw, pipe, wr, slot, committed>>

\* After an early exit every remaining chunk is released; then the queue closes.
Drain ==
    /\ own.pc = "drain"
    /\ \/ /\ up.ch > 0
          /\ up' = [up EXCEPT !.ch = @ - 1]
          /\ UNCHANGED <<own, queue>>
       \/ /\ up.ch = 0 /\ up.closed
          /\ up' = [up EXCEPT !.errChunk = FALSE]
          /\ own' = [own EXCEPT !.pc = "join"]
          /\ queue' = [queue EXCEPT !.closed = TRUE]
    /\ UNCHANGED <<job, ctx, pw, pipe, wr, slot, committed>>

\* The store's inline size probe takes EOF-shaped errors for a clean short value,
\* so they are wrapped before they reach it.
cachePipeReadError(e) == IF e = "short" THEN "wrapped" ELSE e

\* The relay's own error is forgotten when the write end is closed.
WriteEndNoRelayErr ==
    CASE own.chunkErr # "nil" -> cachePipeReadError(own.chunkErr)
      [] own.chunkErr = "nil" /\ pw.err # "nil" -> cachePipeReadError(pw.err)
      [] OTHER -> "eof"

\* How the write end is closed: with the first error there is, else cleanly.
WriteEnd ==
    CASE own.chunkErr # "nil" -> cachePipeReadError(own.chunkErr)
      [] own.chunkErr = "nil" /\ pw.err # "nil" -> cachePipeReadError(pw.err)
      [] own.chunkErr = "nil" /\ pw.err = "nil" /\ own.relayErr # "nil" ->
            cachePipeReadError(own.relayErr)
      [] OTHER -> "eof"

\* The pipe writer has finished: the pipe is closed.
JoinPipe ==
    /\ own.pc = "join" /\ pw.pc = "done"
    /\ pipe' = [pipe EXCEPT !.writeEnd = WriteEnd]
    /\ own' = [own EXCEPT !.pc = "finish"]
    /\ UNCHANGED <<job, ctx, up, queue, pw, wr, slot, committed>>

\* The cache writer has finished: the slot and the task are given back.
JoinWriter ==
    /\ own.pc = "finish" /\ wr.pc = "done"
    /\ own' = [own EXCEPT !.pc = "done"]
    /\ slot' = slot - 1
    /\ ctx' = ctx \ {"cache"}
    /\ UNCHANGED <<job, up, queue, pw, pipe, wr, committed>>

(***************************************************************************)
(* The pipe writer goroutine.                                               *)
(***************************************************************************)
\* Nothing is written before the store has called Read; if it never will, the
\* cache context wakes the goroutine.
AwaitReader ==
    /\ pw.pc = "ready"
    /\ \/ wr.reading /\ pw' = [pw EXCEPT !.pc = "loop"]
       \/ ~Live("cache") /\ pw' = [pc |-> "discard", err |-> "canceled"]
    /\ UNCHANGED <<job, ctx, up, own, queue, pipe, wr, slot, committed>>

TakeFromQueue ==
    /\ pw.pc \in {"loop", "discard"}
    /\ \/ /\ queue.n > 0
          /\ queue' = [queue EXCEPT !.n = @ - 1]
          /\ pw' = [pw EXCEPT !.pc = IF @ = "loop" THEN "write" ELSE @]
       \/ /\ queue.n = 0 /\ queue.closed
          /\ pw' = [pw EXCEPT !.pc = "done"]
          /\ UNCHANGED queue
    /\ UNCHANGED <<job, ctx, up, own, pipe, wr, slot, committed>>

\* A blocked Write returns when the read end is closed.
WriteFails ==
    /\ pw.pc = "write" /\ pipe.readEnd = "closed"
    /\ pw' = [pc |-> "discard", err |-> "failed"]
    /\ UNCHANGED <<job, ctx, up, own, queue, pipe, wr, slot, committed>>

(***************************************************************************)
(* The cache writer.                                                        *)
(***************************************************************************)
\* The store makes its first Read, or refuses the body before reading any of
\* it (an owner over its disk budget, a remote stream that does not open).
FirstRead ==
    /\ wr.pc = "init"
    /\ \/ wr' = [wr EXCEPT !.pc = "read", !.reading = TRUE]
       \/ job.kind = "whole" /\ wr' = [wr EXCEPT !.pc = "exit", !.err = "failed"]
    /\ UNCHANGED <<job, ctx, up, own, queue, pw, pipe, slot, committed>>

\* What a failed write does next: a block split drains its reader, so that the
\* other end of the pipe cannot block on it.
Fails(e) == [wr EXCEPT !.pc = IF job.kind = "block" THEN "rest" ELSE "exit", !.err = e]

\* The end of the body as the store sees it.  A value still short enough to be
\* kept inline may end on either EOF sentinel; a whole body whose length was
\* declared must have that length.  A block split needs every block and then a
\* clean EOF.
BodyEnds(e) ==
    LET accepted == e = "eof" \/ (e = "short" /\ job.kind = "whole" /\ wr.got <= Inline)
        lengthOK == job.known => wr.got = job.len
    IN  wr' = CASE accepted /\ lengthOK -> [wr EXCEPT !.pc = "commit"]
                [] accepted /\ ~lengthOK -> Fails("mismatch")
                [] OTHER -> Fails("failed")

ReadPipe ==
    /\ job.mode = "relay" /\ wr.pc = "read"
    /\ \/ /\ pw.pc = "write"
          /\ wr' = [wr EXCEPT !.got = @ + 1]
          /\ pw' = [pw EXCEPT !.pc = "loop"]
       \/ /\ pipe.writeEnd # "open"
          /\ BodyEnds(pipe.writeEnd)
          /\ UNCHANGED pw
    /\ UNCHANGED <<job, ctx, up, own, queue, pipe, slot, committed>>

BodyError == IF up.term = "nil" THEN "eof" ELSE up.term

\* A Read of the upstream body returns: with data, at its end, or because the
\* body was closed under it.
Returns == up.ch > 0 \/ up.closed \/ up.bodyClosed

\* contextBoundReader: the context is checked again after the read, so nothing
\* read under an expired context counts, a close-induced EOF least of all.
ReadBody ==
    /\ job.mode = "direct" /\ wr.pc = "read" /\ Returns
    /\ \/ /\ ~Live("cache")
          /\ wr' = Fails("canceled")
          /\ UNCHANGED up
       \/ /\ Live("cache") /\ up.ch > 0
          /\ up' = [up EXCEPT !.ch = @ - 1]
          /\ wr' = [wr EXCEPT !.got = @ + 1]
       \/ /\ Live("cache") /\ up.ch = 0
          /\ BodyEnds(BodyError)
          /\ UNCHANGED up
    /\ UNCHANGED <<job, ctx, own, queue, pw, pipe, slot, committed>>

\* The store fails in mid-body.
StoreFails ==
    /\ wr.pc = "read"
    /\ wr' = Fails("failed")
    /\ UNCHANGED <<job, ctx, up, own, queue, pw, pipe, slot, committed>>

\* putBlocksFromStream reads its input to the end after an error.
DrainRest ==
    /\ wr.pc = "rest"
    /\ \/ /\ job.mode = "relay" /\ pw.pc = "write"
          /\ pw' = [pw EXCEPT !.pc = "loop"]
          /\ UNCHANGED <<up, wr>>
       \/ /\ job.mode = "relay" /\ pipe.writeEnd # "open"
          /\ wr' = [wr EXCEPT !.pc = "exit"]
          /\ UNCHANGED <<up, pw>>
       \/ /\ job.mode = "direct" /\ Live("cache") /\ up.ch > 0
          /\ up' = [up EXCEPT !.ch = @ - 1]
          /\ UNCHANGED <<pw, wr>>
       \/ /\ job.mode = "direct" /\ Returns /\ (up.ch = 0 \/ ~Live("cache"))
          /\ wr' = [wr EXCEPT !.pc = "exit"]
          /\ UNCHANGED <<up, pw>>
    /\ UNCHANGED <<job, ctx, own, queue, pipe, slot, committed>>

\* The metadata write: applied, refused by its precondition, or failed.  The
\* embedded store does not look at the context.
CommitMeta ==
    /\ wr.pc = "commit"
    /\ \/ committed' = TRUE /\ wr' = [wr EXCEPT !.pc = "exit"]
       \/ wr' = [wr EXCEPT !.pc = "exit"] /\ UNCHANGED committed
       \/ wr' = [wr EXCEPT !.pc = "exit", !.err = "failed"] /\ UNCHANGED committed
    /\ UNCHANGED <<job, ctx, up, own, queue, pw, pipe, slot>>

\* The read end is left open when the store fails.
ExitLeavesPipe ==
    /\ wr.pc = "exit"
    /\ wr' = [wr EXCEPT !.pc = "done"]
    /\ IF job.mode = "relay"
       THEN /\ pipe' = [pipe EXCEPT !.readEnd = IF wr.err = "nil" THEN "closed" ELSE @]
            /\ ctx' = IF wr.err = "nil" THEN ctx ELSE ctx \ {"cache"}
            /\ UNCHANGED slot
       ELSE slot' = slot - 1 /\ UNCHANGED <<ctx, pipe>>
    /\ UNCHANGED <<job, up, own, queue, pw, committed>>

\* The writer ends.  In the relay it closes the read end, which unblocks the
\* pipe writer, and after a failure also cancels the cache context, which wakes
\* a pipe writer still waiting for the first Read.  A direct writer gives back
\* the slot it owns.
Exit ==
    /\ wr.pc = "exit"
    /\ wr' = [wr EXCEPT !.pc = "done"]
    /\ IF job.mode = "relay"
       THEN /\ pipe' = [pipe EXCEPT !.readEnd = "closed"]
            /\ ctx' = IF wr.err = "nil" THEN ctx ELSE ctx \ {"cache"}
            /\ UNCHANGED slot
       ELSE slot' = slot - 1 /\ UNCHANGED <<ctx, pipe>>
    /\ UNCHANGED <<job, up, own, queue, pw, committed>>

(***************************************************************************)
(* The background fetch that supervises a direct writer.                    *)
(***************************************************************************)
\* startBackgroundTask: once the service is stopping the writer is refused and
\* the slot stays with the supervisor, which releases it.
StartWriter ==
    /\ own.pc = "begin"
    /\ IF Live("service")
       THEN /\ own' = [own EXCEPT !.pc = "wait"]
            /\ wr' = [wr EXCEPT !.pc = "init"]
            /\ UNCHANGED slot
       ELSE /\ own' = [own EXCEPT !.pc = "done"]
            /\ slot' = slot - 1
            /\ UNCHANGED wr
    /\ UNCHANGED <<job, ctx, up, queue, pw, pipe, committed>>

\* The supervisor gives the slot back when it stops waiting for the writer.
SuperviseReleases ==
    /\ own.pc = "wait"
    /\ \/ /\ wr.pc = "done"
          /\ UNCHANGED <<up, slot>>
       \/ /\ ~Live("cache")
          /\ up' = [up EXCEPT !.bodyClosed = TRUE]
          /\ slot' = IF wr.pc = "done" THEN slot ELSE slot - 1
    /\ own' = [own EXCEPT !.pc = "done"]
    /\ UNCHANGED <<job, ctx, queue, pw, pipe, wr, committed>>

\* waitForCacheWrite: the writer's result, or the deadline.  The body is closed
\* on a timeout; the slot stays with the writer.
Supervise ==
    /\ own.pc = "wait"
    /\ \/ /\ wr.pc = "done"
          /\ UNCHANGED up
       \/ /\ ~Live("cache")
          /\ up' = [up EXCEPT !.bodyClosed = TRUE]
    /\ own' = [own EXCEPT !.pc = "done"]
    /\ UNCHANGED <<job, ctx, queue, pw, pipe, wr, slot, committed>>

(***************************************************************************)
(* The specification.                                                       *)
(***************************************************************************)
OwnerNext ==
    WaitForHeaders \/ Receive \/ Enqueue \/ Drain \/ JoinPipe \/ JoinWriter
        \/ StartWriter \/ Supervise

PipeWriterNext == AwaitReader \/ TakeFromQueue \/ WriteFails

\* The writer's steps that depend on no fault of the store.
WriterNext == FirstRead \/ ReadPipe \/ ReadBody \/ DrainRest \/ CommitMeta \/ Exit

Environment == SetHeaders \/ Deliver \/ StreamEnds \/ Cancel \/ StoreFails

Finished == own.pc = "done" /\ wr.pc \in {"idle", "done"}

Next ==
    \/ OwnerNext \/ PipeWriterNext \/ WriterNext
    \/ StreamCanceled \/ CloseBody
    \/ Environment

\* Go schedules every runnable goroutine, runs AfterFunc callbacks and cancels
\* requests whose context is done.  Upstream and the client owe nothing.
Fairness ==
    /\ WF_vars(OwnerNext) /\ WF_vars(PipeWriterNext) /\ WF_vars(WriterNext)
    /\ WF_vars(StreamCanceled) /\ WF_vars(CloseBody)

Spec == Init /\ [][Next]_vars /\ Fairness

(***************************************************************************)
(* Properties.                                                              *)
(***************************************************************************)
\* Metadata is published only for a body whose every chunk reached the store:
\* no upstream error, slow-consumer disconnect, deadline, close-induced EOF or
\* failed pipe is ever taken for the clean end of a shorter body.
CommittedWhole == committed => wr.got = job.len

\* The populate slot accounts for memory: it is not given back while the relay
\* still holds a chunk or a cache writer is still running, however long that
\* writer outlives the deadline of the fetch that started it.  (A listener that
\* ended before its headers is drained aside after the slot is given back, so
\* only a relay that had a writer answers for its channel.)
SlotCoversBuffers ==
    slot = 0 =>
        /\ queue.n = 0 /\ ~own.hold /\ pw.pc \in {"idle", "done"}
        /\ wr.pc \in {"idle", "done"}
        /\ (wr.pc = "done" /\ job.mode = "relay") => up.ch = 0

\* No combination of a blocked pipe, a writer that never reads, a full queue
\* and a stalled upstream leaves the populate hanging: once the body has ended
\* or the service is stopping, every goroutine exits and the slot is free.
PopulateEnds == (up.closed \/ ~Live("service")) ~> (Finished /\ slot = 0)
=============================================================================
