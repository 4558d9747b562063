------------------------------ MODULE Broadcast ------------------------------
(***************************************************************************)
(* One streaming broadcast (proxy/broadcast/broadcaster.go) with the        *)
(* goroutine that feeds it (streamFromUpstream in proxy/get_object.go) and   *)
(* the goroutines that read from it: the clients whose GETs were coalesced   *)
(* (writeChunksToResponse) and the inline cache populate                     *)
(* (setupCacheListener in proxy/caching.go).                                 *)
(*                                                                         *)
(* Chunks of the body are numbered 1, 2, ...  A pooled buffer is a member of *)
(* Bufs; mem[x] is the chunk written into it, 0 once it is back in the pool. *)
(* A queued chunk is a reference to a buffer, so that a buffer released or   *)
(* reused too early shows up as wrong bytes at a consumer that still has it. *)
(* The sender's loops over the listeners run under Broadcaster.mu but the    *)
(* consumers receive without it, so every send is a step of its own.         *)
(***************************************************************************)
EXTENDS Integers, Sequences

CONSTANTS
    Clients,        \* the coalesced GET requests
    Fetcher,        \* the one whose request started the broadcast
    CacheListener,  \* the inline cache populate
    Bufs,           \* pooled buffers (a bound: see PoolLeft)
    ChannelBuf,     \* capacity of a listener's channel
    MaxChunks,      \* bound on the chunks of the upstream body
    Setups          \* the configurations considered (see SetupTypes)

Listeners == Clients \cup {CacheListener}
NoBuf == 0
Errors == {"nil", "slow", "failed", "canceled"}

\* cache.enabled, whether chunk_size is small enough for pooled reads
\* (BroadcastOwned), the clients that may leave, and the length of the body.
SetupTypes ==
    [cache : BOOLEAN, owned : BOOLEAN, leavers : SUBSET Clients, chunks : 0..MaxChunks]

ASSUME BroadcastAssumption ==
    /\ Fetcher \in Clients
    /\ CacheListener \notin Clients
    /\ Bufs \subseteq Nat \ {0}
    /\ Setups \subseteq SetupTypes
    /\ ChannelBuf \in Nat \ {0}
    /\ MaxChunks \in Nat

VARIABLES
    setup,   \* the configuration at hand
    b,       \* the Broadcaster
    prod,    \* the fetch goroutine, with its progress through broadcast()
    lis,     \* each Listener
    con,     \* the goroutine that consumes each listener
    mem,     \* the contents of each buffer
    free,    \* the buffers in the pool
    left,    \* clients that closed their connection
    gone     \* clients whose request context is cancelled

vars == <<setup, b, prod, lis, con, mem, free, left, gone>>

Chunk(x, e) == [buf |-> x, err |-> e]

\* Broadcaster.mu is held through the loops of broadcast().
Unlocked == prod.pc \notin {"scan", "copy"}

\* l is one of the broadcaster's listeners.
Live(l) == \E k \in 1..Len(b.listeners) : b.listeners[k] = l

\* GetChunkBuf: some buffer of the pool, always the same one of a given pool, so
\* that a released buffer is soon in use again.
Lease == CHOOSE x \in free : TRUE

\* Bound: the pool of the model is finite, where the code's allocates on demand.
\* A run that could exhaust it would report a deadlock.
PoolLeft == free # {}

\* PutChunkBuf: the bytes of a released buffer are no longer anyone's.
PutChunkBuf(X) ==
    /\ free' = free \cup (X \ {NoBuf})
    /\ mem' = [x \in Bufs |-> IF x \in X THEN 0 ELSE mem[x]]

NewListener ==
    [ch |-> <<>>, closed |-> FALSE, ready |-> FALSE, headerErr |-> "nil",
     termErr |-> "nil", disconnected |-> FALSE]

HasRoomAlways(l) == TRUE

HasRoom(l) == Len(lis[l].ch) < ChannelBuf

\* closeWithError: the terminal error is recorded, queued if there is room,
\* and the channel closed; nothing already queued is displaced.
CloseWithError(r, e) ==
    [r EXCEPT !.termErr = e, !.closed = TRUE,
              !.ch = IF Len(@) < ChannelBuf THEN Append(@, Chunk(NoBuf, e)) ELSE @]

DisconnectSlowConsumer(r) == CloseWithError([r EXCEPT !.disconnected = TRUE], "slow")

(***************************************************************************)
(* Subscribing.                                                             *)
(***************************************************************************)
SubscribedUnfinished == [NewListener EXCEPT !.ready = b.headerSet]

\* The listener that Subscribe hands out while streaming has not begun: on a
\* broadcast already completed it carries the terminal result.
Subscribed ==
    LET ready == [NewListener EXCEPT !.ready = b.headerSet]
    IN  IF b.done
        THEN [ready EXCEPT !.ready = TRUE, !.closed = TRUE, !.termErr = b.err,
                           !.headerErr = IF b.headerSet THEN "nil" ELSE b.err,
                           !.ch = IF b.err = "nil" THEN <<>> ELSE <<Chunk(NoBuf, b.err)>>]
        ELSE ready

Attach(l) ==
    /\ lis' = [lis EXCEPT ![l] = Subscribed]
    /\ b' = IF b.done THEN b ELSE [b EXCEPT !.listeners = Append(@, l)]

\* A GET that found the broadcast in the manager.  Once data has been sent
\* Subscribe returns nil and the request makes a broadcast of its own.
SubscribeLate(c) ==
    /\ con[c].pc = "idle" /\ Unlocked
    /\ Attach(c)
    /\ con' = [con EXCEPT ![c].pc = "headers"]
    /\ UNCHANGED <<setup, prod, mem, free, left, gone>>

Subscribe(c) ==
    /\ con[c].pc = "idle" /\ Unlocked
    /\ IF b.streaming
       THEN /\ con' = [con EXCEPT ![c].pc = "elsewhere"]
            /\ UNCHANGED <<b, lis>>
       ELSE /\ Attach(c)
            /\ con' = [con EXCEPT ![c].pc = "headers"]
    /\ UNCHANGED <<setup, prod, mem, free, left, gone>>

(***************************************************************************)
(* The fetch goroutine.                                                     *)
(***************************************************************************)
Ends(e) == prod' = [prod EXCEPT !.pc = "complete", !.end = e]

\* startBackgroundTask refuses work once the service is stopping.
TaskRefused ==
    /\ prod.pc = "request"
    /\ Ends("canceled")
    /\ UNCHANGED <<setup, b, lis, con, mem, free, left, gone>>

\* The upstream request fails, or is cancelled with the fetcher's request.
RequestFails ==
    /\ prod.pc = "request"
    /\ Ends(IF Fetcher \in gone THEN "canceled" ELSE "failed")
    /\ UNCHANGED <<setup, b, lis, con, mem, free, left, gone>>

\* Upstream answers; the cache subscribes when the response is cacheable and a
\* populate slot is free.
RequestAnswered ==
    /\ prod.pc = "request"
    /\ prod' = [prod EXCEPT !.pc = "answered"]
    /\ \/ /\ setup.cache
          /\ Attach(CacheListener)
          /\ con' = [con EXCEPT ![CacheListener].pc = "headers"]
       \/ UNCHANGED <<b, lis, con>>
    /\ UNCHANGED <<setup, mem, free, left, gone>>

\* SetHeaders, then the lease of the first read buffer.
SetHeaders ==
    /\ prod.pc = "answered" /\ PoolLeft
    /\ b' = [b EXCEPT !.headerSet = TRUE]
    /\ lis' = [l \in Listeners |->
                 IF Live(l) THEN [lis[l] EXCEPT !.ready = TRUE] ELSE lis[l]]
    /\ prod' = [prod EXCEPT !.pc = "read", !.buf = Lease]
    /\ free' = free \ {Lease}
    /\ UNCHANGED <<setup, con, mem, left, gone>>

\* resp.Body.Read returns data, possibly with the end or an error of the body.
ReadData ==
    /\ prod.pc = "read" /\ prod.n < setup.chunks
    /\ \E e \in {"more", "eof", "failed"} :
         prod' = [prod EXCEPT !.pc = IF setup.owned THEN "scan" ELSE "copy",
                              !.n = @ + 1, !.end = e]
    /\ mem' = [mem EXCEPT ![prod.buf] = prod.n + 1]
    /\ b' = [b EXCEPT !.streaming = TRUE]
    /\ UNCHANGED <<setup, lis, con, free, left, gone>>

\* resp.Body.Read returns the end of the body, an error, or the cancellation of
\* the fetcher's request, without data.
ReadNone ==
    /\ prod.pc = "read"
    /\ \E e \in {"nil", "failed"} : Ends(IF Fetcher \in gone /\ e # "nil" THEN "canceled" ELSE e)
    /\ UNCHANGED <<setup, b, lis, con, mem, free, left, gone>>

\* The copy loop starts past the owner's place in the list.
StartCopies(owner) ==
    prod' = [prod EXCEPT !.pc = "copy", !.owner = owner, !.i = IF owner = 1 THEN 2 ELSE 1]

\* The first loop hands the input over before the copies are made.
ScanOwnerHandingOver ==
    /\ prod.pc = "scan"
    /\ IF prod.i > Len(b.listeners) THEN StartCopies(0) /\ UNCHANGED lis
       ELSE LET l == b.listeners[prod.i] IN
            IF HasRoom(l)
            THEN /\ StartCopies(prod.i)
                 /\ lis' = [lis EXCEPT ![l].ch = Append(@, Chunk(prod.buf, "nil"))]
            ELSE prod' = [prod EXCEPT !.i = @ + 1] /\ UNCHANGED lis
    /\ UNCHANGED <<setup, b, con, mem, free, left, gone>>

\* broadcastOwnedLocked, first loop: the owner is the first listener with room.
ScanOwner ==
    /\ prod.pc = "scan"
    /\ IF prod.i > Len(b.listeners) THEN StartCopies(0)
       ELSE IF HasRoom(b.listeners[prod.i]) THEN StartCopies(prod.i)
       ELSE prod' = [prod EXCEPT !.i = @ + 1]
    /\ UNCHANGED <<setup, b, lis, con, mem, free, left, gone>>

\* The loop that copies the input for every listener but the owner; a full
\* channel disconnects its listener, and the copy goes back to the pool.
CopyToListener ==
    /\ prod.pc = "copy" /\ prod.i <= Len(b.listeners)
    /\ LET l    == b.listeners[prod.i]
           next == IF prod.i + 1 = prod.owner THEN prod.i + 2 ELSE prod.i + 1
       IN  IF HasRoom(l)
           THEN /\ PoolLeft
                /\ lis' = [lis EXCEPT ![l].ch = Append(@, Chunk(Lease, "nil"))]
                /\ mem' = [mem EXCEPT ![Lease] = mem[prod.buf]]
                /\ free' = free \ {Lease}
                /\ prod' = [prod EXCEPT !.i = next, !.kept = Append(@, l),
                                        !.pos = IF prod.i < prod.owner THEN @ + 1 ELSE @]
           ELSE /\ lis' = [lis EXCEPT ![l] = DisconnectSlowConsumer(@)]
                /\ prod' = [prod EXCEPT !.i = next]
                /\ UNCHANGED <<mem, free>>
    /\ UNCHANGED <<setup, b, con, left, gone>>

CopiesDone == prod.pc = "copy" /\ prod.i > Len(b.listeners)

\* What ends the read loop after a broadcast: the end of the body, its error, or
\* the cancellation of the fetcher's request; "more" when nothing does.
NextRead ==
    CASE prod.end = "eof"    -> "nil"
      [] prod.end = "failed" -> "failed"
      [] prod.end = "more"   -> IF Fetcher \in gone THEN "canceled" ELSE "more"

\* broadcast returns to the read loop; held is the buffer the producer owns.
Returned(held) ==
    [prod EXCEPT !.pc = IF NextRead = "more" THEN "read" ELSE "complete",
                 !.end = NextRead, !.buf = held,
                 !.i = 1, !.owner = 0, !.pos = 0, !.kept = <<>>]

\* No owner: the producer keeps its buffer for the next read.
KeepInput ==
    /\ CopiesDone /\ prod.owner = 0
    /\ b' = [b EXCEPT !.listeners = prod.kept]
    /\ prod' = Returned(prod.buf)
    /\ UNCHANGED <<setup, lis, con, mem, free, left, gone>>

\* The kept listeners with the owner shifted in behind the first prod.pos of them.
Reinserted(owner) ==
    [k \in 1..(Len(prod.kept) + 1) |->
        IF k <= prod.pos THEN prod.kept[k]
        ELSE IF k = prod.pos + 1 THEN owner
        ELSE prod.kept[k - 1]]

\* The input goes to the owner last, and the owner back to its place in the
\* list; the producer leases a fresh buffer if the body goes on.
HandOver ==
    /\ CopiesDone /\ prod.owner # 0
    /\ LET l     == b.listeners[prod.owner]
           fresh == IF prod.end = "more" THEN Lease ELSE NoBuf
       IN  IF HasRoom(l)
           THEN /\ prod.end = "more" => PoolLeft
                /\ lis' = [lis EXCEPT ![l].ch = Append(@, Chunk(prod.buf, "nil"))]
                /\ b' = [b EXCEPT !.listeners = Reinserted(l)]
                /\ prod' = Returned(fresh)
                /\ free' = free \ {fresh}
           ELSE /\ lis' = [lis EXCEPT ![l] = DisconnectSlowConsumer(@)]
                /\ b' = [b EXCEPT !.listeners = prod.kept]
                /\ prod' = Returned(prod.buf)
                /\ UNCHANGED free
    /\ UNCHANGED <<setup, con, mem, left, gone>>

\* streamFromUpstream returns its buffer, then Complete publishes the result to
\* every listener; before headers a missing error is errCompletedBeforeHeaders.
Complete ==
    /\ prod.pc = "complete"
    /\ b' = [b EXCEPT !.done = TRUE, !.err = prod.end]
    /\ lis' = [l \in Listeners |->
         IF ~ Live(l) THEN lis[l]
         ELSE CloseWithError(
                [lis[l] EXCEPT !.ready = TRUE,
                               !.headerErr = IF b.headerSet THEN "nil" ELSE prod.end],
                prod.end)]
    /\ prod' = [prod EXCEPT !.pc = "done", !.buf = NoBuf]
    /\ PutChunkBuf({prod.buf})
    /\ UNCHANGED <<setup, con, left, gone>>

(***************************************************************************)
(* The consumers.                                                           *)
(***************************************************************************)
\* The context a listener's goroutine runs under: the cache populate is bound
\* to the fetcher's request until it has headers.
ContextDone(l) == IF l = CacheListener THEN Fetcher \in gone ELSE l \in gone

\* A handler that returns has its request context cancelled by net/http.
HandlerReturned(l) == IF l \in Clients THEN gone \cup {l} ELSE gone

\* The consumer gives up; what it delivered so far no longer matters.
Failed(l) ==
    /\ con' = [con EXCEPT ![l] = [pc |-> "drain", hold |-> NoBuf, out |-> <<>>, res |-> "error"]]
    /\ gone' = HandlerReturned(l)

\* WaitForHeaders: headers win over a concurrent cancellation.  The cache also
\* stops here when the metadata built from them is not cacheable.
WaitForHeaders(l) ==
    /\ con[l].pc = "headers"
    /\ \/ /\ lis[l].ready /\ lis[l].headerErr = "nil"
          /\ con' = [con EXCEPT ![l].pc = "receive"]
          /\ UNCHANGED gone
       \/ /\ \/ lis[l].ready /\ lis[l].headerErr # "nil"
             \/ ~ lis[l].ready /\ ContextDone(l)
             \/ lis[l].ready /\ l = CacheListener
          /\ Failed(l)
    /\ UNCHANGED <<setup, b, prod, lis, mem, free, left>>

\* The range loop over Chunks(): the next chunk, or the end of the channel,
\* where Err() tells a clean end from a cut one.
Pop(l) == lis' = [lis EXCEPT ![l].ch = Tail(@)]

ReceiveChunk(l) ==
    /\ con[l].pc = "receive" /\ lis[l].ch # <<>>
    /\ Pop(l)
    /\ LET c == Head(lis[l].ch) IN
         IF c.err # "nil"
         THEN Failed(l)
         ELSE /\ con' = IF c.buf = NoBuf THEN con
                        ELSE [con EXCEPT ![l].pc = "write", ![l].hold = c.buf]
              /\ UNCHANGED gone
    /\ UNCHANGED <<setup, b, prod, mem, free, left>>

\* The chunk is written out and its buffer released; the write may fail, and
\* then the rest of the channel is drained.
Write(l) ==
    /\ con[l].pc = "write"
    /\ \/ /\ con' = [con EXCEPT ![l].pc = "receive", ![l].hold = NoBuf,
                                ![l].out = Append(@, mem[con[l].hold])]
          /\ UNCHANGED gone
       \/ /\ l \in left \cup {CacheListener}
          /\ Failed(l)
    /\ PutChunkBuf({con[l].hold})
    /\ UNCHANGED <<setup, b, prod, lis, left>>

\* A client that has read its last byte takes the close for a clean end.
ChannelClosedUnchecked(l) ==
    /\ con[l].pc = "receive" /\ lis[l].ch = <<>> /\ lis[l].closed
    /\ con' = [con EXCEPT ![l].pc = "drain", ![l].res = "ok"]
    /\ gone' = HandlerReturned(l)
    /\ UNCHANGED <<setup, b, prod, lis, mem, free, left>>

ChannelClosed(l) ==
    /\ con[l].pc = "receive" /\ lis[l].ch = <<>> /\ lis[l].closed
    /\ IF lis[l].termErr = "nil"
       THEN /\ con' = [con EXCEPT ![l].pc = "drain", ![l].res = "ok"]
            /\ gone' = HandlerReturned(l)
       ELSE Failed(l)
    /\ UNCHANGED <<setup, b, prod, lis, mem, free, left>>

\* DrainAndRelease: what is still queued goes back to the pool.
Drain(l) ==
    /\ con[l].pc = "drain" /\ lis[l].ch # <<>>
    /\ Pop(l)
    /\ PutChunkBuf({Head(lis[l].ch).buf})
    /\ UNCHANGED <<setup, b, prod, con, left, gone>>

\* The client closes its connection, which also cancels its request context.
ClientLeaves(c) ==
    /\ con[c].pc \in {"headers", "receive", "write"} /\ c \in setup.leavers \ left
    /\ left' = left \cup {c}
    /\ gone' = gone \cup {c}
    /\ UNCHANGED <<setup, b, prod, lis, con, mem, free>>

(***************************************************************************)
(* The specification.                                                       *)
(***************************************************************************)
Init ==
    /\ setup \in Setups
    /\ b = [headerSet |-> FALSE, streaming |-> FALSE, done |-> FALSE, err |-> "nil",
            listeners |-> <<Fetcher>>]
    /\ prod = [pc |-> "request", buf |-> NoBuf, n |-> 0, end |-> "more",
               i |-> 1, owner |-> 0, pos |-> 0, kept |-> <<>>]
    /\ lis = [l \in Listeners |-> NewListener]
    /\ con = [l \in Listeners |-> [pc |-> IF l = Fetcher THEN "headers" ELSE "idle",
                                   hold |-> NoBuf, out |-> <<>>, res |-> "none"]]
    /\ mem = [x \in Bufs |-> 0]
    /\ free = Bufs
    /\ left = {} /\ gone = {}

FetchNext ==
    \/ TaskRefused \/ RequestFails \/ RequestAnswered \/ SetHeaders
    \/ ReadData \/ ReadNone \/ ScanOwner \/ CopyToListener \/ KeepInput
    \/ HandOver \/ Complete

ConsumerNext(l) ==
    WaitForHeaders(l) \/ ReceiveChunk(l) \/ Write(l) \/ ChannelClosed(l) \/ Drain(l)

\* Everything has been delivered: the broadcast is over for everyone in it.
Over ==
    /\ prod.pc = "done"
    /\ \A l \in Listeners : con[l].pc \in {"idle", "elsewhere"} 
                            \/ (con[l].pc = "drain" /\ lis[l].ch = <<>>)

Finished == Over /\ UNCHANGED vars

Next ==
    \/ FetchNext
    \/ \E l \in Listeners : ConsumerNext(l)
    \/ \E c \in Clients : Subscribe(c) \/ ClientLeaves(c)
    \/ Finished

Spec == Init /\ [][Next]_vars

\* The fetch goroutine and every consumer keep running: upstream reads and
\* client writes end (in data, an error or a timeout), nothing else blocks them.
Fairness ==
    /\ WF_vars(FetchNext)
    /\ \A l \in Listeners : WF_vars(ConsumerNext(l))

FairSpec == Spec /\ Fairness

(***************************************************************************)
(* Properties.                                                              *)
(***************************************************************************)
Chunks == [buf : Bufs \cup {NoBuf}, err : Errors]

\* Types, and the channel capacity: no send ever exceeds make(chan Chunk, n).
TypeOK ==
    /\ setup \in Setups
    /\ b.err \in Errors /\ b.listeners \in Seq(Listeners)
    /\ prod.buf \in Bufs \cup {NoBuf} /\ prod.n \in 0..MaxChunks
    /\ \A l \in Listeners :
         /\ lis[l].termErr \in Errors /\ lis[l].headerErr \in Errors
         /\ lis[l].ch \in Seq(Chunks) /\ Len(lis[l].ch) <= ChannelBuf
         /\ con[l].hold \in Bufs \cup {NoBuf}
         /\ con[l].res \in {"none", "ok", "error"}
    /\ mem \in [Bufs -> 0..MaxChunks]
    /\ free \subseteq Bufs

\* Every consumer gets the body from its first byte, in order and without a gap,
\* whatever happens to the others (broadcast, closeWithError): no displaced
\* chunk, no late joiner, no buffer overwritten while it is queued.
InOrder ==
    \A l \in Listeners : \A k \in DOMAIN con[l].out : con[l].out[k] = k

\* A consumer reports success only for a body that upstream ended cleanly and of
\* which it has every chunk: a disconnect or a failed completion on a full
\* channel is never taken for a clean end (Listener.Err), so no metadata is
\* committed for a truncated body.
SuccessIsWhole ==
    \A l \in Listeners :
        con[l].res = "ok" => b.done /\ b.err = "nil" /\ Len(con[l].out) = prod.n

\* The places a buffer can be held: by the producer, in a channel, in the hands
\* of a consumer.
Queued(x) == {p \in Listeners \X (1..ChannelBuf) :
                p[2] <= Len(lis[p[1]].ch) /\ lis[p[1]].ch[p[2]].buf = x}
Held(x) == {l \in Listeners : con[l].hold = x}
Owners(x) == {<<"channel", p>> : p \in Queued(x)} \cup {<<"consumer", l>> : l \in Held(x)}
               \cup {<<"producer", y>> : y \in {prod.buf} \cap {x}}
               \cup {<<"pool", y>> : y \in free \cap {x}}

\* A pooled buffer has one owner at a time, and a released one has none: the
\* ownership rule of BroadcastOwned, Chunk.Release and PutChunkBuf.  And the owner
\* picked by the first loop of broadcastOwnedLocked still has room when the input
\* is handed over, though consumers ran in between.
OneOwner ==
    /\ \A x \in Bufs : \E o \in Owners(x) : Owners(x) = {o}
    /\ CopiesDone /\ prod.owner # 0 => HasRoom(b.listeners[prod.owner])

\* Nobody waits for ever: the fetch ends, and every listener that subscribed is
\* told an outcome, also one that joined a broadcast already completed (Subscribe)
\* or was disconnected (disconnectSlowConsumer).
EveryoneAnswered ==
    <>(prod.pc = "done" /\ \A l \in Listeners : con[l].pc \in {"idle", "elsewhere", "drain"})
==============================================================================
