------------------------------ MODULE Shutdown ------------------------------
(***************************************************************************)
(* The life of a request and of the work it leaves behind, against the       *)
(* process shutting down: admission of HTTP handlers (handlers/server.go),   *)
(* coalescing of GETs for one object (proxy/get_object.go and                *)
(* proxy/broadcast/manager.go), service-owned tasks (proxy/lifecycle.go),    *)
(* the background fetch (proxy/caching.go) and the order in which main       *)
(* (cmd/tag/main.go) stops the server, the service, the size sampler and the *)
(* embedded storage.                                                         *)
(*                                                                         *)
(* What a broadcast carries is Broadcast's subject and how a body is written *)
(* CacheWrite's; here a broadcast has only a beginning and an end, and a task *)
(* is something that uses the storage until it returns.                      *)
(***************************************************************************)
EXTENDS Naturals, FiniteSets

CONSTANTS
    Requests,      \* GETs of one uncached object
    MaxInflight,   \* server.max_inflight_requests
    Stoppers,      \* callers of Service.Stop other than main
    Scenarios,     \* what happens in an instance (see ScenarioTypes)
    None

\* The requests that arrive, those whose client may leave, those that may be too
\* slow for their broadcast, whether upstream may fail, whether the response is
\* cacheable, whether an abandoned miss may be warmed, and who else stops the
\* service.
ScenarioTypes ==
    [requests : SUBSET Requests, leavers : SUBSET Requests, slow : SUBSET Requests,
     fails : BOOLEAN, cacheable : BOOLEAN, warms : BOOLEAN, stoppers : SUBSET Stoppers]

ASSUME ShutdownAssumption ==
    /\ IsFiniteSet(Requests)
    /\ MaxInflight \in Nat \ {0}
    /\ "main" \notin Stoppers
    /\ None \notin Requests
    /\ Scenarios \subseteq ScenarioTypes

VARIABLES
    scenario,  \* the scenario at hand
    adm,       \* handlerState and handlersDone
    sem,       \* admissionSem: slots taken
    h,         \* the handler of each request
    gone,      \* requests whose client has left
    reqCtx,    \* the server's base request context is live
    reg,       \* Manager.active for the object: the request whose broadcast it is
    bc,        \* the broadcast each request owns
    fetch,     \* the upstream fetch of each broadcast
    pop,       \* the inline populate of each broadcast
    warm,      \* the background fetch and its entry in activeBackgroundFetches
    writer,    \* the cache writer the background fetch started
    svc,       \* serviceWorkers
    stp,       \* the callers of Service.Stop
    main,      \* the main goroutine, and the AfterFunc of its drain deadline
    sampler,   \* the size sampler
    store      \* the embedded storage

handlerVars == <<adm, sem, h, gone, reg>>
taskVars == <<fetch, pop, warm, writer>>
stopVars == <<scenario, reqCtx, stp, main, sampler, store>>
vars == <<scenario, adm, sem, h, gone, reqCtx, reg, bc, fetch, pop, warm, writer, svc, stp,
          main, sampler, store>>

InBody == {"in", "lookup", "join", "begin", "wait", "outcome", "return", "leave"}

TypeOK ==
    /\ scenario \in Scenarios
    /\ adm \in [stopping : BOOLEAN, count : 0..Cardinality(Requests), done : BOOLEAN]
    /\ sem \in 0..MaxInflight
    /\ h \in [Requests -> [pc : InBody \cup {"new", "late", "ended"},
                           src : Requests \cup {None}, mapped : BOOLEAN]]
    /\ gone \subseteq Requests
    /\ reqCtx \in BOOLEAN
    /\ reg \in Requests \cup {None}
    /\ bc \in [Requests -> [streaming : BOOLEAN, end : {"no", "ok", "failed", "canceled"}]]
    /\ fetch \in [Requests -> {"none", "request", "stream"}]
    /\ pop \in [Requests -> {"none", "run"}]
    /\ warm \in [pc : {"none", "fetch", "wait"}, marker : BOOLEAN]
    /\ writer \in {"none", "run"}
    /\ svc \in [stopping : BOOLEAN, live : BOOLEAN, wg : Nat, stopped : BOOLEAN]
    /\ stp \in [Stoppers \cup {"main"} -> {"idle", "cancel", "join", "await", "returned"}]
    /\ main \in [pc : {"run", "admission", "drain", "join", "service", "sampler",
                       "exit"},
                 afterFunc : {"none", "armed", "running", "sent", "off"}]
    /\ sampler \in {"run", "canceled", "stopped"}
    /\ store \in {"open", "closed"}

NewHandler == [pc |-> "new", src |-> None, mapped |-> FALSE]
NewBroadcast == [streaming |-> FALSE, end |-> "no"]

Init ==
    /\ scenario \in Scenarios
    /\ adm = [stopping |-> FALSE, count |-> 0, done |-> FALSE]
    /\ sem = 0
    /\ h = [r \in Requests |-> NewHandler]
    /\ gone = {}
    /\ reqCtx = TRUE
    /\ reg = None
    /\ bc = [r \in Requests |-> NewBroadcast]
    /\ fetch = [r \in Requests |-> "none"]
    /\ pop = [r \in Requests |-> "none"]
    /\ warm = [pc |-> "none", marker |-> FALSE]
    /\ writer = "none"
    /\ svc = [stopping |-> FALSE, live |-> TRUE, wg |-> 0, stopped |-> FALSE]
    /\ stp = [c \in Stoppers \cup {"main"} |-> "idle"]
    /\ main = [pc |-> "run", afterFunc |-> "none"]
    /\ sampler = "run"
    /\ store = "open"

Goto(r, p) == h' = [h EXCEPT ![r].pc = p]

\* A request's context ends with its client, or when the server cancels all.
Canceled(r) == r \in gone \/ ~reqCtx

(***************************************************************************)
(* Handler admission.                                                       *)
(***************************************************************************)
\* enterHandler: one atomic add that also reads the stop bit.
enterHandler(r) ==
    /\ h[r].pc = "new" /\ r \in scenario.requests
    /\ adm' = [adm EXCEPT !.count = @ + 1]
    /\ Goto(r, IF adm.stopping THEN "late" ELSE "in")
    /\ UNCHANGED <<sem, gone, reg, bc, svc, taskVars, stopVars>>

\* leaveHandler: the last one out after the stop bit was set closes handlersDone.
leaveHandler(r) ==
    adm' = [adm EXCEPT !.count = @ - 1, !.done = @ \/ (adm.stopping /\ adm.count = 1)]

\* A request that came too late is rejected, a served one is finished; what
\* nobody can refer to any more is forgotten.
Leave(r) ==
    /\ h[r].pc \in {"late", "leave"}
    /\ leaveHandler(r)
    /\ h' = [h EXCEPT ![r] = [NewHandler EXCEPT !.pc = "ended"]]
    /\ bc' = IF fetch[r] # "none" \/ \E q \in Requests \ {r} : h[q].src = r
             THEN bc
             ELSE [bc EXCEPT ![r] = NewBroadcast]
    /\ gone' = gone \ {r}
    /\ UNCHANGED <<sem, reg, svc, taskVars, stopVars>>

\* The limit on the semaphore is not looked at.
AdmitAll(r) ==
    /\ h[r].pc = "in"
    /\ sem' = sem + 1
    /\ Goto(r, "lookup")
    /\ UNCHANGED <<adm, gone, reg, bc, svc, taskVars, stopVars>>

\* admissionMiddleware: a slot of the semaphore, or 503 SlowDown.
Admit(r) ==
    /\ h[r].pc = "in"
    /\ \/ /\ sem < MaxInflight
          /\ sem' = sem + 1
          /\ Goto(r, "lookup")
       \/ /\ sem = MaxInflight
          /\ Goto(r, "leave") /\ UNCHANGED sem
    /\ UNCHANGED <<adm, gone, reg, bc, svc, taskVars, stopVars>>

ClientLeaves(r) ==
    /\ h[r].pc \in {"in", "lookup", "join", "begin", "wait"} /\ r \in scenario.leavers \ gone
    /\ gone' = gone \cup {r}
    /\ UNCHANGED <<adm, sem, h, reg, bc, svc, taskVars, stopVars>>

(***************************************************************************)
(* The service's tasks.                                                     *)
(***************************************************************************)
\* begin: admission is serialized with stop by the mutex.
Begins(n) == svc' = [svc EXCEPT !.wg = @ + n]
TaskDone(n) == svc' = [svc EXCEPT !.wg = @ - n]

(***************************************************************************)
(* A GET that misses.                                                       *)
(***************************************************************************)
\* Manager.GetOrCreate: join the broadcast in the map unless it is already
\* streaming; otherwise put one of one's own there.
GetOrCreate(r) ==
    /\ h[r].pc = "lookup"
    /\ IF reg # None /\ ~bc[reg].streaming
       THEN /\ h' = [h EXCEPT ![r].pc = "join", ![r].src = reg]
            /\ UNCHANGED reg
       ELSE /\ reg' = r
            /\ h' = [h EXCEPT ![r].pc = "begin", ![r].src = r, ![r].mapped = TRUE]
    /\ UNCHANGED <<adm, sem, gone, bc, svc, taskVars, stopVars>>

\* Subscribe: nil once data has been sent, and then the request makes an
\* independent broadcast that the map does not know.
Subscribe(r) ==
    /\ h[r].pc = "join"
    /\ h' = IF bc[h[r].src].streaming
            THEN [h EXCEPT ![r].pc = "begin", ![r].src = r]
            ELSE [h EXCEPT ![r].pc = "wait"]
    /\ UNCHANGED <<adm, sem, gone, reg, bc, svc, taskVars, stopVars>>

\* A refused task leaves the broadcast without an end.
BeginOnly(r) ==
    /\ h[r].pc = "begin"
    /\ IF svc.stopping
       THEN UNCHANGED <<fetch, svc>>
       ELSE fetch' = [fetch EXCEPT ![r] = "request"] /\ Begins(1)
    /\ Goto(r, "wait")
    /\ UNCHANGED <<adm, sem, gone, reg, bc, pop, warm, writer, stopVars>>

\* fetchAndBroadcast: subscribe oneself and start the fetch as a task; if the
\* service no longer admits tasks the broadcast is completed on the spot.
StartFetch(r) ==
    /\ h[r].pc = "begin"
    /\ IF svc.stopping
       THEN /\ bc' = [bc EXCEPT ![r].end = "canceled"]
            /\ UNCHANGED <<fetch, svc>>
       ELSE /\ fetch' = [fetch EXCEPT ![r] = "request"]
            /\ Begins(1)
            /\ UNCHANGED bc
    /\ Goto(r, "wait")
    /\ UNCHANGED <<adm, sem, gone, reg, pop, warm, writer, stopVars>>

\* A fetcher whose context is done goes on to see whether the object should be
\* warmed in the background.
AfterChunks(r) == IF h[r].src = r /\ Canceled(r) THEN "outcome" ELSE "return"

\* writeChunksToResponse returns because the broadcast has ended, or because the
\* request's context has while it waits for the headers: the loop over the chunks
\* does not look at the context.
Received(r) ==
    /\ h[r].pc = "wait"
    /\ bc[h[r].src].end # "no" \/ (Canceled(r) /\ fetch[h[r].src] # "stream")
    /\ Goto(r, AfterChunks(r))
    /\ UNCHANGED <<adm, sem, gone, reg, bc, svc, taskVars, stopVars>>

\* A chunk arrives that cannot be written, or too many for the listener's queue:
\* the request is over while its broadcast goes on.
Dropped(r) ==
    /\ h[r].pc = "wait" /\ r \in gone \cup scenario.slow
    /\ fetch[h[r].src] = "stream" /\ bc[h[r].src].streaming
    /\ Goto(r, AfterChunks(r))
    /\ UNCHANGED <<adm, sem, gone, reg, bc, svc, taskVars, stopVars>>

\* The fetch's outcome decides: no warming after a genuine upstream failure, or
\* when the entry is there after all or cannot be read.  activeBackgroundFetches
\* lets one fetch in; if the service refuses the task the entry is removed.
Outcome(r) ==
    /\ h[r].pc = "outcome" /\ bc[r].end # "no"
    /\ \/ UNCHANGED <<warm, svc>>
       \/ /\ scenario.warms /\ bc[r].end # "failed" /\ ~warm.marker /\ ~svc.stopping
          /\ warm' = [pc |-> "fetch", marker |-> TRUE]
          /\ Begins(1)
    /\ Goto(r, "return")
    /\ UNCHANGED <<adm, sem, gone, reg, bc, fetch, pop, writer, stopVars>>

\* The deferred calls: Manager.Remove, which deletes whatever broadcast the map
\* holds by then, and the release of the admission slot.
Return(r) ==
    /\ h[r].pc = "return"
    /\ reg' = IF h[r].mapped THEN None ELSE reg
    /\ sem' = sem - 1
    /\ Goto(r, "leave")
    /\ UNCHANGED <<adm, gone, bc, svc, taskVars, stopVars>>

(***************************************************************************)
(* The tasks.                                                               *)
(***************************************************************************)
\* The fetch's context ends with the request, and so with its handler, or with the
\* service.
FetchCanceled(r) == Canceled(r) \/ h[r].pc = "ended" \/ ~svc.live

Completes(r, e) ==
    /\ bc' = [bc EXCEPT ![r].end = e]
    /\ fetch' = [fetch EXCEPT ![r] = "none"]
    /\ TaskDone(1)

\* Upstream answers.  A cacheable response for which a slot is free starts the
\* inline populate, a task of its own: refused, the response is just not cached.
Answered(r) ==
    /\ fetch[r] = "request"
    /\ fetch' = [fetch EXCEPT ![r] = "stream"]
    /\ \/ UNCHANGED <<pop, svc>>
       \/ scenario.cacheable /\ ~svc.stopping /\ pop' = [pop EXCEPT ![r] = "run"] /\ Begins(1)
    /\ UNCHANGED <<handlerVars, bc, warm, writer, stopVars>>

\* The first chunk of the body: from now on nobody can join.
Streams(r) ==
    /\ fetch[r] = "stream" /\ ~bc[r].streaming
    /\ bc' = [bc EXCEPT ![r].streaming = TRUE]
    /\ UNCHANGED <<handlerVars, svc, taskVars, stopVars>>

FetchEnds(r) ==
    /\ \/ fetch[r] = "stream" /\ Completes(r, "ok")
       \/ scenario.fails /\ fetch[r] \in {"request", "stream"} /\ Completes(r, "failed")
    /\ UNCHANGED <<handlerVars, pop, warm, writer, stopVars>>

\* The fetch is bound to the request that started it and to the service.
FetchStops(r) ==
    /\ fetch[r] \in {"request", "stream"} /\ FetchCanceled(r)
    /\ Completes(r, "canceled")
    /\ UNCHANGED <<handlerVars, pop, warm, writer, stopVars>>

\* The populate outlives the request.  It ends with its broadcast, or before it
\* when the metadata is not cacheable or its listener was dropped as too slow.
PopulateEnds(r) ==
    /\ pop[r] = "run"
    /\ pop' = [pop EXCEPT ![r] = "none"]
    /\ TaskDone(1)
    /\ UNCHANGED <<handlerVars, bc, fetch, warm, writer, stopVars>>

\* The background fetch is declined, fails, times out or is cancelled; or it is
\* answered and hands the body to a writer, again a task of its own.
WarmFetch ==
    /\ warm.pc = "fetch"
    /\ \/ /\ warm' = [pc |-> "none", marker |-> FALSE]
          /\ TaskDone(1)
          /\ UNCHANGED writer
       \/ /\ ~svc.stopping /\ writer = "none"
          /\ warm' = [warm EXCEPT !.pc = "wait"]
          /\ writer' = "run"
          /\ Begins(1)
    /\ UNCHANGED <<handlerVars, bc, fetch, pop, stopVars>>

\* The supervisor returns with the writer's result or at the deadline, which the
\* writer may outlive.
WarmEnds ==
    /\ warm.pc = "wait"
    /\ warm' = [pc |-> "none", marker |-> FALSE]
    /\ TaskDone(1)
    /\ UNCHANGED <<handlerVars, bc, fetch, pop, writer, stopVars>>

WriterEnds ==
    /\ writer = "run"
    /\ writer' = "none"
    /\ TaskDone(1)
    /\ UNCHANGED <<handlerVars, bc, fetch, pop, warm, stopVars>>

(***************************************************************************)
(* Service.Stop.                                                            *)
(***************************************************************************)
\* The admission of tasks is left open.
SealsLate(c) ==
    /\ stp[c] = "idle"
    /\ stp' = [stp EXCEPT ![c] = IF svc.stopped THEN "await" ELSE "cancel"]
    /\ UNCHANGED svc

\* stop: the caller that seals admission goes on to cancel and join.
Seal(c) ==
    /\ stp[c] = "idle"
    /\ stp' = [stp EXCEPT ![c] = IF svc.stopping THEN "await" ELSE "cancel"]
    /\ svc' = [svc EXCEPT !.stopping = TRUE]

\* Cancellation, the join of every admitted task, and the wait of every caller
\* for the one that joins.
StopSteps(c) ==
    \/ /\ stp[c] = "cancel"
       /\ svc' = [svc EXCEPT !.live = FALSE]
       /\ stp' = [stp EXCEPT ![c] = "join"]
    \/ /\ stp[c] = "join" /\ svc.wg = 0
       /\ svc' = [svc EXCEPT !.stopped = TRUE]
       /\ stp' = [stp EXCEPT ![c] = "await"]
    \/ /\ stp[c] = "await" /\ svc.stopped
       /\ stp' = [stp EXCEPT ![c] = "returned"]
       /\ UNCHANGED svc

OtherStops(c) ==
    /\ c \in scenario.stoppers
    /\ Seal(c)
    /\ UNCHANGED <<handlerVars, bc, taskVars, scenario, reqCtx, main, sampler, store>>

ServiceStops(c) ==
    /\ StopSteps(c)
    /\ UNCHANGED <<handlerVars, bc, taskVars, scenario, reqCtx, main, sampler, store>>

(***************************************************************************)
(* The main goroutine, and the server it stops.                             *)
(***************************************************************************)
MainGoto(p) == main' = [main EXCEPT !.pc = p]

Signal ==
    /\ main.pc = "run"
    /\ MainGoto("admission")
    /\ UNCHANGED <<handlerVars, bc, svc, taskVars, scenario, reqCtx, stp, sampler, store>>

\* closeHandlerAdmission: with no handler running it closes handlersDone itself.
closeHandlerAdmission ==
    /\ main.pc = "admission"
    /\ adm' = [adm EXCEPT !.stopping = TRUE, !.done = @ \/ adm.count = 0]
    /\ MainGoto("drain")
    /\ UNCHANGED <<sem, h, gone, reg, bc, svc, taskVars, scenario, reqCtx, stp, sampler, store>>

\* http.Server.Shutdown returns once no connection is active.  A handler whose
\* stream the client has reset may still be running then.
Drained ==
    /\ main.pc = "drain"
    /\ \A r \in Requests : h[r].pc \in InBody \cup {"late"} => r \in gone
    /\ main' = [main EXCEPT !.pc = "join", !.afterFunc = "armed"]
    /\ UNCHANGED <<handlerVars, bc, svc, taskVars, scenario, reqCtx, stp, sampler, store>>

\* The drain deadline leaves the handlers running on.
DrainOnlyTimesOut ==
    /\ main.pc = "drain"
    /\ MainGoto("join")
    /\ UNCHANGED <<handlerVars, bc, svc, taskVars, scenario, reqCtx, stp, sampler, store>>

\* The drain deadline passes: request contexts are cancelled and connections
\* closed, and the join below still waits for every handler.
DrainTimesOut ==
    /\ main.pc = "drain"
    /\ reqCtx' = FALSE
    /\ MainGoto("join")
    /\ UNCHANGED <<handlerVars, bc, svc, taskVars, scenario, stp, sampler, store>>

\* The AfterFunc that does the same if the deadline passes after a clean drain.
AfterFunc ==
    /\ \/ /\ main.afterFunc = "armed"
          /\ main' = [main EXCEPT !.afterFunc = "running"]
          /\ UNCHANGED reqCtx
       \/ /\ main.afterFunc = "running"
          /\ reqCtx' = FALSE
          /\ main' = [main EXCEPT !.afterFunc = "sent"]
    /\ UNCHANGED <<handlerVars, bc, svc, taskVars, scenario, stp, sampler, store>>

\* Every admitted handler has finished.  stopDeadline: a callback that has begun
\* is waited for too.
HandlersJoined ==
    /\ main.pc = "join" /\ adm.done /\ main.afterFunc # "running"
    /\ main' = [pc |-> "service",
                afterFunc |-> IF main.afterFunc = "armed" THEN "off" ELSE main.afterFunc]
    /\ reqCtx' = FALSE
    /\ UNCHANGED <<handlerVars, bc, svc, taskVars, scenario, stp, sampler, store>>

\* The storage is closed as soon as the service has been told to stop.
StopsWithoutJoin ==
    /\ main.pc = "service"
    /\ \/ Seal("main") /\ UNCHANGED <<main, sampler>>
       \/ /\ stp["main"] \in {"join", "await", "returned"}
          /\ MainGoto("sampler")
          /\ sampler' = "canceled"
          /\ UNCHANGED <<svc, stp>>
    /\ UNCHANGED <<handlerVars, bc, taskVars, scenario, reqCtx, store>>

\* service.Stop, then the deferred calls: the sampler is cancelled first.
MainStopsService ==
    /\ main.pc = "service"
    /\ \/ Seal("main") /\ UNCHANGED <<main, sampler>>
       \/ /\ stp["main"] = "returned"
          /\ MainGoto("sampler")
          /\ sampler' = "canceled"
          /\ UNCHANGED <<svc, stp>>
    /\ UNCHANGED <<handlerVars, bc, taskVars, scenario, reqCtx, store>>

SamplerEnds ==
    /\ sampler = "canceled"
    /\ sampler' = "stopped"
    /\ UNCHANGED <<handlerVars, bc, svc, taskVars, scenario, reqCtx, stp, main, store>>

\* The sampler is joined, then the embedded cache is closed.
CloseStorage ==
    /\ main.pc = "sampler" /\ sampler = "stopped"
    /\ store' = "closed"
    /\ MainGoto("exit")
    /\ UNCHANGED <<handlerVars, bc, svc, taskVars, scenario, reqCtx, stp, sampler>>

(***************************************************************************)
(* The specification.                                                       *)
(***************************************************************************)
HandlerStep(r) ==
    \/ Leave(r) \/ Admit(r) \/ GetOrCreate(r) \/ Subscribe(r) \/ StartFetch(r)
    \/ Received(r) \/ Outcome(r) \/ Return(r)

TaskStep(r) == FetchStops(r) \/ (fetch[r] = "none" /\ PopulateEnds(r))

WarmStep == WarmFetch \/ WarmEnds \/ WriterEnds

MainStep ==
    \/ closeHandlerAdmission \/ Drained \/ DrainTimesOut \/ HandlersJoined
    \/ MainStopsService \/ CloseStorage

\* What clients, upstream and the operator do.
Environment ==
    \/ \E r \in Requests : enterHandler(r) \/ ClientLeaves(r)
    \/ \E r \in Requests : Answered(r) \/ Streams(r) \/ Dropped(r)
    \/ \E r \in Requests : FetchEnds(r) \/ PopulateEnds(r)
    \/ Signal
    \/ \E c \in Stoppers : OtherStops(c)

Stopped == main.pc = "exit" /\ UNCHANGED vars

Next ==
    \/ Environment
    \/ \E r \in Requests : HandlerStep(r) \/ TaskStep(r)
    \/ WarmStep
    \/ MainStep \/ AfterFunc \/ SamplerEnds
    \/ \E c \in Stoppers \cup {"main"} : ServiceStops(c)
    \/ Stopped

\* Goroutines that can run do run, timers fire, and a cache write returns.
\* Upstream may stall for ever and clients may stay for ever.
Fairness ==
    /\ \A r \in Requests : WF_vars(HandlerStep(r)) /\ WF_vars(TaskStep(r))
    /\ WF_vars(WarmStep)
    /\ WF_vars(MainStep) /\ WF_vars(AfterFunc) /\ WF_vars(SamplerEnds)
    /\ \A c \in Stoppers \cup {"main"} : WF_vars(ServiceStops(c))

Spec == Init /\ [][Next]_vars /\ Fairness

(***************************************************************************)
(* Properties.                                                              *)
(***************************************************************************)
LiveTasks ==
    Cardinality({r \in Requests : fetch[r] \in {"request", "stream"}})
        + Cardinality({r \in Requests : pop[r] = "run"})
        + (IF warm.pc = "none" THEN 0 ELSE 1) + (IF writer = "none" THEN 0 ELSE 1)

\* The embedded storage is closed under nobody: no handler is running, no fetch,
\* populate, background fetch or writer is left, and the sampler has ended.
StorageOutlivesUse ==
    store = "closed" =>
        /\ \A r \in Requests : h[r].pc \notin InBody
        /\ LiveTasks = 0
        /\ sampler = "stopped"

\* A join that has returned stays true: once handlersDone is closed no request
\* is inside a handler, and once Service.Stop has joined no task is running,
\* whichever requests and tasks raced the two seals.
JoinsHold ==
    /\ adm.done => \A r \in Requests : h[r].pc \notin InBody
    /\ svc.stopped => LiveTasks = 0

\* Nobody waits for a broadcast that nobody will end: its fetch is running, or
\* its owner has yet to start it.  This holds for a broadcast that another
\* request's Remove took off the map, and for one whose task was refused.  Nor is
\* such a broadcast left on the map for later requests.
NobodyWaitsAlone ==
    /\ \A r \in Requests : h[r].pc \in {"join", "wait", "outcome"} =>
         LET s == h[r].src
         IN  bc[s].end # "no" \/ fetch[s] \in {"request", "stream"} \/ h[s].pc = "begin"
    /\ reg # None => h[reg].pc \in InBody \ {"leave"}

\* A process told to stop does stop, although upstream and clients may stall for
\* ever: the drain deadline cancels the handlers, which end the fetches they
\* wait for, and the service's cancellation ends the rest.
StopReturns == main.pc # "run" ~> main.pc = "exit"
=============================================================================
