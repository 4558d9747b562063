--------------------------- MODULE ShutdownProofs ---------------------------
(***************************************************************************)
(* What Shutdown promises holds for any number of requests, any admission    *)
(* limit and any number of concurrent callers of Service.Stop.               *)
(***************************************************************************)
EXTENDS Shutdown, FiniteSetTheorems, TLAPS

Fetching == {r \in Requests : fetch[r] \in {"request", "stream"}}
Populating == {r \in Requests : pop[r] = "run"}
Inside == {r \in Requests : h[r].pc \in InBody \cup {"late"}}

\* Between admissionMiddleware's acquisition and its deferred release.
Admitted == {"lookup", "join", "begin", "wait", "outcome", "return"}
Holding == {r \in Requests : h[r].pc \in Admitted}

\* The handler count and the semaphore count requests.
HandlersCounted == adm.count = Cardinality(Inside) /\ sem = Cardinality(Holding)

\* The wait group counts tasks.  A request has a fetch or a populate only once it
\* has begun one, and the entry in activeBackgroundFetches is its fetch's.
TasksCounted ==
    /\ svc.wg = LiveTasks
    /\ \A r \in Requests : fetch[r] # "none" \/ pop[r] = "run" =>
         h[r].pc \in {"wait", "outcome", "return", "leave", "ended"}
    /\ \A r \in Requests : pop[r] = "run" => fetch[r] # "request"
    /\ warm.marker <=> warm.pc # "none"

\* Each join comes after its seal and the emptiness it waited for has lasted.
HandlersJoin == adm.done => adm.stopping /\ \A r \in Requests : h[r].pc \notin InBody

TasksJoin ==
    /\ svc.stopped => svc.stopping /\ svc.wg = 0
    /\ \A c \in Stoppers \cup {"main"} :
         /\ stp[c] # "idle" => svc.stopping
         /\ stp[c] = "returned" => svc.stopped

\* How far main has come says what has been joined.
MainOrdered ==
    /\ main.pc \in {"service", "sampler", "exit"} => adm.done
    /\ main.pc \in {"sampler", "exit"} => svc.stopped
    /\ main.pc = "exit" => sampler = "stopped"
    /\ store = "closed" => main.pc = "exit"

\* A broadcast that somebody waits for, or could find on the map, has an end in
\* sight, and the one on the map is its creator's.
Ending == {s \in Requests : \/ bc[s].end # "no" \/ fetch[s] \in {"request", "stream"}
                             \/ h[s].pc = "begin"}

Attended ==
    /\ \A r \in Requests :
         /\ h[r].pc \in {"join", "wait", "outcome"} => h[r].src \in Ending
         /\ h[r].pc \in {"begin", "outcome"} => h[r].src = r
    /\ reg # None =>
         h[reg].mapped /\ h[reg].pc \in {"begin", "wait", "outcome", "return"} /\ reg \in Ending

IInv ==
    /\ TypeOK
    /\ HandlersCounted /\ TasksCounted
    /\ HandlersJoin /\ TasksJoin /\ MainOrdered
    /\ Attended

-----------------------------------------------------------------------------
(* Counting.                                                                  *)

\* What the counters count is finite.
LEMMA FiniteSubset ==
    ASSUME NEW S, S \subseteq Requests
    PROVE  /\ IsFiniteSet(S) /\ Cardinality(S) \in Nat
           /\ Cardinality(S) <= Cardinality(Requests)
           /\ Cardinality(S) = 0 <=> S = {}
  <1>1. IsFiniteSet(Requests)
    BY ShutdownAssumption
  <1>2. IsFiniteSet(S) /\ Cardinality(S) <= Cardinality(Requests)
    BY <1>1, FS_Subset
  <1>. QED
    BY <1>2, FS_CardinalityType, FS_EmptySet

\* One more request is counted.
LEMMA CountUp ==
    ASSUME NEW S, S \subseteq Requests, NEW r \in Requests, r \notin S
    PROVE  Cardinality(S \cup {r}) = Cardinality(S) + 1
  BY FiniteSubset, FS_AddElement

\* One request fewer is counted.
LEMMA CountDown ==
    ASSUME NEW S, S \subseteq Requests, NEW r \in S
    PROVE  Cardinality(S \ {r}) = Cardinality(S) - 1
  BY FiniteSubset, FS_RemoveElement

\* What is counted are requests.
LEMMA Counted ==
    /\ Inside \subseteq Requests /\ Holding \subseteq Requests
    /\ Fetching \subseteq Requests /\ Populating \subseteq Requests
  BY DEF Inside, Holding, Fetching, Populating

\* A handler that moves within the counted positions changes no count.
LEMMA MoveInside ==
    ASSUME TypeOK, NEW r \in Requests, h[r].pc \in Admitted,
           h'[r].pc \in Admitted, \A q \in Requests \ {r} : h'[q] = h[q]
    PROVE  Inside' = Inside /\ Holding' = Holding
  BY DEF Inside, Holding, Admitted, InBody

\* Every step leaves the handler count and the semaphore right: enterHandler,
\* leaveHandler, and the middleware's acquisition and release are paired.
LEMMA HandlersStep ==
    ASSUME IInv, [Next]_vars
    PROVE  HandlersCounted'
  <1>. USE DEF IInv, HandlersCounted
  <1>a. h \in [Requests -> [pc : InBody \cup {"new", "late", "ended"},
                           src : Requests \cup {None}, mapped : BOOLEAN]]
    BY DEF TypeOK
  <1>b. adm = [stopping |-> adm.stopping, count |-> adm.count, done |-> adm.done]
    BY DEF TypeOK
  <1>1. ASSUME NEW r \in Requests, enterHandler(r) PROVE HandlersCounted'
    <2>1. adm'.count = adm.count + 1 /\ sem' = sem
      BY <1>1, <1>b DEF enterHandler
    <2>2. Inside' = Inside \cup {r} /\ r \notin Inside /\ Holding' = Holding
      BY <1>1, <1>a DEF enterHandler, Goto, Inside, Holding, Admitted, InBody
    <2>. QED
      BY <2>1, <2>2, Counted, CountUp
  <1>2. ASSUME NEW r \in Requests, Leave(r) PROVE HandlersCounted'
    <2>1. adm'.count = adm.count - 1 /\ sem' = sem
      BY <1>2, <1>b DEF Leave, leaveHandler
    <2>2. Inside' = Inside \ {r} /\ r \in Inside /\ Holding' = Holding
      BY <1>2, <1>a DEF Leave, NewHandler, Inside, Holding, Admitted, InBody
    <2>. QED
      BY <2>1, <2>2, Counted, CountDown
  <1>3. ASSUME NEW r \in Requests, Admit(r) PROVE HandlersCounted'
    <2>1. adm' = adm /\ Inside' = Inside
      BY <1>3, <1>a DEF Admit, Goto, Inside, InBody
    <2>2. CASE sem' = sem + 1 /\ Goto(r, "lookup")
      <3>1. Holding' = Holding \cup {r} /\ r \notin Holding
        BY <1>3, <2>2, <1>a DEF Admit, Goto, Holding, Admitted
      <3>. QED
        BY <2>1, <2>2, <3>1, Counted, CountUp
    <2>3. CASE sem' = sem /\ Goto(r, "leave")
      <3>1. Holding' = Holding
        BY <1>3, <2>3, <1>a DEF Admit, Goto, Holding, Admitted
      <3>. QED
        BY <2>1, <2>3, <3>1
    <2>. QED
      BY <1>3, <2>2, <2>3 DEF Admit
  <1>4. ASSUME NEW r \in Requests, Return(r) PROVE HandlersCounted'
    <2>1. adm' = adm /\ sem' = sem - 1
      BY <1>4 DEF Return
    <2>2. Inside' = Inside /\ Holding' = Holding \ {r} /\ r \in Holding
      BY <1>4, <1>a DEF Return, Goto, Inside, Holding, Admitted, InBody
    <2>. QED
      BY <2>1, <2>2, Counted, CountDown
  <1>5. ASSUME NEW r \in Requests,
               \/ GetOrCreate(r) \/ Subscribe(r) \/ StartFetch(r)
               \/ Received(r) \/ Dropped(r) \/ Outcome(r)
        PROVE  HandlersCounted'
    <2>1. adm' = adm /\ sem' = sem
      BY <1>5 DEF GetOrCreate, Subscribe, StartFetch, Received, Dropped, Outcome
    <2>2. h[r].pc \in Admitted /\ h'[r].pc \in Admitted
      BY <1>5, <1>a DEF GetOrCreate, Subscribe, StartFetch, Received, Dropped, Outcome,
                        Goto, AfterChunks, Admitted
    <2>3. \A q \in Requests \ {r} : h'[q] = h[q]
      BY <1>5, <1>a DEF GetOrCreate, Subscribe, StartFetch, Received, Dropped, Outcome, Goto
    <2>. QED
      BY <2>1, <2>2, <2>3, MoveInside
  <1>6. ASSUME UNCHANGED <<h, sem>>, adm'.count = adm.count PROVE HandlersCounted'
    BY <1>6 DEF Inside, Holding
  <1>7. CASE \E r \in Requests :
               \/ ClientLeaves(r) \/ Answered(r) \/ Streams(r) \/ FetchEnds(r)
               \/ PopulateEnds(r) \/ FetchStops(r)
    BY <1>6, <1>7 DEF ClientLeaves, Answered, Streams, FetchEnds, PopulateEnds, FetchStops,
                      handlerVars
  <1>8. CASE WarmStep \/ AfterFunc \/ SamplerEnds \/ Signal
    BY <1>6, <1>8 DEF WarmStep, WarmFetch, WarmEnds, WriterEnds, AfterFunc, SamplerEnds,
                      Signal, handlerVars
  <1>9. CASE \E c \in Stoppers \cup {"main"} : OtherStops(c) \/ ServiceStops(c)
    BY <1>6, <1>9 DEF OtherStops, ServiceStops, handlerVars
  <1>10. CASE MainStep
    <2>1. CASE closeHandlerAdmission
      BY <1>6, <1>b, <2>1 DEF closeHandlerAdmission
    <2>2. CASE Drained \/ DrainTimesOut \/ HandlersJoined \/ MainStopsService \/ CloseStorage
      BY <1>6, <2>2 DEF Drained, DrainTimesOut, HandlersJoined, MainStopsService, CloseStorage,
                        handlerVars
    <2>. QED
      BY <1>10, <2>1, <2>2 DEF MainStep
  <1>11. CASE UNCHANGED vars
    BY <1>6, <1>11 DEF vars
  <1>. QED
    BY <1>1, <1>2, <1>3, <1>4, <1>5, <1>7, <1>8, <1>9, <1>10, <1>11
       DEF Next, Environment, HandlerStep, TaskStep, Stopped

-----------------------------------------------------------------------------
(* The wait group.                                                            *)

Background == (IF warm.pc = "none" THEN 0 ELSE 1) + (IF writer = "none" THEN 0 ELSE 1)

\* With the wait group at zero there is no task, so none can end.
LEMMA NoTasks ==
    ASSUME IInv, svc.wg = 0
    PROVE  /\ \A r \in Requests : fetch[r] = "none" /\ pop[r] = "none"
           /\ warm.pc = "none" /\ writer = "none"
  <1>1. Cardinality(Fetching) \in Nat /\ Cardinality(Populating) \in Nat
    BY Counted, FiniteSubset
  <1>2. Cardinality(Fetching) + Cardinality(Populating) + Background = 0
    BY <1>1 DEF IInv, TasksCounted, LiveTasks, Fetching, Populating, Background
  <1>3. Cardinality(Fetching) = 0 /\ Cardinality(Populating) = 0 /\ Background = 0
    <2>1. Background \in Nat
      BY DEF Background
    <2>2. ASSUME NEW a \in Nat, NEW b \in Nat, NEW c \in Nat, a + b + c = 0
          PROVE  a = 0 /\ b = 0 /\ c = 0
      BY <2>2
    <2>. QED
      BY <1>1, <1>2, <2>1, <2>2
  <1>4. Fetching = {} /\ Populating = {}
    BY <1>3, Counted, FiniteSubset
  <1>. QED
    BY <1>3, <1>4 DEF IInv, TypeOK, Fetching, Populating, Background

\* Every step leaves the wait group right: begin and Done are paired for fetches,
\* populates, background fetches and writers.
LEMMA TasksStep ==
    ASSUME IInv, [Next]_vars
    PROVE  TasksCounted'
  <1>. DEFINE Begun == {"wait", "outcome", "return", "leave", "ended"}
              Own == /\ \A r \in Requests : fetch[r] # "none" \/ pop[r] = "run" =>
                          h[r].pc \in Begun
                     /\ \A r \in Requests : pop[r] = "run" => fetch[r] # "request"
                     /\ warm.marker <=> warm.pc # "none"
  <1>a. /\ fetch \in [Requests -> {"none", "request", "stream"}]
        /\ pop \in [Requests -> {"none", "run"}]
        /\ h \in [Requests -> [pc : InBody \cup {"new", "late", "ended"},
                               src : Requests \cup {None}, mapped : BOOLEAN]]
        /\ warm \in [pc : {"none", "fetch", "wait"}, marker : BOOLEAN]
        /\ writer \in {"none", "run"}
        /\ svc \in [stopping : BOOLEAN, live : BOOLEAN, wg : Nat, stopped : BOOLEAN]
    BY DEF IInv, TypeOK
  <1>b. Own
    BY DEF IInv, TasksCounted
  <1>c. svc.wg = Cardinality(Fetching) + Cardinality(Populating) + Background
    <2>1. Cardinality(Fetching) \in Nat /\ Cardinality(Populating) \in Nat
      BY Counted, FiniteSubset
    <2>. QED
      BY <2>1 DEF IInv, TasksCounted, LiveTasks, Fetching, Populating, Background
  <1>d. ASSUME svc'.wg = Cardinality(Fetching') + Cardinality(Populating') + Background', Own'
        PROVE  TasksCounted'
    <2>1. Fetching' \subseteq Requests /\ Populating' \subseteq Requests
      BY DEF Fetching, Populating
    <2>2. Cardinality(Fetching') \in Nat /\ Cardinality(Populating') \in Nat
      BY <2>1, FiniteSubset
    <2>. QED
      BY <1>d, <2>2 DEF TasksCounted, LiveTasks, Fetching, Populating, Background
  <1>e. Cardinality(Fetching) \in Nat /\ Cardinality(Populating) \in Nat
    BY Counted, FiniteSubset
  <1>1. ASSUME UNCHANGED <<fetch, pop, warm, writer>>, svc'.wg = svc.wg,
               \A r \in Requests : h[r].pc \in Begun => h'[r].pc \in Begun
        PROVE  TasksCounted'
    <2>1. Fetching' = Fetching /\ Populating' = Populating /\ Background' = Background
      BY <1>1 DEF Fetching, Populating, Background
    <2>2. Own'
      BY <1>1, <1>b
    <2>. QED
      BY <1>1, <1>c, <1>d, <2>1, <2>2
  <1>2. ASSUME NEW r \in Requests, StartFetch(r) PROVE TasksCounted'
    <2>1. /\ h[r].pc = "begin" /\ h'[r].pc = "wait" /\ \A q \in Requests \ {r} : h'[q] = h[q]
          /\ UNCHANGED <<pop, warm, writer>>
      BY <1>2, <1>a DEF StartFetch, Goto
    <2>2. CASE svc.stopping
      <3>1. UNCHANGED <<fetch, svc>>
        BY <1>2, <2>2 DEF StartFetch
      <3>. QED
        BY <1>1, <2>1, <3>1
    <2>3. CASE ~svc.stopping
      <3>1. fetch' = [fetch EXCEPT ![r] = "request"] /\ svc'.wg = svc.wg + 1
        BY <1>2, <1>a, <2>3 DEF StartFetch, Begins
      <3>2. fetch[r] = "none" /\ pop[r] = "none"
        BY <1>a, <1>b, <2>1
      <3>3. /\ Fetching' = Fetching \cup {r} /\ r \notin Fetching
            /\ Populating' = Populating /\ Background' = Background
        BY <1>a, <2>1, <3>1, <3>2 DEF Fetching, Populating, Background
      <3>4. Own'
        BY <1>a, <1>b, <2>1, <3>1, <3>2
      <3>. QED
        BY <1>c, <1>d, <1>e, <3>1, <3>3, <3>4, Counted, CountUp DEF Background
    <2>. QED
      BY <2>2, <2>3
  <1>3. ASSUME NEW r \in Requests, Answered(r) PROVE TasksCounted'
    <2>1. /\ fetch[r] = "request" /\ fetch' = [fetch EXCEPT ![r] = "stream"]
          /\ UNCHANGED <<h, warm, writer>>
      BY <1>3 DEF Answered, handlerVars
    <2>2. Fetching' = Fetching /\ Background' = Background
      BY <1>a, <2>1 DEF Fetching, Background
    <2>3. CASE UNCHANGED <<pop, svc>>
      <3>1. Populating' = Populating /\ svc'.wg = svc.wg
        BY <2>3 DEF Populating
      <3>2. Own'
        BY <1>a, <1>b, <2>1, <2>3
      <3>. QED
        BY <1>c, <1>d, <2>2, <3>1, <3>2
    <2>4. CASE pop' = [pop EXCEPT ![r] = "run"] /\ Begins(1)
      <3>1. svc'.wg = svc.wg + 1
        BY <1>a, <2>4 DEF Begins
      <3>2. Populating' = Populating \cup {r} /\ r \notin Populating
        BY <1>a, <1>b, <2>1, <2>4 DEF Populating
      <3>3. Own'
        BY <1>a, <1>b, <2>1, <2>4
      <3>. QED
        BY <1>c, <1>d, <1>e, <2>2, <3>1, <3>2, <3>3, Counted, CountUp DEF Background
    <2>. QED
      BY <1>3, <2>3, <2>4 DEF Answered
  <1>4. ASSUME NEW r \in Requests, FetchEnds(r) \/ FetchStops(r) PROVE TasksCounted'
    <2>1. /\ fetch[r] \in {"request", "stream"} /\ fetch' = [fetch EXCEPT ![r] = "none"]
          /\ svc'.wg = svc.wg - 1
          /\ UNCHANGED <<h, pop, warm, writer>>
      BY <1>4, <1>a DEF FetchEnds, FetchStops, Completes, TaskDone, handlerVars
    <2>2. /\ Fetching' = Fetching \ {r} /\ r \in Fetching
          /\ Populating' = Populating /\ Background' = Background
      BY <1>a, <2>1 DEF Fetching, Populating, Background
    <2>3. Own'
      BY <1>a, <1>b, <2>1
    <2>. QED
      BY <1>c, <1>d, <1>e, <2>1, <2>2, <2>3, Counted, CountDown DEF Background
  <1>5. ASSUME NEW r \in Requests, PopulateEnds(r) PROVE TasksCounted'
    <2>1. /\ pop[r] = "run" /\ pop' = [pop EXCEPT ![r] = "none"] /\ svc'.wg = svc.wg - 1
          /\ UNCHANGED <<h, fetch, warm, writer>>
      BY <1>5, <1>a DEF PopulateEnds, TaskDone, handlerVars
    <2>2. /\ Populating' = Populating \ {r} /\ r \in Populating
          /\ Fetching' = Fetching /\ Background' = Background
      BY <1>a, <2>1 DEF Fetching, Populating, Background
    <2>3. Own'
      BY <1>a, <1>b, <2>1
    <2>. QED
      BY <1>c, <1>d, <1>e, <2>1, <2>2, <2>3, Counted, CountDown DEF Background
  <1>6. ASSUME UNCHANGED <<fetch, pop>>,
               \A r \in Requests : h[r].pc \in Begun => h'[r].pc \in Begun,
               svc'.wg - svc.wg = Background' - Background, svc'.wg \in Int,
               warm'.marker <=> warm'.pc # "none"
        PROVE  TasksCounted'
    <2>1. Fetching' = Fetching /\ Populating' = Populating
      BY <1>6 DEF Fetching, Populating
    <2>2. Own'
      BY <1>6, <1>b
    <2>3. svc'.wg = Cardinality(Fetching') + Cardinality(Populating') + Background'
      <3>1. Background \in Int /\ Background' \in Int /\ svc.wg \in Int
        BY <1>a DEF Background
      <3>. QED
        BY <1>6, <1>c, <1>e, <2>1, <3>1
    <2>. QED
      BY <1>d, <2>2, <2>3
  <1>7. ASSUME NEW r \in Requests, Outcome(r) PROVE TasksCounted'
    <2>1. /\ UNCHANGED <<fetch, pop, writer>>
          /\ \A q \in Requests : h[q].pc \in Begun => h'[q].pc \in Begun
      BY <1>7, <1>a DEF Outcome, Goto
    <2>2. CASE UNCHANGED <<warm, svc>>
      BY <1>1, <2>1, <2>2
    <2>3. CASE ~warm.marker /\ warm' = [pc |-> "fetch", marker |-> TRUE] /\ Begins(1)
      <3>1. svc'.wg = svc.wg + 1 /\ Background' = Background + 1
        BY <1>a, <1>b, <2>1, <2>3 DEF Begins, Background
      <3>. QED
        BY <1>6, <1>a, <2>1, <2>3, <3>1 DEF Background
    <2>. QED
      BY <1>7, <2>2, <2>3 DEF Outcome
  <1>8. CASE WarmStep
    <2>1. UNCHANGED <<fetch, pop, h>>
      BY <1>8 DEF WarmStep, WarmFetch, WarmEnds, WriterEnds, handlerVars
    <2>2. svc'.wg - svc.wg = Background' - Background /\ svc'.wg \in Int
      BY <1>8, <1>a DEF WarmStep, WarmFetch, WarmEnds, WriterEnds, Begins, TaskDone, Background
    <2>3. warm'.marker <=> warm'.pc # "none"
      BY <1>8, <1>a, <1>b DEF WarmStep, WarmFetch, WarmEnds, WriterEnds
    <2>. QED
      BY <1>6, <2>1, <2>2, <2>3
  <1>9. CASE \E r \in Requests :
               \/ enterHandler(r) \/ Leave(r) \/ Admit(r) \/ GetOrCreate(r) \/ Subscribe(r)
               \/ Received(r) \/ Dropped(r) \/ Return(r)
    <2>1. UNCHANGED <<fetch, pop, warm, writer, svc>>
      BY <1>9, SMTT(30) DEF enterHandler, Leave, Admit, GetOrCreate, Subscribe, Received, Dropped, Return,
                  taskVars
    <2>2. \A q \in Requests : h[q].pc \in Begun => h'[q].pc \in Begun
      BY <1>9, <1>a DEF enterHandler, Leave, Admit, GetOrCreate, Subscribe, Received, Dropped,
                        Return, Goto, AfterChunks, NewHandler
    <2>. QED
      BY <1>1, <2>1, <2>2, SMTT(30)
  <1>10. CASE \/ \E r \in Requests : ClientLeaves(r) \/ Streams(r)
              \/ AfterFunc \/ SamplerEnds \/ Signal
    BY <1>1, <1>10 DEF ClientLeaves, Streams, AfterFunc, SamplerEnds, Signal, handlerVars, taskVars
  <1>11. CASE \E c \in Stoppers \cup {"main"} : OtherStops(c) \/ ServiceStops(c)
    <2>1. UNCHANGED <<fetch, pop, warm, writer, h>> /\ svc'.wg = svc.wg
      BY <1>11, <1>a DEF OtherStops, ServiceStops, Seal, StopSteps, handlerVars, taskVars
    <2>. QED
      BY <1>1, <2>1
  <1>12. CASE MainStep
    <2>1. UNCHANGED <<fetch, pop, warm, writer, h>> /\ svc'.wg = svc.wg
      BY <1>12, <1>a DEF MainStep, closeHandlerAdmission, Drained, DrainTimesOut, HandlersJoined,
                         MainStopsService, CloseStorage, Seal, handlerVars, taskVars
    <2>. QED
      BY <1>1, <2>1
  <1>13. CASE UNCHANGED vars
    BY <1>1, <1>13, SMTT(30) DEF vars
  <1>. QED
    BY <1>2, <1>3, <1>4, <1>5, <1>7, <1>8, <1>9, <1>10, <1>11, <1>12, <1>13
       DEF Next, Environment, HandlerStep, TaskStep, Stopped

-----------------------------------------------------------------------------
(* The two joins.                                                             *)

\* The handlers: an entry after the stop bit is late, and the last handler that
\* leaves is the last one inside.
LEMMA HandlersJoinStep ==
    ASSUME IInv, [Next]_vars
    PROVE  HandlersJoin'
  <1>. USE DEF HandlersJoin
  <1>a. /\ h \in [Requests -> [pc : InBody \cup {"new", "late", "ended"},
                               src : Requests \cup {None}, mapped : BOOLEAN]]
        /\ adm \in [stopping : BOOLEAN, count : 0..Cardinality(Requests), done : BOOLEAN]
    BY DEF IInv, TypeOK
  <1>b. HandlersJoin
    BY DEF IInv
  <1>c. adm.count = Cardinality(Inside)
    BY DEF IInv, HandlersCounted
  <1>1. ASSUME NEW r \in Requests, enterHandler(r) PROVE HandlersJoin'
    BY <1>1, <1>a, <1>b DEF enterHandler, Goto, InBody
  <1>2. ASSUME NEW r \in Requests, Leave(r) PROVE HandlersJoin'
    <2>1. /\ adm'.stopping = adm.stopping
          /\ adm'.done = (adm.done \/ (adm.stopping /\ adm.count = 1))
      BY <1>2, <1>a DEF Leave, leaveHandler
    <2>2. h'[r].pc \notin InBody /\ \A q \in Requests \ {r} : h'[q] = h[q]
      BY <1>2, <1>a DEF Leave, NewHandler, InBody
    <2>3. CASE adm.done
      BY <1>b, <2>1, <2>2, <2>3
    <2>4. CASE adm.stopping /\ adm.count = 1
      <3>1. r \in Inside
        BY <1>2, <1>a DEF Leave, Inside, InBody
      <3>2. Cardinality(Inside \ {r}) = Cardinality(Inside) - 1
        BY <3>1, Counted, CountDown
      <3>3. Inside \ {r} = {}
        <4>1. Inside \ {r} \subseteq Requests /\ Cardinality(Inside \ {r}) = 0
          BY <1>c, <2>4, <3>2, Counted
        <4>. QED
          BY <4>1, FiniteSubset
      <3>4. \A q \in Requests \ {r} : h[q].pc \notin InBody
        BY <3>3 DEF Inside
      <3>. QED
        BY <2>1, <2>2, <2>4, <3>4
    <2>. QED
      BY <2>1, <2>3, <2>4, Zenon
  <1>3. ASSUME NEW r \in Requests, h[r].pc \in InBody, adm' = adm PROVE HandlersJoin'
    BY <1>3, <1>b, SMTT(30)
  <1>4. CASE \E r \in Requests :
               \/ Admit(r) \/ GetOrCreate(r) \/ Subscribe(r) \/ StartFetch(r)
               \/ Received(r) \/ Dropped(r) \/ Outcome(r) \/ Return(r)
    BY <1>3, <1>4 DEF Admit, GetOrCreate, Subscribe, StartFetch, Received, Dropped, Outcome,
                      Return, InBody
  <1>5. CASE closeHandlerAdmission
    <2>1. h' = h /\ adm'.stopping /\ adm'.done = (adm.done \/ adm.count = 0)
      BY <1>5, <1>a DEF closeHandlerAdmission
    <2>2. CASE adm.count = 0
      <3>1. Inside = {}
        BY <1>c, <2>2, Counted, FiniteSubset, Zenon
      <3>. QED
        BY <2>1, <3>1 DEF Inside
    <2>. QED
      BY <1>b, <2>1, <2>2, Zenon
  <1>6. CASE UNCHANGED <<h, adm>>
    BY <1>6, <1>b
  <1>7. CASE \E r \in Requests :
               \/ ClientLeaves(r) \/ Answered(r) \/ Streams(r) \/ FetchEnds(r)
               \/ PopulateEnds(r) \/ FetchStops(r)
    BY <1>6, <1>7 DEF ClientLeaves, Answered, Streams, FetchEnds, PopulateEnds, FetchStops,
                      handlerVars
  <1>8. CASE WarmStep \/ AfterFunc \/ SamplerEnds \/ Signal
    BY <1>6, <1>8 DEF WarmStep, WarmFetch, WarmEnds, WriterEnds, AfterFunc, SamplerEnds,
                      Signal, handlerVars
  <1>9. CASE \E c \in Stoppers \cup {"main"} : OtherStops(c) \/ ServiceStops(c)
    BY <1>6, <1>9 DEF OtherStops, ServiceStops, handlerVars
  <1>10. CASE Drained \/ DrainTimesOut \/ HandlersJoined \/ MainStopsService \/ CloseStorage
    BY <1>6, <1>10 DEF Drained, DrainTimesOut, HandlersJoined, MainStopsService, CloseStorage,
                       handlerVars
  <1>11. CASE UNCHANGED vars
    BY <1>6, <1>11, SMTT(30) DEF vars
  <1>. QED
    BY <1>1, <1>2, <1>4, <1>5, <1>7, <1>8, <1>9, <1>10, <1>11
       DEF Next, Environment, HandlerStep, TaskStep, MainStep, Stopped

\* The tasks: after the seal none begins, and without one none ends.
LEMMA TasksJoinStep ==
    ASSUME IInv, [Next]_vars
    PROVE  TasksJoin'
  <1>. USE DEF TasksJoin
  <1>a. /\ svc \in [stopping : BOOLEAN, live : BOOLEAN, wg : Nat, stopped : BOOLEAN]
        /\ stp \in [Stoppers \cup {"main"} -> {"idle", "cancel", "join", "await", "returned"}]
    BY DEF IInv, TypeOK
  <1>b. TasksJoin
    BY DEF IInv
  <1>1. ASSUME NEW n \in {1}, Begins(n), ~svc.stopping, stp' = stp PROVE TasksJoin'
    BY <1>1, <1>a, <1>b DEF Begins
  <1>2. ASSUME TaskDone(1), svc.wg # 0, stp' = stp PROVE TasksJoin'
    BY <1>2, <1>a, <1>b DEF TaskDone
  <1>3. CASE UNCHANGED <<svc, stp>>
    BY <1>3, <1>b
  <1>4. ASSUME NEW r \in Requests, StartFetch(r) \/ Answered(r) \/ Outcome(r) PROVE TasksJoin'
    <2>1. stp' = stp /\ (svc' = svc \/ (Begins(1) /\ ~svc.stopping))
      BY <1>4 DEF StartFetch, Answered, Outcome, stopVars
    <2>. QED
      BY <1>1, <1>3, <2>1
  <1>5. ASSUME NEW r \in Requests, FetchEnds(r) \/ FetchStops(r) \/ PopulateEnds(r)
        PROVE  TasksJoin'
    <2>1. stp' = stp /\ TaskDone(1) /\ (fetch[r] # "none" \/ pop[r] # "none")
      BY <1>5 DEF FetchEnds, FetchStops, PopulateEnds, Completes, stopVars
    <2>. QED
      BY <1>2, <2>1, NoTasks
  <1>6. CASE WarmStep
    <2>1. /\ stp' = stp /\ (warm.pc # "none" \/ writer # "none")
          /\ TaskDone(1) \/ (Begins(1) /\ ~svc.stopping)
      BY <1>6 DEF WarmStep, WarmFetch, WarmEnds, WriterEnds, stopVars
    <2>. QED
      BY <1>1, <1>2, <2>1, NoTasks
  <1>7. ASSUME NEW c \in Stoppers \cup {"main"}, Seal(c) PROVE TasksJoin'
    BY <1>7, <1>a, <1>b DEF Seal
  <1>8. ASSUME NEW c \in Stoppers \cup {"main"}, StopSteps(c) PROVE TasksJoin'
    BY <1>8, <1>a, <1>b DEF StopSteps
  <1>9. CASE \E c \in Stoppers \cup {"main"} : OtherStops(c) \/ ServiceStops(c)
    BY <1>7, <1>8, <1>9 DEF OtherStops, ServiceStops
  <1>10. CASE MainStopsService
    BY <1>3, <1>7, <1>10 DEF MainStopsService
  <1>11. CASE \/ closeHandlerAdmission \/ Drained \/ DrainTimesOut \/ HandlersJoined
              \/ CloseStorage \/ AfterFunc \/ SamplerEnds \/ Signal
    BY <1>3, <1>11, SMTT(30) DEF closeHandlerAdmission, Drained, DrainTimesOut, HandlersJoined,
                       CloseStorage, AfterFunc, SamplerEnds, Signal
  <1>12. CASE \E r \in Requests :
                \/ enterHandler(r) \/ Leave(r) \/ Admit(r) \/ GetOrCreate(r) \/ Subscribe(r)
                \/ Received(r) \/ Dropped(r) \/ Return(r) \/ ClientLeaves(r) \/ Streams(r)
    BY <1>3, <1>12 DEF enterHandler, Leave, Admit, GetOrCreate, Subscribe, Received, Dropped,
                       Return, ClientLeaves, Streams, stopVars
  <1>13. CASE UNCHANGED vars
    BY <1>3, <1>13 DEF vars
  <1>. QED
    BY <1>4, <1>5, <1>6, <1>9, <1>10, <1>11, <1>12, <1>13
       DEF Next, Environment, HandlerStep, TaskStep, MainStep, Stopped

\* No join is taken back.
LEMMA JoinsLast ==
    ASSUME IInv, [Next]_vars
    PROVE  (adm.done => adm'.done) /\ (svc.stopped => svc'.stopped)
  <1>a. /\ svc \in [stopping : BOOLEAN, live : BOOLEAN, wg : Nat, stopped : BOOLEAN]
        /\ adm \in [stopping : BOOLEAN, count : 0..Cardinality(Requests), done : BOOLEAN]
    BY DEF IInv, TypeOK
  <1>1. CASE Environment
    <2>1. CASE \E r \in Requests : enterHandler(r) \/ ClientLeaves(r) \/ Streams(r) \/ Dropped(r)
      BY <2>1, <1>a DEF enterHandler, ClientLeaves, Streams, Dropped, handlerVars
    <2>2. CASE \E r \in Requests : Answered(r) \/ FetchEnds(r) \/ PopulateEnds(r)
      BY <2>2, <1>a DEF Answered, FetchEnds, PopulateEnds, Begins, TaskDone, Completes, handlerVars
    <2>3. CASE Signal \/ \E c \in Stoppers : OtherStops(c)
      BY <2>3, <1>a DEF Signal, OtherStops, Seal, handlerVars
    <2>. QED
      BY <1>1, <2>1, <2>2, <2>3 DEF Environment
  <1>2. CASE \E r \in Requests : HandlerStep(r)
    <2>1. CASE \E r \in Requests : Leave(r)
      BY <2>1, <1>a DEF Leave, leaveHandler
    <2>2. CASE \E r \in Requests : StartFetch(r) \/ Outcome(r)
      BY <2>2, <1>a DEF StartFetch, Outcome, Begins
    <2>3. CASE \E r \in Requests :
                 Admit(r) \/ GetOrCreate(r) \/ Subscribe(r) \/ Received(r) \/ Return(r)
      BY <2>3 DEF Admit, GetOrCreate, Subscribe, Received, Return
    <2>. QED
      BY <1>2, <2>1, <2>2, <2>3 DEF HandlerStep
  <1>3. CASE (\E r \in Requests : TaskStep(r)) \/ WarmStep
    BY <1>3, <1>a DEF TaskStep, FetchStops, PopulateEnds, Completes, WarmStep, WarmFetch,
         WarmEnds, WriterEnds, Begins, TaskDone, handlerVars
  <1>4. CASE MainStep \/ AfterFunc \/ SamplerEnds
    BY <1>4, <1>a, Zenon DEF MainStep, closeHandlerAdmission, Drained, DrainTimesOut, HandlersJoined,
         MainStopsService, CloseStorage, AfterFunc, SamplerEnds, Seal, handlerVars
  <1>5. CASE \E c \in Stoppers \cup {"main"} : ServiceStops(c)
    BY <1>5, <1>a DEF ServiceStops, StopSteps, handlerVars
  <1>6. CASE UNCHANGED vars
    BY <1>6 DEF vars
  <1>. QED
    BY <1>1, <1>2, <1>3, <1>4, <1>5, <1>6 DEF Next, Stopped

\* main goes from one stage to the next only when the join between them is done.
LEMMA MainStepOrdered ==
    ASSUME IInv, [Next]_vars
    PROVE  MainOrdered'
  <1>. USE DEF MainOrdered
  <1>a. /\ main \in [pc : {"run", "admission", "drain", "join", "service", "sampler", "exit"},
                     afterFunc : {"none", "armed", "running", "sent", "off"}]
        /\ sampler \in {"run", "canceled", "stopped"}
    BY DEF IInv, TypeOK
  <1>b. MainOrdered /\ (stp["main"] = "returned" => svc.stopped)
    BY DEF IInv, TasksJoin
  <1>1. CASE UNCHANGED <<main, sampler, store>>
    BY <1>1, <1>b, JoinsLast
  <1>2. CASE \E r \in Requests : \/ enterHandler(r) \/ ClientLeaves(r) \/ Answered(r)
                                 \/ Streams(r) \/ Dropped(r) \/ FetchEnds(r) \/ PopulateEnds(r)
    BY <1>1, <1>2, SMTT(30) DEF enterHandler, ClientLeaves, Answered, Streams, Dropped, FetchEnds,
                      PopulateEnds, stopVars
  <1>3. CASE \E r \in Requests : HandlerStep(r)
    BY <1>1, <1>3 DEF HandlerStep, Leave, Admit, GetOrCreate, Subscribe, StartFetch, Received,
                      Outcome, Return, stopVars
  <1>4. CASE (\E r \in Requests : TaskStep(r)) \/ WarmStep
    BY <1>1, <1>4 DEF TaskStep, FetchStops, PopulateEnds, WarmStep, WarmFetch, WarmEnds,
                      WriterEnds, stopVars
  <1>5. CASE \E c \in Stoppers \cup {"main"} : OtherStops(c) \/ ServiceStops(c)
    BY <1>1, <1>5 DEF OtherStops, ServiceStops
  <1>6. CASE Signal \/ closeHandlerAdmission \/ Drained \/ DrainTimesOut \/ AfterFunc
    <2>1. main.pc \notin {"service", "sampler", "exit"} =>
            main'.pc \notin {"service", "sampler", "exit"}
      BY <1>6, <1>a, Zenon DEF Signal, closeHandlerAdmission, Drained, DrainTimesOut, AfterFunc, MainGoto
    <2>2. main'.pc = main.pc \/ main.pc \notin {"service", "sampler", "exit"}
      BY <1>6, <1>a DEF Signal, closeHandlerAdmission, Drained, DrainTimesOut, AfterFunc, MainGoto
    <2>3. UNCHANGED <<sampler, store>>
      BY <1>6 DEF Signal, closeHandlerAdmission, Drained, DrainTimesOut, AfterFunc
    <2>. QED
      BY <1>b, <2>1, <2>2, <2>3, JoinsLast
  <1>7. CASE HandlersJoined
    BY <1>7, <1>a, <1>b, JoinsLast DEF HandlersJoined
  <1>8. CASE MainStopsService
    BY <1>8, <1>a, <1>b, JoinsLast DEF MainStopsService, MainGoto
  <1>9. CASE SamplerEnds \/ CloseStorage
    BY <1>9, <1>a, <1>b, JoinsLast DEF SamplerEnds, CloseStorage, MainGoto
  <1>10. CASE UNCHANGED vars
    BY <1>1, <1>10 DEF vars
  <1>. QED
    BY <1>2, <1>3, <1>4, <1>5, <1>6, <1>7, <1>8, <1>9, <1>10
       DEF Next, Environment, MainStep, Stopped

-----------------------------------------------------------------------------
(* Broadcasts and those who wait for them.                                    *)

\* Every step leaves those who wait a broadcast with an end in sight.
LEMMA AttendedStep ==
    ASSUME IInv, [Next]_vars
    PROVE  Attended'
  <1>. DEFINE Handlers == [Requests -> [pc : InBody \cup {"new", "late", "ended"},
                                        src : Requests \cup {None}, mapped : BOOLEAN]]
              Waits == {"join", "wait", "outcome"}
              Owns == {"begin", "wait", "outcome", "return"}
  <1>a. /\ h \in Handlers
        /\ bc \in [Requests -> [streaming : BOOLEAN, end : {"no", "ok", "failed", "canceled"}]]
        /\ fetch \in [Requests -> {"none", "request", "stream"}]
        /\ reg \in Requests \cup {None} /\ None \notin Requests
    BY ShutdownAssumption DEF IInv, TypeOK
  <1>b. Attended
    BY DEF IInv
  \* An action that moves at most one handler.
  <1>1. ASSUME NEW r \in Requests, \A q \in Requests \ {r} : h'[q] = h[q],
               Ending \subseteq Ending',
               h'[r].pc \in Waits => h'[r].src \in Ending',
               h'[r].pc \in {"begin", "outcome"} => h'[r].src = r,
               \/ reg' = None
               \/ reg' = reg /\ reg # r
               \/ reg' = r /\ h'[r].mapped /\ h'[r].pc \in Owns /\ r \in Ending'
        PROVE  Attended'
    <2>1. \A q \in Requests : /\ h'[q].pc \in Waits => h'[q].src \in Ending'
                              /\ h'[q].pc \in {"begin", "outcome"} => h'[q].src = q
      BY <1>1, <1>b DEF Attended
    <2>2. reg' # None => h'[reg'].mapped /\ h'[reg'].pc \in Owns /\ reg' \in Ending'
      BY <1>1, <1>a, <1>b DEF Attended
    <2>. QED
      BY <2>1, <2>2 DEF Attended
  <1>2. ASSUME Ending \subseteq Ending', UNCHANGED <<h, reg>> PROVE Attended'
    BY <1>2, <1>a, <1>b DEF Attended
  <1>3. ASSUME NEW r \in Requests, GetOrCreate(r) PROVE Attended'
    <2>1. /\ h[r].pc = "lookup" /\ UNCHANGED <<bc, fetch>>
          /\ \A q \in Requests \ {r} : h'[q] = h[q]
      BY <1>3, <1>a DEF GetOrCreate, taskVars
    <2>2. Ending \subseteq Ending'
      BY <1>a, <2>1 DEF Ending
    <2>3. CASE reg # None /\ ~bc[reg].streaming
      <3>1. h'[r].pc = "join" /\ h'[r].src = reg /\ reg' = reg
        BY <1>3, <1>a, <2>3 DEF GetOrCreate
      <3>2. reg # r /\ reg \in Ending
        BY <1>a, <1>b, <2>1, <2>3 DEF Attended
      <3>. QED
        BY <1>1, <2>1, <2>2, <3>1, <3>2
    <2>4. CASE ~(reg # None /\ ~bc[reg].streaming)
      <3>1. h'[r].pc = "begin" /\ h'[r].src = r /\ h'[r].mapped /\ reg' = r
        BY <1>3, <1>a, <2>4 DEF GetOrCreate
      <3>2. r \in Ending'
        BY <3>1 DEF Ending
      <3>. QED
        BY <1>1, <2>1, <2>2, <3>1, <3>2
    <2>. QED
      BY <2>3, <2>4
  <1>4. ASSUME NEW r \in Requests, Subscribe(r) PROVE Attended'
    <2>1. /\ h[r].pc = "join" /\ UNCHANGED <<bc, fetch, reg>>
          /\ \A q \in Requests \ {r} : h'[q] = h[q]
          /\ \/ h'[r].pc = "begin" /\ h'[r].src = r
             \/ h'[r].pc = "wait" /\ h'[r].src = h[r].src
      BY <1>4, <1>a DEF Subscribe, taskVars
    <2>2. Ending \subseteq Ending'
      BY <1>a, <2>1 DEF Ending
    <2>3. reg # r /\ h[r].src \in Ending
      BY <1>a, <1>b, <2>1 DEF Attended
    <2>. QED
      BY <1>1, <2>1, <2>2, <2>3
  <1>5. ASSUME NEW r \in Requests, StartFetch(r) PROVE Attended'
    <2>1. /\ h[r].pc = "begin" /\ reg' = reg
          /\ h'[r].pc = "wait" /\ h'[r].src = h[r].src /\ h'[r].mapped = h[r].mapped
          /\ \A q \in Requests \ {r} : h'[q] = h[q]
      BY <1>5, <1>a DEF StartFetch, Goto
    <2>2. \A s \in Requests \ {r} : bc'[s] = bc[s] /\ fetch'[s] = fetch[s]
      BY <1>5, <1>a DEF StartFetch
    <2>3. bc'[r].end = "canceled" \/ fetch'[r] = "request"
      BY <1>5, <1>a DEF StartFetch
    <2>4. r \in Ending' /\ Ending \subseteq Ending'
      BY <1>a, <2>1, <2>2, <2>3 DEF Ending
    <2>5. h[r].src = r /\ (reg = r => h[r].mapped)
      BY <1>a, <1>b, <2>1, SMTT(30) DEF Attended
    <2>. QED
      BY <1>1, <2>1, <2>4, <2>5
  <1>6. ASSUME NEW r \in Requests, Received(r) \/ Dropped(r) PROVE Attended'
    <2>1. /\ h[r].pc = "wait" /\ UNCHANGED <<bc, fetch, reg>>
          /\ \A q \in Requests \ {r} : h'[q] = h[q]
          /\ h'[r].src = h[r].src /\ h'[r].mapped = h[r].mapped
          /\ h'[r].pc = "return" \/ (h'[r].pc = "outcome" /\ h[r].src = r)
      BY <1>6, <1>a DEF Received, Dropped, Goto, AfterChunks, taskVars
    <2>2. Ending \subseteq Ending'
      BY <1>a, <2>1 DEF Ending
    <2>3. h[r].src \in Ending /\ (reg = r => h[r].mapped /\ r \in Ending)
      BY <1>a, <1>b, <2>1 DEF Attended
    <2>. QED
      BY <1>1, <2>1, <2>2, <2>3
  <1>7. ASSUME NEW r \in Requests, Outcome(r) PROVE Attended'
    <2>1. /\ h[r].pc = "outcome" /\ UNCHANGED <<bc, fetch, reg>>
          /\ \A q \in Requests \ {r} : h'[q] = h[q]
          /\ h'[r].mapped = h[r].mapped /\ h'[r].pc = "return"
      BY <1>7, <1>a DEF Outcome, Goto
    <2>2. Ending \subseteq Ending'
      BY <1>a, <2>1 DEF Ending
    <2>3. reg = r => h[r].mapped /\ r \in Ending
      BY <1>a, <1>b, <2>1 DEF Attended
    <2>. QED
      BY <1>1, <2>1, <2>2, <2>3
  <1>8. ASSUME NEW r \in Requests, Return(r) PROVE Attended'
    <2>1. /\ h[r].pc = "return" /\ UNCHANGED <<bc, fetch>>
          /\ \A q \in Requests \ {r} : h'[q] = h[q]
          /\ h'[r].pc = "leave" /\ reg' = IF h[r].mapped THEN None ELSE reg
      BY <1>8, <1>a DEF Return, Goto, taskVars
    <2>2. Ending \subseteq Ending'
      BY <1>a, <2>1 DEF Ending
    <2>3. reg' # None => reg' = reg /\ reg # r
      BY <1>a, <1>b, <2>1 DEF Attended
    <2>. QED
      BY <1>1, <2>1, <2>2, <2>3
  <1>9. ASSUME NEW r \in Requests, Leave(r) PROVE Attended'
    <2>1. /\ h[r].pc \in {"late", "leave"} /\ UNCHANGED <<fetch, reg>>
          /\ \A q \in Requests \ {r} : h'[q] = h[q]
          /\ h'[r].pc = "ended"
          /\ \A s \in Requests \ {r} : bc'[s] = bc[s]
          /\ bc'[r] = bc[r] \/ \A q \in Requests \ {r} : h[q].src # r
      BY <1>9, <1>a DEF Leave, NewHandler, taskVars
    <2>2. Ending \ {r} \subseteq Ending'
      BY <1>a, <2>1 DEF Ending
    <2>3. reg # r
      BY <1>a, <1>b, <2>1 DEF Attended
    <2>4. ASSUME NEW q \in Requests, h'[q].pc \in Waits
          PROVE  h'[q].src \in Ending'
      <3>1. q # r /\ h'[q] = h[q]
        BY <2>1, <2>4
      <3>2. h[q].src \in Ending
        BY <1>b, <2>4, <3>1 DEF Attended
      <3>3. CASE h[q].src = r
        BY <1>a, <2>1, <3>1, <3>2, <3>3, SMTT(30) DEF Ending
      <3>. QED
        BY <2>2, <3>1, <3>2, <3>3, SMTT(30)
    <2>. QED
      BY <1>a, <1>b, <2>1, <2>2, <2>3, <2>4 DEF Attended
  <1>10. ASSUME NEW r \in Requests, enterHandler(r) \/ Admit(r) PROVE Attended'
    <2>1. /\ h[r].pc \in {"new", "in"} /\ UNCHANGED <<bc, fetch, reg>>
          /\ \A q \in Requests \ {r} : h'[q] = h[q]
          /\ h'[r].pc \in {"late", "in", "lookup", "leave"}
      BY <1>10, <1>a DEF enterHandler, Admit, Goto, taskVars
    <2>2. Ending \subseteq Ending'
      BY <1>a, <2>1 DEF Ending
    <2>3. reg # r
      BY <1>a, <1>b, <2>1 DEF Attended
    <2>. QED
      BY <1>1, <2>1, <2>2, <2>3
  <1>11. ASSUME NEW r \in Requests,
                Answered(r) \/ Streams(r) \/ FetchEnds(r) \/ FetchStops(r)
         PROVE  Attended'
    <2>1. UNCHANGED <<h, reg>>
      BY <1>11 DEF Answered, Streams, FetchEnds, FetchStops, handlerVars
    <2>2. \A s \in Requests \ {r} : bc'[s] = bc[s] /\ fetch'[s] = fetch[s]
      BY <1>11, <1>a DEF Answered, Streams, FetchEnds, FetchStops, Completes, taskVars
    <2>3. bc'[r].end \notin {bc[r].end, "no"} \/ bc'[r].end = bc[r].end
      BY <1>11, <1>a DEF Answered, Streams, FetchEnds, FetchStops, Completes
    <2>4. fetch'[r] \in {"request", "stream"} \/ bc'[r].end # "no"
      BY <1>11, <1>a DEF Answered, Streams, FetchEnds, FetchStops, Completes, taskVars
    <2>5. Ending \subseteq Ending'
      BY <2>1, <2>2, <2>3, <2>4 DEF Ending
    <2>. QED
      BY <1>2, <2>1, <2>5
  <1>c. CASE UNCHANGED <<bc, fetch, h, reg>>
    BY <1>2, <1>c DEF Ending
  <1>12. CASE \/ \E r \in Requests : ClientLeaves(r) \/ PopulateEnds(r)
              \/ WarmStep \/ AfterFunc \/ SamplerEnds \/ Signal
    BY <1>c, <1>12 DEF ClientLeaves, PopulateEnds, WarmStep, WarmFetch, WarmEnds, WriterEnds,
                       AfterFunc, SamplerEnds, Signal, handlerVars, taskVars
  <1>13. CASE \E c \in Stoppers \cup {"main"} : OtherStops(c) \/ ServiceStops(c)
    BY <1>c, <1>13 DEF OtherStops, ServiceStops, handlerVars, taskVars
  <1>14. CASE MainStep
    BY <1>c, <1>14 DEF MainStep, closeHandlerAdmission, Drained, DrainTimesOut, HandlersJoined,
                       MainStopsService, CloseStorage, handlerVars, taskVars
  <1>15. CASE UNCHANGED vars
    BY <1>c, <1>15, SMTT(30) DEF vars
  <1>. QED
    BY <1>3, <1>4, <1>5, <1>6, <1>7, <1>8, <1>9, <1>10, <1>11, <1>12, <1>13, <1>14, <1>15, SMTT(30)
       DEF Next, Environment, HandlerStep, TaskStep, Stopped

-----------------------------------------------------------------------------
(* Types.  The counters stay in their range because of what they count.       *)

HandlerTypes ==
    /\ h \in [Requests -> [pc : InBody \cup {"new", "late", "ended"},
                           src : Requests \cup {None}, mapped : BOOLEAN]]
    /\ gone \subseteq Requests
    /\ reg \in Requests \cup {None}

TaskTypes ==
    /\ bc \in [Requests -> [streaming : BOOLEAN, end : {"no", "ok", "failed", "canceled"}]]
    /\ fetch \in [Requests -> {"none", "request", "stream"}]
    /\ pop \in [Requests -> {"none", "run"}]
    /\ warm \in [pc : {"none", "fetch", "wait"}, marker : BOOLEAN]
    /\ writer \in {"none", "run"}

StopTypes ==
    /\ scenario \in Scenarios /\ reqCtx \in BOOLEAN
    /\ stp \in [Stoppers \cup {"main"} -> {"idle", "cancel", "join", "await", "returned"}]
    /\ main \in [pc : {"run", "admission", "drain", "join", "service", "sampler", "exit"},
                 afterFunc : {"none", "armed", "running", "sent", "off"}]
    /\ sampler \in {"run", "canceled", "stopped"}
    /\ store \in {"open", "closed"}

\* The handlers, the departed clients and the map keep their types.
LEMMA HandlerTypesStep ==
    ASSUME TypeOK, [Next]_vars
    PROVE  HandlerTypes'
  <1>a. HandlerTypes
    BY DEF TypeOK, HandlerTypes
  <1>. USE DEF HandlerTypes
  <1>1. CASE UNCHANGED <<h, gone, reg>>
    BY <1>1, <1>a
  <1>2. ASSUME NEW r \in Requests,
               NEW pc \in InBody \cup {"new", "late", "ended"}, Goto(r, pc),
               gone' \subseteq Requests, reg' \in Requests \cup {None}
        PROVE  HandlerTypes'
    BY <1>2, <1>a DEF Goto
  <1>3. ASSUME NEW r \in Requests, enterHandler(r) \/ Admit(r) \/ Return(r) PROVE HandlerTypes'
    BY <1>2, <1>3, <1>a DEF enterHandler, Admit, Return, InBody
  <1>4. ASSUME NEW r \in Requests, StartFetch(r) \/ Received(r) \/ Dropped(r) \/ Outcome(r)
        PROVE  HandlerTypes'
    BY <1>2, <1>4, <1>a DEF StartFetch, Received, Dropped, Outcome, AfterChunks, InBody
  <1>5. ASSUME NEW r \in Requests, GetOrCreate(r) \/ Subscribe(r) PROVE HandlerTypes'
    BY <1>5, <1>a DEF GetOrCreate, Subscribe, InBody
  <1>6. ASSUME NEW r \in Requests, Leave(r) \/ ClientLeaves(r) PROVE HandlerTypes'
    <2>1. CASE Leave(r)
      <3>1. [NewHandler EXCEPT !.pc = "ended"] \in
              [pc : InBody \cup {"new", "late", "ended"}, src : Requests \cup {None},
               mapped : BOOLEAN]
        BY ZenonT(60) DEF NewHandler
      <3>2. gone' \subseteq Requests /\ reg' = reg
        BY <1>a, <2>1 DEF Leave
      <3>. QED
        BY <1>a, <2>1, <3>1, <3>2 DEF Leave
    <2>2. CASE ClientLeaves(r)
      BY <1>a, <2>2 DEF ClientLeaves
    <2>. QED
      BY <1>6, <2>1, <2>2
  <1>7. CASE \E r \in Requests :
               Answered(r) \/ Streams(r) \/ FetchEnds(r) \/ PopulateEnds(r) \/ FetchStops(r)
    BY <1>1, <1>7 DEF Answered, Streams, FetchEnds, PopulateEnds, FetchStops, handlerVars
  <1>8. CASE WarmStep \/ AfterFunc \/ SamplerEnds \/ Signal
    BY <1>1, <1>8 DEF WarmStep, WarmFetch, WarmEnds, WriterEnds, AfterFunc, SamplerEnds,
                      Signal, handlerVars
  <1>9. CASE MainStep \/ \E c \in Stoppers \cup {"main"} : OtherStops(c) \/ ServiceStops(c)
    BY <1>1, <1>9 DEF MainStep, closeHandlerAdmission, Drained, DrainTimesOut, HandlersJoined,
                      MainStopsService, CloseStorage, OtherStops, ServiceStops, handlerVars
  <1>10. CASE UNCHANGED vars
    BY <1>1, <1>10 DEF vars
  <1>. QED
    BY <1>3, <1>4, <1>5, <1>6, <1>7, <1>8, <1>9, <1>10, SMTT(30)
       DEF Next, Environment, HandlerStep, TaskStep, Stopped

\* So do the broadcasts and the tasks,
LEMMA TaskTypesStep ==
    ASSUME TypeOK, [Next]_vars
    PROVE  TaskTypes'
  <1>a. TaskTypes
    BY DEF TypeOK, TaskTypes
  <1>. USE DEF TaskTypes
  <1>1. CASE UNCHANGED <<bc, fetch, pop, warm, writer>>
    BY <1>1, <1>a
  <1>2. ASSUME NEW r \in Requests, Leave(r) \/ Streams(r) PROVE TaskTypes'
    <2>1. bc' \in [Requests -> [streaming : BOOLEAN, end : {"no", "ok", "failed", "canceled"}]]
      <3>1. CASE Leave(r)
        <4>1. NewBroadcast \in [streaming : BOOLEAN, end : {"no", "ok", "failed", "canceled"}]
          BY DEF NewBroadcast
        <4>. QED
          BY <1>a, <3>1, <4>1 DEF Leave
      <3>2. CASE Streams(r)
        BY <1>a, <3>2, ZenonT(60) DEF Streams
      <3>. QED
        BY <1>2, <3>1, <3>2
    <2>2. UNCHANGED <<fetch, pop, warm, writer>>
      BY <1>2 DEF Leave, Streams, taskVars
    <2>. QED
      BY <1>a, <2>1, <2>2
  <1>3. ASSUME NEW r \in Requests, StartFetch(r) PROVE TaskTypes'
    BY <1>3, <1>a DEF StartFetch
  <1>4. ASSUME NEW r \in Requests, Outcome(r) \/ Answered(r) \/ PopulateEnds(r) PROVE TaskTypes'
    <2>1. fetch' \in [Requests -> {"none", "request", "stream"}]
      BY <1>4, <1>a DEF Outcome, Answered, PopulateEnds
    <2>2. pop' \in [Requests -> {"none", "run"}]
      BY <1>4, <1>a DEF Outcome, Answered, PopulateEnds
    <2>3. warm' \in [pc : {"none", "fetch", "wait"}, marker : BOOLEAN]
      <3>1. warm' = warm \/ warm' = [pc |-> "fetch", marker |-> TRUE]
        BY <1>4 DEF Outcome, Answered, PopulateEnds
      <3>2. warm \in [pc : {"none", "fetch", "wait"}, marker : BOOLEAN]
        BY <1>a
      <3>3. [pc |-> "fetch", marker |-> TRUE] \in [pc : {"none", "fetch", "wait"}, marker : BOOLEAN]
        BY Zenon
      <3>. QED
        BY <3>1, <3>2, <3>3, Zenon
    <2>4. UNCHANGED <<bc, writer>>
      BY <1>4 DEF Outcome, Answered, PopulateEnds
    <2>. QED
      BY <1>a, <2>1, <2>2, <2>3, <2>4
  <1>5. ASSUME NEW r \in Requests, FetchEnds(r) \/ FetchStops(r) PROVE TaskTypes'
    <2>1. bc' \in [Requests -> [streaming : BOOLEAN, end : {"no", "ok", "failed", "canceled"}]]
      BY <1>5, <1>a, SMTT(30) DEF FetchEnds, FetchStops, Completes
    <2>2. fetch' \in [Requests -> {"none", "request", "stream"}]
      BY <1>5, <1>a DEF FetchEnds, FetchStops, Completes
    <2>3. UNCHANGED <<pop, warm, writer>>
      BY <1>5 DEF FetchEnds, FetchStops
    <2>. QED
      BY <1>a, <2>1, <2>2, <2>3
  <1>6. CASE WarmStep
    <2>1. warm' \in [pc : {"none", "fetch", "wait"}, marker : BOOLEAN]
      <3>1. \/ warm' = warm \/ warm' = [pc |-> "none", marker |-> FALSE]
            \/ warm' = [warm EXCEPT !.pc = "wait"]
        BY <1>6 DEF WarmStep, WarmFetch, WarmEnds, WriterEnds
      <3>2. warm \in [pc : {"none", "fetch", "wait"}, marker : BOOLEAN]
        BY <1>a
      <3>3. [pc |-> "none", marker |-> FALSE] \in [pc : {"none", "fetch", "wait"}, marker : BOOLEAN]
        BY Zenon
      <3>4. [warm EXCEPT !.pc = "wait"] \in [pc : {"none", "fetch", "wait"}, marker : BOOLEAN]
        BY <3>2
      <3>. QED
        BY <3>1, <3>2, <3>3, <3>4, Zenon
    <2>2. writer' \in {"none", "run"}
      BY <1>6, <1>a DEF WarmStep, WarmFetch, WarmEnds, WriterEnds
    <2>3. UNCHANGED <<bc, fetch, pop>>
      BY <1>6 DEF WarmStep, WarmFetch, WarmEnds, WriterEnds
    <2>. QED
      BY <1>a, <2>1, <2>2, <2>3
  <1>7. CASE \E r \in Requests :
               \/ enterHandler(r) \/ ClientLeaves(r) \/ Dropped(r) \/ Admit(r)
               \/ GetOrCreate(r) \/ Subscribe(r) \/ Received(r) \/ Return(r)
    BY <1>1, <1>7 DEF enterHandler, ClientLeaves, Dropped, Admit, GetOrCreate, Subscribe,
                      Received, Return, taskVars
  <1>8. CASE \/ MainStep \/ AfterFunc \/ SamplerEnds \/ Signal
             \/ \E c \in Stoppers \cup {"main"} : OtherStops(c) \/ ServiceStops(c)
    BY <1>1, <1>8 DEF MainStep, closeHandlerAdmission, Drained, DrainTimesOut, HandlersJoined,
                      MainStopsService, CloseStorage, OtherStops, ServiceStops, AfterFunc,
                      SamplerEnds, Signal, taskVars
  <1>9. CASE UNCHANGED vars
    BY <1>1, <1>9, SMTT(30) DEF vars
  <1>. QED
    BY <1>2, <1>3, <1>4, <1>5, <1>6, <1>7, <1>8, <1>9, SMTT(30)
       DEF Next, Environment, HandlerStep, TaskStep, Stopped

\* and the stoppers, main, the sampler and the storage.
LEMMA StopTypesStep ==
    ASSUME TypeOK, [Next]_vars
    PROVE  StopTypes'
  <1>a. StopTypes
    BY DEF TypeOK, StopTypes
  <1>. USE DEF StopTypes
  <1>1. CASE UNCHANGED stopVars
    BY <1>1, <1>a DEF stopVars
  <1>2. CASE \E c \in Stoppers \cup {"main"} : OtherStops(c) \/ ServiceStops(c)
    BY <1>2, <1>a DEF OtherStops, ServiceStops, Seal, StopSteps
  <1>3. CASE MainStopsService
    BY <1>3, <1>a DEF MainStopsService, Seal, MainGoto
  <1>4. CASE \/ closeHandlerAdmission \/ Drained \/ DrainTimesOut \/ HandlersJoined
             \/ CloseStorage \/ AfterFunc \/ SamplerEnds \/ Signal
    <2>1. main' \in [pc : {"run", "admission", "drain", "join", "service", "sampler", "exit"},
                     afterFunc : {"none", "armed", "running", "sent", "off"}]
      <3>1. CASE closeHandlerAdmission \/ DrainTimesOut \/ CloseStorage \/ Signal
        BY <1>a, <3>1 DEF closeHandlerAdmission, DrainTimesOut, CloseStorage, Signal, MainGoto
      <3>2. CASE Drained \/ AfterFunc
        BY <1>a, <3>2, Zenon DEF Drained, AfterFunc
      <3>3. CASE HandlersJoined \/ SamplerEnds
        BY <1>a, <3>3 DEF HandlersJoined, SamplerEnds
      <3>. QED
        BY <1>4, <3>1, <3>2, <3>3
    <2>2. UNCHANGED <<scenario, stp>> /\ reqCtx' \in BOOLEAN
          /\ sampler' \in {"run", "canceled", "stopped"} /\ store' \in {"open", "closed"}
      BY <1>4, <1>a, Zenon DEF closeHandlerAdmission, Drained, DrainTimesOut, HandlersJoined,
                        CloseStorage, AfterFunc, SamplerEnds, Signal
    <2>. QED
      BY <1>a, <2>1, <2>2
  <1>5. CASE \E r \in Requests :
               \/ enterHandler(r) \/ ClientLeaves(r) \/ Dropped(r) \/ HandlerStep(r)
    BY <1>1, <1>5 DEF enterHandler, ClientLeaves, Dropped, HandlerStep, Leave, Admit, GetOrCreate,
                      Subscribe, StartFetch, Received, Outcome, Return
  <1>6. CASE \/ WarmStep
             \/ \E r \in Requests : Answered(r) \/ Streams(r) \/ FetchEnds(r) \/ PopulateEnds(r)
                                    \/ FetchStops(r)
    BY <1>1, <1>6 DEF WarmStep, WarmFetch, WarmEnds, WriterEnds, Answered, Streams, FetchEnds,
                      PopulateEnds, FetchStops
  <1>7. CASE UNCHANGED vars
    BY <1>1, <1>7 DEF vars, stopVars
  <1>. QED
    BY <1>2, <1>3, <1>4, <1>5, <1>6, <1>7, SMTT(30)
       DEF Next, Environment, TaskStep, MainStep, Stopped

\* The counters are records' fields, and counts.
LEMMA CounterTypesStep ==
    ASSUME IInv, [Next]_vars
    PROVE  /\ adm' \in [stopping : BOOLEAN, count : 0..Cardinality(Requests), done : BOOLEAN]
           /\ sem' \in 0..MaxInflight
           /\ svc' \in [stopping : BOOLEAN, live : BOOLEAN, wg : Nat, stopped : BOOLEAN]
  <1>a. /\ adm \in [stopping : BOOLEAN, count : 0..Cardinality(Requests), done : BOOLEAN]
        /\ sem \in 0..MaxInflight /\ MaxInflight \in Nat
        /\ svc \in [stopping : BOOLEAN, live : BOOLEAN, wg : Nat, stopped : BOOLEAN]
    BY ShutdownAssumption DEF IInv, TypeOK
  <1>1. adm'.count \in 0..Cardinality(Requests)
    <2>1. adm'.count = Cardinality(Inside')
      BY HandlersStep DEF HandlersCounted
    <2>2. Inside' \subseteq Requests
      BY DEF Inside
    <2>3. Cardinality(Requests) \in Nat
      BY FiniteSubset
    <2>. QED
      BY <2>1, <2>2, <2>3, FiniteSubset
  <1>2. sem' \in Nat
    <2>1. sem' = Cardinality(Holding')
      BY HandlersStep DEF HandlersCounted
    <2>2. Holding' \subseteq Requests
      BY DEF Holding
    <2>. QED
      BY <2>1, <2>2, FiniteSubset
  <1>3. svc'.wg \in Nat
    <2>1. svc'.wg = LiveTasks'
      BY TasksStep DEF TasksCounted
    <2>2. Fetching' \subseteq Requests /\ Populating' \subseteq Requests
      BY DEF Fetching, Populating
    <2>3. Cardinality(Fetching') \in Nat /\ Cardinality(Populating') \in Nat
      BY <2>2, FiniteSubset
    <2>. QED
      BY <2>1, <2>3 DEF LiveTasks, Fetching, Populating
  <1>4. adm' \in [stopping : BOOLEAN, count : 0..Cardinality(Requests), done : BOOLEAN]
    <2>1. \/ adm' = adm
          \/ adm' = [adm EXCEPT !.count = @ + 1]
          \/ adm' = [adm EXCEPT !.count = @ - 1, !.done = @ \/ (adm.stopping /\ adm.count = 1)]
          \/ adm' = [adm EXCEPT !.stopping = TRUE, !.done = @ \/ adm.count = 0]
      <3>1. CASE \E r \in Requests :
                   HandlerStep(r) \/ Dropped(r) \/ enterHandler(r) \/ ClientLeaves(r)
        BY <3>1 DEF HandlerStep, Leave, leaveHandler, Admit, GetOrCreate, Subscribe, StartFetch,
             Received, Outcome, Return, Dropped, enterHandler, ClientLeaves
      <3>2. CASE \/ WarmStep
                 \/ \E r \in Requests : Answered(r) \/ Streams(r) \/ FetchEnds(r)
                                        \/ PopulateEnds(r) \/ FetchStops(r)
        BY <3>2 DEF WarmStep, WarmFetch, WarmEnds, WriterEnds, Answered, Streams, FetchEnds,
             PopulateEnds, FetchStops, handlerVars
      <3>3. CASE \/ MainStep \/ AfterFunc \/ SamplerEnds \/ Signal
                 \/ \E c \in Stoppers \cup {"main"} : OtherStops(c) \/ ServiceStops(c)
        BY <3>3 DEF MainStep, closeHandlerAdmission, Drained, DrainTimesOut, HandlersJoined,
             MainStopsService, CloseStorage, AfterFunc, SamplerEnds, Signal, OtherStops,
             ServiceStops, handlerVars
      <3>4. CASE UNCHANGED vars
        BY <3>4 DEF vars
      <3>. QED
        BY <3>1, <3>2, <3>3, <3>4 DEF Next, Environment, TaskStep, Stopped
    <2>. QED
      BY <1>1, <1>a, <2>1, Zenon
  <1>5. sem' \in 0..MaxInflight
    <2>1. sem' = sem \/ (sem < MaxInflight /\ sem' = sem + 1) \/ sem' = sem - 1
      <3>1. CASE \E r \in Requests : Admit(r) \/ Return(r)
        BY <3>1, <1>a, SMTT(30) DEF Admit, Return
      <3>2. CASE \E r \in Requests :
                   \/ Leave(r) \/ GetOrCreate(r) \/ Subscribe(r) \/ StartFetch(r) \/ Received(r)
                   \/ Outcome(r) \/ Dropped(r) \/ enterHandler(r) \/ ClientLeaves(r)
        BY <3>2 DEF Leave, GetOrCreate, Subscribe, StartFetch, Received, Outcome, Dropped,
             enterHandler, ClientLeaves
      <3>3. CASE \/ WarmStep
                 \/ \E r \in Requests : Answered(r) \/ Streams(r) \/ FetchEnds(r)
                                        \/ PopulateEnds(r) \/ FetchStops(r)
        BY <3>3 DEF WarmStep, WarmFetch, WarmEnds, WriterEnds, Answered, Streams, FetchEnds,
             PopulateEnds, FetchStops, handlerVars
      <3>4. CASE \/ MainStep \/ AfterFunc \/ SamplerEnds \/ Signal
                 \/ \E c \in Stoppers \cup {"main"} : OtherStops(c) \/ ServiceStops(c)
        BY <3>4 DEF MainStep, closeHandlerAdmission, Drained, DrainTimesOut, HandlersJoined,
             MainStopsService, CloseStorage, AfterFunc, SamplerEnds, Signal, OtherStops,
             ServiceStops, handlerVars
      <3>5. CASE UNCHANGED vars
        BY <3>5 DEF vars
      <3>. QED
        BY <3>1, <3>2, <3>3, <3>4, <3>5, SMTT(30) DEF Next, Environment, HandlerStep, TaskStep, Stopped
    <2>. QED
      BY <1>2, <1>a, <2>1, SMTT(30)
  <1>6. svc' \in [stopping : BOOLEAN, live : BOOLEAN, wg : Nat, stopped : BOOLEAN]
    <2>1. \/ svc' = svc \/ Begins(1) \/ TaskDone(1)
          \/ svc' = [svc EXCEPT !.stopping = TRUE]
          \/ svc' = [svc EXCEPT !.live = FALSE]
          \/ svc' = [svc EXCEPT !.stopped = TRUE]
      <3>1. CASE \E r \in Requests :
                   HandlerStep(r) \/ Dropped(r) \/ enterHandler(r) \/ ClientLeaves(r)
        BY <3>1 DEF HandlerStep, Leave, Admit, GetOrCreate, Subscribe, StartFetch,
             Received, Outcome, Return, Dropped, enterHandler, ClientLeaves
      <3>2. CASE \/ WarmStep
                 \/ \E r \in Requests : Answered(r) \/ Streams(r) \/ FetchEnds(r)
                                        \/ PopulateEnds(r) \/ FetchStops(r)
        BY <3>2 DEF WarmStep, WarmFetch, WarmEnds, WriterEnds, Answered, Streams, FetchEnds,
             PopulateEnds, FetchStops, Completes
      <3>3. CASE \/ MainStep \/ AfterFunc \/ SamplerEnds \/ Signal
        BY <3>3 DEF MainStep, closeHandlerAdmission, Drained, DrainTimesOut, HandlersJoined,
             MainStopsService, CloseStorage, AfterFunc, SamplerEnds, Signal, Seal
      <3>4. CASE \E c \in Stoppers \cup {"main"} : OtherStops(c) \/ ServiceStops(c)
        BY <3>4 DEF OtherStops, ServiceStops, Seal, StopSteps
      <3>5. CASE UNCHANGED vars
        BY <3>5, SMTT(30) DEF vars
      <3>. QED
        BY <3>1, <3>2, <3>3, <3>4, <3>5 DEF Next, Environment, TaskStep, Stopped
    <2>. QED
      BY <1>3, <1>a, <2>1, Zenon DEF Begins, TaskDone
  <1>. QED
    BY <1>4, <1>5, <1>6

-----------------------------------------------------------------------------
(* The theorems.                                                              *)

\* The invariant holds initially,
LEMMA InitHolds == Init => IInv
  <1>. SUFFICES ASSUME Init PROVE IInv
    BY SMTT(30)
  <1>. USE DEF Init
  <1>1. Inside = {} /\ Holding = {}
    BY SMTT(30) DEF Inside, Holding, NewHandler, InBody, Admitted
  <1>2. Fetching = {} /\ Populating = {}
    BY SMTT(30) DEF Fetching, Populating
  <1>3. Cardinality({}) = 0 /\ Cardinality(Requests) \in Nat
    BY FS_EmptySet, FiniteSubset, SMTT(30)
  <1>4. TypeOK
    BY <1>3, ShutdownAssumption, SMTT(30) DEF TypeOK, NewHandler, NewBroadcast
  <1>5. HandlersCounted
    BY <1>1, <1>3, SMTT(30) DEF HandlersCounted
  <1>6. TasksCounted
    <2>1. LiveTasks = 0
      <3>1. LiveTasks = Cardinality(Fetching) + Cardinality(Populating) + 0 + 0
        BY SMTT(30) DEF LiveTasks, Fetching, Populating
      <3>. QED
        BY <1>2, <1>3, <3>1, SMTT(30)
    <2>. QED
      BY <2>1, SMTT(30) DEF TasksCounted
  <1>7. HandlersJoin /\ TasksJoin /\ MainOrdered
    BY SMTT(30) DEF HandlersJoin, TasksJoin, MainOrdered
  <1>8. Attended
    BY DEF Attended, NewHandler
  <1>. QED
    BY <1>4, <1>5, <1>6, <1>7, <1>8 DEF IInv

\* every step preserves it,
LEMMA StepHolds == IInv /\ [Next]_vars => IInv'
  <1>. SUFFICES ASSUME IInv, [Next]_vars PROVE IInv'
    OBVIOUS
  <1>1. TypeOK
    BY DEF IInv
  <1>2. TypeOK'
    <2>1. HandlerTypes' /\ TaskTypes' /\ StopTypes'
      BY <1>1, HandlerTypesStep, TaskTypesStep, StopTypesStep
    <2>. QED
      BY <2>1, CounterTypesStep DEF TypeOK, HandlerTypes, TaskTypes, StopTypes
  <1>3. HandlersCounted' /\ TasksCounted'
    BY HandlersStep, TasksStep
  <1>4. HandlersJoin' /\ TasksJoin'
    BY HandlersJoinStep, TasksJoinStep
  <1>5. MainOrdered' /\ Attended'
    BY MainStepOrdered, AttendedStep
  <1>. QED
    BY <1>2, <1>3, <1>4, <1>5 DEF IInv

\* and so it always holds.
LEMMA Inductive == Spec => []IInv
  BY InitHolds, StepHolds, PTL DEF Spec

\* Every variable keeps its type, whatever arrives: the admission semaphore never
\* exceeds server.max_inflight_requests and no counter falls below zero.
THEOREM TypesHold == Spec => []TypeOK
  <1>1. IInv => TypeOK
    BY DEF IInv
  <1>. QED
    BY Inductive, <1>1, PTL

\* closeHandlerAdmission and serviceWorkers.stop seal for good: after either join
\* nothing of what was joined runs again.
THEOREM JoinsAreFinal == Spec => []JoinsHold
  <1>1. IInv => JoinsHold
    BY DEF IInv, HandlersJoin, TasksJoin, TasksCounted, JoinsHold
  <1>. QED
    BY Inductive, <1>1, PTL

\* The deferred Close of the embedded cache in main comes after everything that
\* uses it.
THEOREM StorageIsLast == Spec => []StorageOutlivesUse
  <1>1. IInv => StorageOutlivesUse
    BY SMTT(30) DEF IInv, HandlersJoin, TasksJoin, TasksCounted, MainOrdered, StorageOutlivesUse
  <1>. QED
    BY Inductive, <1>1, PTL

\* Coalescing (Manager.GetOrCreate, Remove, fetchAndBroadcast) strands nobody, for
\* any number of requests that join, replace and remove broadcasts of one key.
THEOREM NobodyStranded == Spec => []NobodyWaitsAlone
  <1>1. IInv => NobodyWaitsAlone
    BY DEF IInv, Attended, Ending, NobodyWaitsAlone, InBody
  <1>. QED
    BY Inductive, <1>1, PTL
=============================================================================
