----------------------------- MODULE AlgoService -----------------------------
(***************************************************************************)
(* Who starts when (services/AlgoService.cpp): the dispatcher takes client *)
(* requests, starts live algos at once and backtests while there is room,  *)
(* and queues the other backtests; a backtest that ends makes room and     *)
(* posts a task that starts the next one.                                  *)
(*                                                                         *)
(* The dispatcher is one thread with one first-in first-out queue of tasks.*)
(* onAlgoInstanceFinished runs on the finished trader's own context, at the *)
(* same time as the dispatcher, and they share two atomic counters, each   *)
(* changed on its own.  m_runningTraders and m_totalTraders are only logged*)
(* and left out, and so are the answers to the client.                     *)
(***************************************************************************)
EXTENDS Integers, Sequences, FiniteSets

CONSTANTS
    Traders,           \* one per algo order of the requests
    BackTest,          \* those with AlgoOrder::isBackTestOrder
    CreateRequests,    \* the requests clients send: sequences of Traders
    Categories,        \* the choices of a category for every trader
    m_numAlgoWorkers,  \* cores left for worker contexts
    CounterSize,       \* 2^32: the counters are uint32_t
    NoTrader

\* Every order of a request is a new one, with a trader of its own.  AlgoService::start
\* takes six cores for itself; the rest must be at least one.
ASSUME ServiceAssumption ==
    /\ IsFiniteSet(Traders)
    /\ BackTest \subseteq Traders
    /\ CreateRequests \subseteq Seq(Traders)
    /\ \A orders \in CreateRequests : \A i, j \in DOMAIN orders : orders[i] = orders[j] => i = j
    /\ Categories \subseteq [Traders -> {"ALGO", "SHOT", "T0"}]
    /\ m_numAlgoWorkers \in Nat \ {0}
    /\ CounterSize \in Nat /\ CounterSize > Cardinality(Traders)
    /\ NoTrader \notin Traders

VARIABLES
    category,      \* algoOrder->algoCategory, what the client asked for
    dispatcher,    \* tasks posted to m_dispatcherContextPtr
    batch,         \* algo orders of the request in hand, not dispatched yet
    popping,       \* finished trader whose pop task has started another trader
                   \* and not counted it yet, or NoTrader
    btQueue,       \* m_algoTraderQueue_bt
    runningBt,     \* m_runningTraders_bt
    costMuti,      \* m_runningTraders_bt_costMutiContext
    phase          \* where each trader is

vars == <<category, dispatcher, batch, popping, btQueue, runningBt, costMuti, phase>>

RequestTask(orders) == [op |-> "request", orders |-> orders]
PopTask(t) == [op |-> "pop", trader |-> t]

Elements(s) == {s[i] : i \in DOMAIN s}

Plus(n) == (n + 1) % CounterSize
\* Wrong on purpose: a counter without its 32 bits.
MinusSigned(n) == n - 1

Minus(n) == (n - 1) % CounterSize

\* getAlgoCategory() != Category_ALGO: it uses several worker contexts.
CostsMutiContext(t) == category[t] # "ALGO"

Init ==
    /\ category \in Categories
    /\ dispatcher = <<>>
    /\ batch = <<>>
    /\ popping = NoTrader
    /\ btQueue = <<>>
    /\ runningBt = 0
    /\ costMuti = 0
    /\ phase = [t \in Traders |-> "none"]

\* The dispatcher's thread is between two tasks.
DispatcherIdle == batch = <<>> /\ popping = NoTrader

-----------------------------------------------------------------------------
(* dispatchAlgoRequest, on a network thread: post the request. *)
RecvRequest(orders) ==
    /\ \A t \in Elements(orders) : phase[t] = "none"
    /\ dispatcher' = Append(dispatcher, RequestTask(orders))
    /\ phase' = [t \in Traders |-> IF t \in Elements(orders) THEN "posted" ELSE phase[t]]
    /\ UNCHANGED <<category, batch, popping, btQueue, runningBt, costMuti>>

(* onStartAlgoInstanceRequest for a logged-in account: its algo orders. *)
CreateAlgoOrders ==
    /\ DispatcherIdle /\ dispatcher # <<>>
    /\ Head(dispatcher).op = "request"
    /\ batch' = Head(dispatcher).orders
    /\ dispatcher' = Tail(dispatcher)
    /\ UNCHANGED <<category, popping, btQueue, runningBt, costMuti, phase>>

(* onStartAlgoInstanceRequest that only answers: a body that does not parse, an
   account that is not logged in, or dates it cannot read. *)
RefuseRequest ==
    /\ DispatcherIdle /\ dispatcher # <<>>
    /\ Head(dispatcher).op = "request"
    /\ LET refused == Elements(Head(dispatcher).orders)
       IN  phase' = [t \in Traders |-> IF t \in refused THEN "done" ELSE phase[t]]
    /\ dispatcher' = Tail(dispatcher)
    /\ UNCHANGED <<category, batch, popping, btQueue, runningBt, costMuti>>

-----------------------------------------------------------------------------
(* dispatchAlgoOrder(algoOrder): the next order of the batch. *)
Dispatching(t) == batch # <<>> /\ t = Head(batch) /\ batch' = Tail(batch)

\* Algos and shots have a trader; no other category has.
Supported(t) == category[t] \in {"ALGO", "SHOT"}

ShouldQueue == costMuti # 0 \/ runningBt >= m_numAlgoWorkers

RejectOrder(t) ==
    /\ Dispatching(t)
    /\ ~Supported(t)
    /\ phase' = [phase EXCEPT ![t] = "done"]
    /\ UNCHANGED <<category, dispatcher, popping, btQueue, runningBt, costMuti>>

StartLive(t) ==
    /\ Dispatching(t)
    /\ Supported(t) /\ t \notin BackTest
    /\ phase' = [phase EXCEPT ![t] = "running"]
    /\ UNCHANGED <<category, dispatcher, popping, btQueue, runningBt, costMuti>>

QueueBackTest(t) ==
    /\ Dispatching(t)
    /\ Supported(t) /\ t \in BackTest
    /\ ShouldQueue
    /\ btQueue' = Append(btQueue, t)
    /\ phase' = [phase EXCEPT ![t] = "queued"]
    /\ UNCHANGED <<category, dispatcher, popping, runningBt, costMuti>>

StartBackTest(t) ==
    /\ Dispatching(t)
    /\ Supported(t) /\ t \in BackTest
    /\ ~ShouldQueue
    /\ runningBt' = Plus(runningBt)
    /\ costMuti' = IF CostsMutiContext(t) THEN Plus(costMuti) ELSE costMuti
    /\ phase' = [phase EXCEPT ![t] = "running"]
    /\ UNCHANGED <<category, dispatcher, popping, btQueue>>

-----------------------------------------------------------------------------
(* onAlgoInstanceFinished, on the finished trader's context: two atomic
   decrements and a post, with the dispatcher running in between. *)
FinishLive(t) ==
    /\ phase[t] = "running" /\ t \notin BackTest
    /\ phase' = [phase EXCEPT ![t] = "done"]
    /\ UNCHANGED <<category, dispatcher, batch, popping, btQueue, runningBt, costMuti>>

FinishBackTest(t) ==
    /\ phase[t] = "running" /\ t \in BackTest
    /\ runningBt' = Minus(runningBt)
    /\ phase' = [phase EXCEPT ![t] = "ended"]
    /\ UNCHANGED <<category, dispatcher, batch, popping, btQueue, costMuti>>

ReleaseContexts(t) ==
    /\ phase[t] = "ended"
    /\ costMuti' = IF CostsMutiContext(t) THEN Minus(costMuti) ELSE costMuti
    /\ phase' = [phase EXCEPT ![t] = "released"]
    /\ UNCHANGED <<category, dispatcher, batch, popping, btQueue, runningBt>>

\* Wrong on purpose: forgets to post.
PostNothing(t) ==
    /\ phase[t] = "released"
    /\ phase' = [phase EXCEPT ![t] = "done"]
    /\ UNCHANGED <<category, dispatcher, batch, popping, btQueue, runningBt, costMuti>>

PostPop(t) ==
    /\ phase[t] = "released"
    /\ dispatcher' = Append(dispatcher, PopTask(t))
    /\ phase' = [phase EXCEPT ![t] = "done"]
    /\ UNCHANGED <<category, batch, popping, btQueue, runningBt, costMuti>>

(* The posted task starts the front of the queue, whatever the counters say ... *)
PopQueue ==
    /\ DispatcherIdle /\ dispatcher # <<>>
    /\ Head(dispatcher).op = "pop"
    /\ dispatcher' = Tail(dispatcher)
    /\ IF btQueue # <<>>
       THEN /\ phase' = [phase EXCEPT ![Head(btQueue)] = "running"]
            /\ btQueue' = Tail(btQueue)
            /\ popping' = Head(dispatcher).trader
       ELSE UNCHANGED <<phase, btQueue, popping>>
    /\ UNCHANGED <<category, batch, runningBt, costMuti>>

\* Wrong on purpose: does not count it.
CountNothing ==
    /\ popping # NoTrader
    /\ popping' = NoTrader
    /\ UNCHANGED <<category, dispatcher, batch, btQueue, runningBt, costMuti, phase>>

(* ... and counts it once it runs, by the category of the trader that finished. *)
CountPopped ==
    /\ popping # NoTrader
    /\ runningBt' = Plus(runningBt)
    /\ costMuti' = IF CostsMutiContext(popping) THEN Plus(costMuti) ELSE costMuti
    /\ popping' = NoTrader
    /\ UNCHANGED <<category, dispatcher, batch, btQueue, phase>>

-----------------------------------------------------------------------------
Dispatch(t) == RejectOrder(t) \/ StartLive(t) \/ QueueBackTest(t) \/ StartBackTest(t)

DispatcherStep ==
    \/ CreateAlgoOrders \/ RefuseRequest \/ PopQueue \/ CountPopped
    \/ \E t \in Traders : Dispatch(t)

\* Wrong on purpose: posts the pop first and lowers the counters afterwards.
PostBeforeLowering(t) ==
    \/ FinishLive(t)
    \/ /\ phase[t] = "running" /\ t \in BackTest
       /\ dispatcher' = Append(dispatcher, PopTask(t))
       /\ phase' = [phase EXCEPT ![t] = "ended"]
       /\ UNCHANGED <<category, batch, popping, btQueue, runningBt, costMuti>>
    \/ /\ phase[t] = "ended"
       /\ runningBt' = Minus(runningBt)
       /\ costMuti' = IF CostsMutiContext(t) THEN Minus(costMuti) ELSE costMuti
       /\ phase' = [phase EXCEPT ![t] = "done"]
       /\ UNCHANGED <<category, dispatcher, batch, popping, btQueue>>

TraderStep(t) ==
    FinishLive(t) \/ FinishBackTest(t) \/ ReleaseContexts(t) \/ PostPop(t)

Next ==
    \/ \E orders \in CreateRequests : RecvRequest(orders)
    \/ DispatcherStep
    \/ \E t \in Traders : TraderStep(t)

\* The dispatcher's thread runs what is posted to it.  Every trader ends: a live
\* one at its end time, a backtest when its quotes have been replayed.
Spec ==
    /\ Init /\ [][Next]_vars
    /\ WF_vars(DispatcherStep)
    /\ \A t \in Traders : WF_vars(TraderStep(t))

-----------------------------------------------------------------------------
(* Properties *)

Phases == {"none", "posted", "queued", "running", "ended", "released", "done"}

Task == [op : {"request"}, orders : CreateRequests] \cup [op : {"pop"}, trader : Traders]

\* Every variable has its type, and the counters fit their 32 bits.
TypeOK ==
    /\ category \in Categories
    /\ dispatcher \in Seq(Task)
    /\ batch \in Seq(Traders)
    /\ popping \in Traders \cup {NoTrader}
    /\ btQueue \in Seq(Traders)
    /\ runningBt \in 0..(CounterSize - 1)
    /\ costMuti \in 0..(CounterSize - 1)
    /\ phase \in [Traders -> Phases]

BackTestsIn(phases) == {t \in BackTest : phase[t] \in phases}

\* Somebody will still come for the queue: a backtest that runs or is ending, or
\* a pop task already posted.
WillPop ==
    \/ BackTestsIn({"running", "ended", "released"}) # {}
    \/ \E i \in DOMAIN dispatcher : dispatcher[i].op = "pop"

\* No lost wake-up: a backtest never waits in the queue when nothing is left that
\* would start it.  The decision to queue reads counters that finishing traders
\* change at the same time; it is safe because they are lowered before the pop
\* task is posted and the pop runs on the dispatcher's own thread.
NoLostWakeup == btQueue # <<>> => WillPop

\* Between two tasks the dispatcher reads exact counters, although a popped
\* trader is counted after it has been started and may have finished before.
CountersExact ==
    popping = NoTrader =>
        /\ runningBt = Cardinality(BackTestsIn({"running"}))
        /\ costMuti = Cardinality({t \in BackTestsIn({"running", "ended"}) :
                                     CostsMutiContext(t)})

\* Every queued backtest is started in the end.
QueueEventuallyRuns ==
    \A t \in BackTest : phase[t] = "queued" ~> phase[t] # "queued"
==============================================================================
