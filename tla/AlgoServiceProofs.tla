-------------------------- MODULE AlgoServiceProofs --------------------------
(***************************************************************************)
(* The counters of the service and its wake-ups, for every set of traders, *)
(* requests and workers: they are exact whenever the dispatcher reads them,*)
(* and so no backtest waits for a pop that nobody will post.               *)
(***************************************************************************)
EXTENDS AlgoService, FiniteSetTheorems, SequenceTheorems, TLAPS

\* All backtests that have a trader use one worker context each, or all use
\* several.  A pop counts the trader it starts by the category of the one that
\* finished, so without this the counters are wrong.
SameCategory ==
    \A c \in Categories : \A t, u \in BackTest :
        c[t] \in {"ALGO", "SHOT"} /\ c[u] \in {"ALGO", "SHOT"} => c[t] = c[u]

Distinct(s) == \A i, j \in DOMAIN s : s[i] = s[j] => i = j

\* The orders of a request that is still posted, and nothing for a pop task.
OrdersOf(task) == IF task.op = "request" THEN Elements(task.orders) ELSE {}

\* The backtests that count as running, and those that hold several contexts.
Active == BackTestsIn({"running"})
Holding == {t \in BackTestsIn({"running", "ended"}) : CostsMutiContext(t)}

\* A popped trader that is not counted yet.
Uncounted == IF popping = NoTrader THEN 0 ELSE 1
UncountedMuti == IF popping # NoTrader /\ CostsMutiContext(popping) THEN 1 ELSE 0

-----------------------------------------------------------------------------
(* The inductive invariant *)

\* An order waits in one place only: in one request, in the batch or in the queue,
\* and its phase says which.
PostedApart ==
    \A i \in DOMAIN dispatcher :
        /\ dispatcher[i].op = "request" => Distinct(dispatcher[i].orders)
        /\ \A t \in OrdersOf(dispatcher[i]) : phase[t] = "posted" /\ t \notin Elements(batch)
        /\ \A j \in DOMAIN dispatcher :
             i # j => OrdersOf(dispatcher[i]) \cap OrdersOf(dispatcher[j]) = {}

BatchApart == Distinct(batch) /\ \A t \in Elements(batch) : phase[t] = "posted"

QueueApart == Distinct(btQueue) /\ \A t \in Elements(btQueue) : phase[t] = "queued" /\ t \in BackTest

EachInItsPlace == PostedApart /\ BatchApart /\ QueueApart

\* Whoever is in the counters has a trader, and so has whoever started another.
OnlyStartable ==
    /\ \A t \in BackTest : phase[t] \in {"queued", "running", "ended", "released"} => Supported(t)
    /\ \A t \in Traders : phase[t] \in {"ended", "released"} => t \in BackTest
    /\ \A i \in DOMAIN dispatcher : dispatcher[i].op = "pop" =>
         dispatcher[i].trader \in BackTest /\ Supported(dispatcher[i].trader)
    /\ popping # NoTrader => popping \in BackTest /\ Supported(popping)

\* The dispatcher does one thing at a time.
OneTask == batch # <<>> => popping = NoTrader

\* An unsigned counter that should be n, which may be one below zero.
Wraps(counter, n) == n >= -1 /\ counter = (IF n < 0 THEN CounterSize - 1 ELSE n)

\* The counters lag behind by the trader that was popped, even below zero when
\* that one ends before it is counted.
CountersLag ==
    /\ Wraps(runningBt, Cardinality(Active) - Uncounted)
    /\ Wraps(costMuti, Cardinality(Holding) - UncountedMuti)

ServiceInv == TypeOK /\ EachInItsPlace /\ OnlyStartable /\ OneTask

CountInv == ServiceInv /\ CountersLag /\ NoLostWakeup

-----------------------------------------------------------------------------
(* Sequences, counters and types *)

LEMMA AppendElements ==
    ASSUME NEW S, NEW s \in Seq(S), NEW e \in S
    PROVE  /\ Append(s, e) \in Seq(S)
           /\ DOMAIN Append(s, e) = DOMAIN s \cup {Len(s) + 1}
           /\ \A i \in DOMAIN s : Append(s, e)[i] = s[i]
           /\ Append(s, e)[Len(s) + 1] = e
           /\ Elements(Append(s, e)) = Elements(s) \cup {e}
  BY DEF Elements

LEMMA TailElements ==
    ASSUME NEW S, NEW s \in Seq(S), s # <<>>
    PROVE  /\ Head(s) \in S /\ Tail(s) \in Seq(S)
           /\ 1 \in DOMAIN s /\ Head(s) = s[1]
           /\ \A i \in DOMAIN Tail(s) : i + 1 \in DOMAIN s /\ i + 1 # 1 /\ Tail(s)[i] = s[i + 1]
           /\ \A i, j \in DOMAIN Tail(s) : i + 1 = j + 1 => i = j
           /\ Head(s) \in Elements(s) /\ Elements(Tail(s)) \subseteq Elements(s)
           /\ \A i \in DOMAIN s : i = 1 \/ (i - 1 \in DOMAIN Tail(s) /\ Tail(s)[i - 1] = s[i])
  BY DEF Elements

LEMMA DistinctTail ==
    ASSUME NEW S, NEW s \in Seq(S), s # <<>>, Distinct(s)
    PROVE  Distinct(Tail(s)) /\ Head(s) \notin Elements(Tail(s))
  BY TailElements DEF Distinct, Elements

LEMMA DistinctAppend ==
    ASSUME NEW S, NEW s \in Seq(S), NEW e \in S, Distinct(s), e \notin Elements(s)
    PROVE  Distinct(Append(s, e))
  BY AppendElements DEF Distinct, Elements

\* The counters' arithmetic keeps to 32 bits.
LEMMA CounterSteps ==
    ASSUME NEW n \in 0..(CounterSize - 1)
    PROVE  /\ Plus(n) = (IF n = CounterSize - 1 THEN 0 ELSE n + 1)
           /\ Minus(n) = (IF n = 0 THEN CounterSize - 1 ELSE n - 1)
<1>1. CounterSize \in Nat /\ CounterSize > 0
  BY ServiceAssumption, FS_CardinalityType
<1>2. Plus(n) = (IF n = CounterSize - 1 THEN 0 ELSE n + 1)
  BY <1>1 DEF Plus
<1>3. Minus(n) = (IF n = 0 THEN CounterSize - 1 ELSE n - 1)
  BY <1>1 DEF Minus
<1> QED BY <1>2, <1>3

\* A task is a request of some client or a pop for some trader.
LEMMA TaskTyped ==
    ASSUME NEW task \in Task
    PROVE  /\ task.op \in {"request", "pop"}
           /\ task.op = "request" => task.orders \in CreateRequests /\ task.orders \in Seq(Traders)
           /\ task.op = "pop" => task.trader \in Traders
  BY ServiceAssumption DEF Task

LEMMA TypeStep == TypeOK /\ [Next]_vars => TypeOK'
<1> SUFFICES ASSUME TypeOK, [Next]_vars PROVE TypeOK'
  OBVIOUS
<1> USE DEF TypeOK
<1>0. CounterSize \in Nat /\ CounterSize > 0
  BY ServiceAssumption, FS_CardinalityType
<1>1. ASSUME NEW n \in 0..(CounterSize - 1)
      PROVE Plus(n) \in 0..(CounterSize - 1) /\ Minus(n) \in 0..(CounterSize - 1)
  BY <1>0, CounterSteps
<1>2. ASSUME NEW S, NEW s \in Seq(S) 
      PROVE  /\ \A e \in S : Append(s, e) \in Seq(S)
             /\ s # <<>> => Head(s) \in S /\ Tail(s) \in Seq(S)
  OBVIOUS
<1>3. ASSUME NEW orders \in CreateRequests, RecvRequest(orders) PROVE TypeOK'
  <2>1. RequestTask(orders) \in Task
    BY DEF RequestTask, Task
  <2> QED BY <1>3, <1>2, <2>1 DEF RecvRequest, Phases
<1>4. CASE CreateAlgoOrders
  BY <1>4, <1>2, TaskTyped DEF CreateAlgoOrders
<1>5. CASE RefuseRequest
  BY <1>5, <1>2 DEF RefuseRequest, Phases
<1>6. CASE PopQueue
  <2>1. Head(dispatcher) \in Task /\ Tail(dispatcher) \in Seq(Task)
    BY <1>6, <1>2 DEF PopQueue
  <2>2. popping' \in Traders \cup {NoTrader}
    BY <1>6, <2>1, TaskTyped DEF PopQueue
  <2>3. btQueue' \in Seq(Traders) /\ phase' \in [Traders -> Phases]
    BY <1>6, <1>2 DEF PopQueue, Phases
  <2> QED BY <1>6, <2>1, <2>2, <2>3 DEF PopQueue
<1>7. CASE CountPopped
  BY <1>7, <1>1 DEF CountPopped
<1>8. ASSUME NEW t \in Traders, Dispatch(t) PROVE TypeOK'
  <2>1. batch' \in Seq(Traders)
    BY <1>8, <1>2 DEF Dispatch, Dispatching, RejectOrder, StartLive, QueueBackTest, StartBackTest
  <2>5. btQueue' = btQueue \/ btQueue' = Append(btQueue, t)
    BY <1>8 DEF Dispatch, RejectOrder, StartLive, QueueBackTest, StartBackTest
  <2>2. btQueue' \in Seq(Traders)
    BY <2>5, <1>2
  <2>3. runningBt' \in 0..(CounterSize - 1) /\ costMuti' \in 0..(CounterSize - 1)
    BY <1>8, <1>1 DEF Dispatch, RejectOrder, StartLive, QueueBackTest, StartBackTest
  <2>4. phase' \in [Traders -> Phases]
    BY <1>8 DEF Dispatch, RejectOrder, StartLive, QueueBackTest, StartBackTest, Phases
  <2> QED BY <1>8, <2>1, <2>2, <2>3, <2>4 DEF Dispatch, RejectOrder, StartLive, QueueBackTest, StartBackTest
<1>9. ASSUME NEW t \in Traders, TraderStep(t) PROVE TypeOK'
  <2>1. PopTask(t) \in Task
    BY DEF PopTask, Task
  <2>5. dispatcher' = dispatcher \/ dispatcher' = Append(dispatcher, PopTask(t))
    BY <1>9 DEF TraderStep, FinishLive, FinishBackTest, ReleaseContexts, PostPop
  <2>2. dispatcher' \in Seq(Task)
    BY <2>1, <2>5, <1>2
  <2>3. runningBt' \in 0..(CounterSize - 1) /\ costMuti' \in 0..(CounterSize - 1)
    BY <1>9, <1>1 DEF TraderStep, FinishLive, FinishBackTest, ReleaseContexts, PostPop
  <2>4. phase' \in [Traders -> Phases]
    BY <1>9 DEF TraderStep, FinishLive, FinishBackTest, ReleaseContexts, PostPop, Phases
  <2> QED BY <1>9, <2>2, <2>3, <2>4 DEF TraderStep, FinishLive, FinishBackTest, ReleaseContexts, PostPop
<1>10. CASE UNCHANGED vars
  BY <1>10 DEF vars
<1> QED BY <1>3, <1>4, <1>5, <1>6, <1>7, <1>8, <1>9, <1>10 DEF Next, DispatcherStep

-----------------------------------------------------------------------------
(* The places of the orders *)

\* What a task changes of its orders' phases is nothing to the other tasks.
LEMMA OrdersTyped ==
    ASSUME NEW task \in Task
    PROVE  OrdersOf(task) \subseteq Traders
  BY TaskTyped DEF OrdersOf, Elements

LEMMA PlacesOnRequest ==
    ASSUME ServiceInv, NEW orders \in CreateRequests, RecvRequest(orders)
    PROVE  EachInItsPlace'
<1> USE DEF ServiceInv, TypeOK, EachInItsPlace
<1> DEFINE new == RequestTask(orders)
<1>1. /\ orders \in Seq(Traders) /\ Distinct(orders)
      /\ Elements(orders) \subseteq Traders /\ \A t \in Elements(orders) : phase[t] = "none"
  BY ServiceAssumption DEF RecvRequest, Distinct, Elements
<1>2. /\ DOMAIN dispatcher' = DOMAIN dispatcher \cup {Len(dispatcher) + 1}
      /\ \A i \in DOMAIN dispatcher : dispatcher'[i] = dispatcher[i]
      /\ dispatcher'[Len(dispatcher) + 1] = new
  <2>1. new \in Task
    BY DEF RequestTask, Task
  <2> QED BY <2>1, AppendElements DEF RecvRequest
<1>3. OrdersOf(new) = Elements(orders) /\ new.op = "request" /\ new.orders = orders
  BY DEF OrdersOf, RequestTask
<1>4. ASSUME NEW t \in Traders
      PROVE phase'[t] = IF t \in Elements(orders) THEN "posted" ELSE phase[t]
  BY DEF RecvRequest
<1>5. UNCHANGED <<batch, btQueue>>
  BY DEF RecvRequest
<1>6. \A i \in DOMAIN dispatcher : OrdersOf(dispatcher[i]) \subseteq Traders
  BY OrdersTyped
<1>7. Elements(batch) \subseteq Traders /\ Elements(btQueue) \subseteq Traders
  BY DEF Elements
<1>8. \A i \in DOMAIN dispatcher : OrdersOf(dispatcher[i]) \cap Elements(orders) = {}
  BY <1>1 DEF PostedApart
<1>9. PostedApart'
  <2> SUFFICES ASSUME NEW i \in DOMAIN dispatcher'
               PROVE  /\ dispatcher'[i].op = "request" => Distinct(dispatcher'[i].orders)
                      /\ \A t \in OrdersOf(dispatcher'[i]) : phase'[t] = "posted" /\ t \notin Elements(batch)'
                      /\ \A j \in DOMAIN dispatcher' :
                           i # j => OrdersOf(dispatcher'[i]) \cap OrdersOf(dispatcher'[j]) = {}
    BY DEF PostedApart, OrdersOf, Distinct, Elements
  <2>1. dispatcher'[i].op = "request" => Distinct(dispatcher'[i].orders)
    BY <1>1, <1>2, <1>3 DEF PostedApart
  <2>0. Elements(batch)' = Elements(batch)
    BY <1>5 DEF Elements
  <2>2. \A t \in OrdersOf(dispatcher'[i]) : phase'[t] = "posted" /\ t \notin Elements(batch)'
    BY <2>0, <1>1, <1>2, <1>3, <1>4, <1>6 DEF PostedApart, BatchApart
  <2>3. \A j \in DOMAIN dispatcher' : i # j => OrdersOf(dispatcher'[i]) \cap OrdersOf(dispatcher'[j]) = {}
    BY <1>2, <1>3, <1>8 DEF PostedApart
  <2> QED BY <2>1, <2>2, <2>3
<1>10. BatchApart' /\ QueueApart'
  BY <1>1, <1>4, <1>5, <1>7 DEF BatchApart, QueueApart, Distinct, Elements
<1> QED BY <1>9, <1>10

\* The first task leaves the queue: what is left, and what it was.
LEMMA FirstTask ==
    ASSUME ServiceInv, dispatcher # <<>>
    PROVE  /\ Head(dispatcher) \in Task
           /\ OrdersOf(Head(dispatcher)) \subseteq Traders
           /\ \A t \in OrdersOf(Head(dispatcher)) : phase[t] = "posted" /\ t \notin Elements(batch)
           /\ Head(dispatcher).op = "request" => Distinct(Head(dispatcher).orders)
           /\ \A i \in DOMAIN Tail(dispatcher) :
                /\ Tail(dispatcher)[i] \in Task
                /\ Tail(dispatcher)[i].op = "request" => Distinct(Tail(dispatcher)[i].orders)
                /\ OrdersOf(Tail(dispatcher)[i]) \subseteq Traders
                /\ OrdersOf(Head(dispatcher)) \cap OrdersOf(Tail(dispatcher)[i]) = {}
                /\ \A t \in OrdersOf(Tail(dispatcher)[i]) : phase[t] = "posted" /\ t \notin Elements(batch)
                /\ \A j \in DOMAIN Tail(dispatcher) :
                     i # j => OrdersOf(Tail(dispatcher)[i]) \cap OrdersOf(Tail(dispatcher)[j]) = {}
<1> USE DEF ServiceInv, TypeOK, EachInItsPlace
<1>1. /\ Head(dispatcher) \in Task /\ 1 \in DOMAIN dispatcher /\ Head(dispatcher) = dispatcher[1]
      /\ \A i \in DOMAIN Tail(dispatcher) :
           i + 1 \in DOMAIN dispatcher /\ i + 1 # 1 /\ Tail(dispatcher)[i] = dispatcher[i + 1]
      /\ \A i, j \in DOMAIN Tail(dispatcher) : i + 1 = j + 1 => i = j
  BY TailElements
<1>2. \A i \in DOMAIN dispatcher : dispatcher[i] \in Task
  OBVIOUS
<1>3. \A i \in DOMAIN dispatcher : OrdersOf(dispatcher[i]) \subseteq Traders
  BY <1>2, OrdersTyped
<1> QED BY <1>1, <1>2, <1>3 DEF PostedApart

\* When the first task is taken, the others stay apart if their orders keep their
\* phase and stay out of the batch.
LEMMA OtherTasks ==
    ASSUME ServiceInv, dispatcher # <<>>, dispatcher' = Tail(dispatcher),
           \A t \in Traders : phase[t] = "posted" /\ t \notin OrdersOf(Head(dispatcher)) => phase'[t] = phase[t],
           Elements(batch)' \subseteq Elements(batch) \cup OrdersOf(Head(dispatcher))
    PROVE  PostedApart'
<1> SUFFICES ASSUME NEW i \in DOMAIN dispatcher'
             PROVE  /\ dispatcher'[i].op = "request" => Distinct(dispatcher'[i].orders)
                    /\ \A t \in OrdersOf(dispatcher'[i]) : phase'[t] = "posted" /\ t \notin Elements(batch)'
                    /\ \A j \in DOMAIN dispatcher' :
                         i # j => OrdersOf(dispatcher'[i]) \cap OrdersOf(dispatcher'[j]) = {}
  BY DEF PostedApart, OrdersOf, Distinct, Elements
<1> QED BY FirstTask

LEMMA PlacesOnTask ==
    ASSUME ServiceInv, CreateAlgoOrders \/ RefuseRequest \/ PopQueue \/ CountPopped
    PROVE  EachInItsPlace'
<1> USE DEF ServiceInv, TypeOK, EachInItsPlace
<1>0. Elements(batch) \subseteq Traders /\ Elements(btQueue) \subseteq Traders
  BY DEF Elements
<1>1. CASE CreateAlgoOrders
  <2>1. /\ dispatcher # <<>> /\ Head(dispatcher).op = "request" /\ dispatcher' = Tail(dispatcher)
        /\ batch' = Head(dispatcher).orders /\ UNCHANGED <<phase, btQueue>>
    BY <1>1 DEF CreateAlgoOrders
  <2>2. Elements(batch)' = OrdersOf(Head(dispatcher))
    BY <2>1 DEF OrdersOf, Elements
  <2>3. PostedApart'
    BY <2>1, <2>2, OtherTasks
  <2>4. BatchApart'
    BY <2>1, <2>2, FirstTask DEF BatchApart, Distinct
  <2>5. QueueApart'
    BY <2>1 DEF QueueApart, Distinct, Elements
  <2> QED BY <2>3, <2>4, <2>5
<1>2. CASE RefuseRequest
  <2>1. /\ dispatcher # <<>> /\ Head(dispatcher).op = "request" /\ dispatcher' = Tail(dispatcher)
        /\ UNCHANGED <<batch, btQueue>>
        /\ \A t \in Traders : phase'[t] = IF t \in OrdersOf(Head(dispatcher)) THEN "done" ELSE phase[t]
    BY <1>2 DEF RefuseRequest, OrdersOf
  <2>2. PostedApart'
    BY <2>1, OtherTasks DEF Elements
  <2>3. BatchApart' /\ QueueApart'
    BY <1>0, <2>1, FirstTask DEF BatchApart, QueueApart, Distinct, Elements
  <2> QED BY <2>2, <2>3
<1>3. CASE PopQueue
  <2>1. /\ dispatcher # <<>> /\ Head(dispatcher).op = "pop" /\ dispatcher' = Tail(dispatcher)
        /\ UNCHANGED batch
    BY <1>3 DEF PopQueue
  <2>2. CASE btQueue = <<>>
    <3>1. UNCHANGED <<phase, btQueue>>
      BY <1>3, <2>2 DEF PopQueue
    <3> QED BY <1>0, <2>1, <3>1, OtherTasks DEF BatchApart, QueueApart, Distinct, Elements
  <2>3. CASE btQueue # <<>>
    <3>1. /\ Head(btQueue) \in Traders /\ Head(btQueue) \in Elements(btQueue)
          /\ Elements(Tail(btQueue)) \subseteq Elements(btQueue)
      BY <2>3, TailElements
    <3>2. Distinct(Tail(btQueue)) /\ Head(btQueue) \notin Elements(Tail(btQueue))
      BY <2>3, DistinctTail DEF QueueApart
    <3>3. /\ btQueue' = Tail(btQueue)
          /\ \A t \in Traders : phase'[t] = IF t = Head(btQueue) THEN "running" ELSE phase[t]
      BY <1>3, <2>3, <3>1 DEF PopQueue
    <3>4. phase[Head(btQueue)] = "queued"
      BY <3>1 DEF QueueApart
    <3>5. PostedApart'
      BY <2>1, <3>3, <3>4, OtherTasks DEF Elements
    <3>6. BatchApart'
      BY <1>0, <2>1, <3>3, <3>4 DEF BatchApart, Distinct, Elements
    <3>7. QueueApart'
      BY <1>0, <3>1, <3>2, <3>3 DEF QueueApart
    <3> QED BY <3>5, <3>6, <3>7
  <2> QED BY <2>2, <2>3
<1>4. CASE CountPopped
  <2>1. UNCHANGED <<dispatcher, batch, btQueue, phase>>
    BY <1>4 DEF CountPopped
  <2>2. PostedApart'
    <3>1. Elements(batch)' = Elements(batch)
      BY <2>1 DEF Elements
    <3> SUFFICES ASSUME NEW i \in DOMAIN dispatcher'
                 PROVE  /\ dispatcher'[i].op = "request" => Distinct(dispatcher'[i].orders)
                        /\ \A u \in OrdersOf(dispatcher'[i]) : phase'[u] = "posted" /\ u \notin Elements(batch)'
                        /\ \A j \in DOMAIN dispatcher' :
                             i # j => OrdersOf(dispatcher'[i]) \cap OrdersOf(dispatcher'[j]) = {}
      BY DEF PostedApart, OrdersOf, Distinct, Elements
    <3> QED BY <2>1, <3>1 DEF PostedApart
  <2>3. BatchApart' /\ QueueApart'
    BY <2>1 DEF BatchApart, QueueApart, Distinct, Elements
  <2> QED BY <2>2, <2>3
<1> QED BY <1>1, <1>2, <1>3, <1>4

\* A step that only moves the phase of traders which wait nowhere.
LEMMA PlacesElsewhere ==
    ASSUME ServiceInv, UNCHANGED <<batch, btQueue>>,
           \A t \in Traders : phase[t] \in {"posted", "queued"} => phase'[t] = phase[t],
           UNCHANGED dispatcher \/ \E t \in Traders : dispatcher' = Append(dispatcher, PopTask(t))
    PROVE  EachInItsPlace'
<1> USE DEF ServiceInv, TypeOK, EachInItsPlace
<1>1. Elements(batch) \subseteq Traders /\ Elements(btQueue) \subseteq Traders
  BY DEF Elements
<1>2. \A i \in DOMAIN dispatcher : OrdersOf(dispatcher[i]) \subseteq Traders
  BY OrdersTyped
<1>3. ASSUME NEW i \in DOMAIN dispatcher'
      PROVE  \/ i \in DOMAIN dispatcher /\ dispatcher'[i] = dispatcher[i]
             \/ OrdersOf(dispatcher'[i]) = {} /\ dispatcher'[i].op = "pop"
  <2>1. CASE UNCHANGED dispatcher
    BY <1>3, <2>1
  <2>2. ASSUME NEW t \in Traders, dispatcher' = Append(dispatcher, PopTask(t))
        PROVE  \/ i \in DOMAIN dispatcher /\ dispatcher'[i] = dispatcher[i]
               \/ OrdersOf(dispatcher'[i]) = {} /\ dispatcher'[i].op = "pop"
    <3>1. PopTask(t) \in Task /\ OrdersOf(PopTask(t)) = {} /\ PopTask(t).op = "pop"
      BY DEF PopTask, Task, OrdersOf
    <3> QED BY <1>3, <2>2, <3>1, AppendElements
  <2> QED BY <2>1, <2>2
<1>4. PostedApart'
  <2> SUFFICES ASSUME NEW i \in DOMAIN dispatcher'
               PROVE  /\ dispatcher'[i].op = "request" => Distinct(dispatcher'[i].orders)
                      /\ \A t \in OrdersOf(dispatcher'[i]) : phase'[t] = "posted" /\ t \notin Elements(batch)'
                      /\ \A j \in DOMAIN dispatcher' :
                           i # j => OrdersOf(dispatcher'[i]) \cap OrdersOf(dispatcher'[j]) = {}
    BY DEF PostedApart, OrdersOf, Distinct, Elements
  <2>1. Elements(batch)' = Elements(batch)
    BY DEF Elements
  <2>2. dispatcher'[i].op = "request" => Distinct(dispatcher'[i].orders)
    BY <1>3 DEF PostedApart
  <2>3. \A t \in OrdersOf(dispatcher'[i]) : phase'[t] = "posted" /\ t \notin Elements(batch)'
    BY <1>2, <1>3, <2>1 DEF PostedApart
  <2>4. \A j \in DOMAIN dispatcher' : i # j => OrdersOf(dispatcher'[i]) \cap OrdersOf(dispatcher'[j]) = {}
    BY <1>3 DEF PostedApart
  <2> QED BY <2>2, <2>3, <2>4
<1>5. BatchApart' /\ QueueApart'
  BY <1>1 DEF BatchApart, QueueApart, Distinct, Elements
<1> QED BY <1>4, <1>5

LEMMA PlacesOnEnd ==
    ASSUME ServiceInv, NEW t \in Traders, TraderStep(t)
    PROVE  EachInItsPlace'
<1>1. phase[t] \in {"running", "ended", "released"} /\ UNCHANGED <<batch, btQueue>>
  BY DEF TraderStep, FinishLive, FinishBackTest, ReleaseContexts, PostPop
<1>2. \A u \in Traders : u # t => phase'[u] = phase[u]
  BY DEF TraderStep, FinishLive, FinishBackTest, ReleaseContexts, PostPop, ServiceInv, TypeOK
<1>3. UNCHANGED dispatcher \/ dispatcher' = Append(dispatcher, PopTask(t))
  BY DEF TraderStep, FinishLive, FinishBackTest, ReleaseContexts, PostPop
<1> QED BY <1>1, <1>2, <1>3, PlacesElsewhere

LEMMA PlacesOnOrder ==
    ASSUME ServiceInv, NEW t \in Traders, Dispatch(t)
    PROVE  EachInItsPlace'
<1> USE DEF ServiceInv, TypeOK, EachInItsPlace
<1>1. batch # <<>> /\ t = Head(batch) /\ batch' = Tail(batch) /\ UNCHANGED dispatcher
  BY DEF Dispatch, RejectOrder, StartLive, QueueBackTest, StartBackTest, Dispatching
<1>2. t \in Elements(batch) /\ Elements(batch)' \subseteq Elements(batch)
  BY <1>1, TailElements DEF Elements
<1>3. Distinct(batch)' /\ t \notin Elements(batch)'
  BY <1>1, DistinctTail DEF BatchApart, Distinct, Elements
<1>4. phase[t] = "posted" /\ \A u \in Traders : u # t => phase'[u] = phase[u]
  BY <1>2 DEF Dispatch, RejectOrder, StartLive, QueueBackTest, StartBackTest, BatchApart
<1>5. Elements(batch) \subseteq Traders /\ Elements(btQueue) \subseteq Traders
  BY DEF Elements
<1>6. \A i \in DOMAIN dispatcher : OrdersOf(dispatcher[i]) \subseteq Traders
  BY OrdersTyped
<1>7. PostedApart'
  <2> SUFFICES ASSUME NEW i \in DOMAIN dispatcher'
               PROVE  /\ dispatcher'[i].op = "request" => Distinct(dispatcher'[i].orders)
                      /\ \A u \in OrdersOf(dispatcher'[i]) : phase'[u] = "posted" /\ u \notin Elements(batch)'
                      /\ \A j \in DOMAIN dispatcher' :
                           i # j => OrdersOf(dispatcher'[i]) \cap OrdersOf(dispatcher'[j]) = {}
    BY DEF PostedApart, OrdersOf, Distinct, Elements
  <2> QED BY <1>1, <1>2, <1>4, <1>6 DEF PostedApart
<1>8. BatchApart'
  BY <1>2, <1>3, <1>4, <1>5 DEF BatchApart
<1>9. QueueApart'
  <2>1. t \notin Elements(btQueue)
    BY <1>4 DEF QueueApart
  <2>2. CASE QueueBackTest(t)
    <3>1. btQueue' = Append(btQueue, t) /\ t \in BackTest /\ phase'[t] = "queued"
      BY <2>2 DEF QueueBackTest
    <3>2. Distinct(btQueue)' /\ Elements(btQueue)' = Elements(btQueue) \cup {t}
      BY <2>1, <3>1, AppendElements, DistinctAppend DEF QueueApart, Distinct, Elements
    <3> QED BY <1>4, <1>5, <2>1, <3>1, <3>2 DEF QueueApart
  <2>3. CASE ~QueueBackTest(t)
    <3>1. UNCHANGED btQueue
      BY <2>3 DEF Dispatch, RejectOrder, StartLive, StartBackTest
    <3> QED BY <1>4, <1>5, <2>1, <3>1 DEF QueueApart, Distinct, Elements
  <2> QED BY <2>2, <2>3
<1> QED BY <1>7, <1>8, <1>9

LEMMA StartableStep ==
    ASSUME ServiceInv, [Next]_vars
    PROVE  OnlyStartable' /\ OneTask'
<1> USE DEF ServiceInv, TypeOK, OnlyStartable, Supported, OneTask
<1>1. ASSUME NEW orders \in CreateRequests, RecvRequest(orders) PROVE OnlyStartable' /\ OneTask'
  <2>1. RequestTask(orders) \in Task /\ RequestTask(orders).op = "request"
    BY DEF RequestTask, Task
  <2>2. \A i \in DOMAIN dispatcher' : dispatcher'[i].op = "pop" =>
          i \in DOMAIN dispatcher /\ dispatcher'[i] = dispatcher[i]
    BY <1>1, <2>1, AppendElements DEF RecvRequest
  <2>3. \A t \in Traders : phase'[t] \in {phase[t], "posted"}
    BY <1>1 DEF RecvRequest
  <2> QED BY <1>1, <2>2, <2>3, ServiceAssumption DEF RecvRequest
<1>2. CASE CreateAlgoOrders \/ RefuseRequest \/ PopQueue
  <2>1. dispatcher # <<>> /\ dispatcher' = Tail(dispatcher) /\ batch = <<>> /\ popping = NoTrader
    BY <1>2 DEF CreateAlgoOrders, RefuseRequest, PopQueue, DispatcherIdle
  <2>2. \A i \in DOMAIN dispatcher' : i + 1 \in DOMAIN dispatcher /\ dispatcher'[i] = dispatcher[i + 1]
    BY <2>1, TailElements
  <2>3. CASE CreateAlgoOrders \/ RefuseRequest
    <3>1. \A t \in Traders : phase'[t] \in {phase[t], "done"}
      BY <2>3 DEF CreateAlgoOrders, RefuseRequest
    <3>2. UNCHANGED <<category, popping>>
      BY <2>3 DEF CreateAlgoOrders, RefuseRequest
    <3> QED BY <2>1, <2>2, <3>1, <3>2, ServiceAssumption
  <2>4. CASE PopQueue
    <3>1. UNCHANGED <<category, batch>>
      BY <2>4 DEF PopQueue
    <3>2. Head(dispatcher).op = "pop" => Head(dispatcher).trader \in BackTest /\ Supported(Head(dispatcher).trader)
      BY <2>1, TailElements
    <3>3. popping' # NoTrader => popping' \in BackTest /\ Supported(popping')
      BY <2>1, <2>4, <3>2 DEF PopQueue
    <3>4. ASSUME NEW t \in Traders, phase'[t] # phase[t]
          PROVE t \in BackTest /\ Supported(t)
      <4>1. btQueue # <<>> /\ t = Head(btQueue)
        BY <2>4, <3>4 DEF PopQueue
      <4>2. t \in Elements(btQueue)
        BY <4>1, TailElements
      <4> QED BY <4>2 DEF EachInItsPlace, QueueApart
    <3>5. /\ \A t \in BackTest : phase'[t] \in {"queued", "running", "ended", "released"} => Supported(t)
          /\ \A t \in Traders : phase'[t] \in {"ended", "released"} => t \in BackTest
      BY <3>4, ServiceAssumption
    <3> QED BY <2>1, <2>2, <3>1, <3>3, <3>5
  <2> QED BY <1>2, <2>3, <2>4
<1>3. CASE CountPopped
  BY <1>3 DEF CountPopped
<1>4. ASSUME NEW t \in Traders, Dispatch(t) PROVE OnlyStartable' /\ OneTask'
  <2>1. UNCHANGED <<category, dispatcher, popping>> /\ batch # <<>>
    BY <1>4 DEF Dispatch, RejectOrder, StartLive, QueueBackTest, StartBackTest, Dispatching
  <2>2. \A u \in Traders : u # t => phase'[u] = phase[u]
    BY <1>4 DEF Dispatch, RejectOrder, StartLive, QueueBackTest, StartBackTest
  <2>3. phase'[t] = "done" \/ (Supported(t) /\ phase'[t] \in {"running", "queued"})
    BY <1>4 DEF Dispatch, RejectOrder, StartLive, QueueBackTest, StartBackTest
  <2> QED BY <2>1, <2>2, <2>3, ServiceAssumption
<1>5. ASSUME NEW t \in Traders, TraderStep(t) PROVE OnlyStartable' /\ OneTask'
  <2>1. UNCHANGED <<category, batch, popping>>
    BY <1>5 DEF TraderStep, FinishLive, FinishBackTest, ReleaseContexts, PostPop
  <2>2. \A u \in Traders : u # t => phase'[u] = phase[u]
    BY <1>5 DEF TraderStep, FinishLive, FinishBackTest, ReleaseContexts, PostPop
  <2>3. phase'[t] = "done" \/ (t \in BackTest /\ Supported(t) /\ phase'[t] \in {"ended", "released"})
    BY <1>5 DEF TraderStep, FinishLive, FinishBackTest, ReleaseContexts, PostPop
  <2>4. \/ UNCHANGED dispatcher
        \/ dispatcher' = Append(dispatcher, PopTask(t)) /\ t \in BackTest /\ Supported(t)
    BY <1>5 DEF TraderStep, FinishLive, FinishBackTest, ReleaseContexts, PostPop
  <2>5. \A i \in DOMAIN dispatcher' : dispatcher'[i].op = "pop" =>
          dispatcher'[i].trader \in BackTest /\ Supported(dispatcher'[i].trader)
    <3>1. PopTask(t) \in Task /\ PopTask(t).trader = t
      BY DEF PopTask, Task
    <3>2. CASE dispatcher' = Append(dispatcher, PopTask(t)) /\ t \in BackTest /\ Supported(t)
      BY <3>1, <3>2, AppendElements
    <3> QED BY <2>4, <3>2
  <2> QED BY <2>1, <2>2, <2>3, <2>5, ServiceAssumption
<1>6. CASE UNCHANGED vars
  BY <1>6 DEF vars
<1> QED BY <1>1, <1>2, <1>3, <1>4, <1>5, <1>6 DEF Next, DispatcherStep

LEMMA ServiceStep == ServiceInv /\ [Next]_vars => ServiceInv'
<1> SUFFICES ASSUME ServiceInv, [Next]_vars PROVE ServiceInv'
  OBVIOUS
<1>1. TypeOK'
  BY TypeStep DEF ServiceInv
<1>2. EachInItsPlace'
  <2>1. CASE UNCHANGED vars
    <3>1. /\ UNCHANGED <<batch, btQueue, dispatcher>>
          /\ \A t \in Traders : phase[t] \in {"posted", "queued"} => phase'[t] = phase[t]
      BY <2>1 DEF vars
    <3> QED BY <3>1, PlacesElsewhere
  <2> QED BY <2>1, PlacesOnRequest, PlacesOnTask, PlacesOnEnd, PlacesOnOrder DEF Next, DispatcherStep
<1> QED BY <1>1, <1>2, StartableStep DEF ServiceInv

-----------------------------------------------------------------------------
(* The counters *)

LEMMA WrapsUp ==
    ASSUME NEW counter \in 0..(CounterSize - 1), NEW n \in Int, n + 1 < CounterSize, Wraps(counter, n)
    PROVE  Wraps(Plus(counter), n + 1)
<1>1. CounterSize \in Nat
  BY ServiceAssumption
<1> QED BY <1>1, CounterSteps DEF Wraps

LEMMA WrapsDown ==
    ASSUME NEW counter \in 0..(CounterSize - 1), NEW n \in Nat, Wraps(counter, n)
    PROVE  Wraps(Minus(counter), n - 1)
<1>1. CounterSize \in Nat
  BY ServiceAssumption
<1> QED BY <1>1, CounterSteps DEF Wraps

\* There are fewer traders than a counter counts.
LEMMA BackTestsCounted ==
    ASSUME NEW S, S \subseteq BackTest
    PROVE  IsFiniteSet(S) /\ Cardinality(S) \in Nat /\ Cardinality(S) < CounterSize
  BY ServiceAssumption, FS_Subset, FS_CardinalityType

\* What the counters count when one backtest joins, or leaves.
LEMMA OneMore ==
    ASSUME NEW S, S \subseteq BackTest, NEW t \in BackTest \ S
    PROVE  Cardinality(S \cup {t}) = Cardinality(S) + 1
  BY BackTestsCounted, FS_AddElement

LEMMA OneLess ==
    ASSUME NEW S, S \subseteq BackTest, NEW t \in S
    PROVE  Cardinality(S \ {t}) = Cardinality(S) - 1
  BY BackTestsCounted, FS_RemoveElement

\* A step that changes neither counter nor any backtest that is counted.
LEMMA LagKept ==
    ASSUME CountersLag, UNCHANGED <<category, runningBt, costMuti, popping>>,
           \A t \in BackTest : \A p \in {"running", "ended"} : phase'[t] = p <=> phase[t] = p
    PROVE  CountersLag'
<1>1. Active' = Active /\ Holding' = Holding
  BY DEF Active, Holding, BackTestsIn, CostsMutiContext
<1>2. Uncounted' = Uncounted /\ UncountedMuti' = UncountedMuti
  BY DEF Uncounted, UncountedMuti, CostsMutiContext
<1> QED BY <1>1, <1>2 DEF CountersLag, Wraps

LEMMA SetsTyped ==
    /\ Active \subseteq BackTest /\ Holding \subseteq BackTest
    /\ Uncounted \in {0, 1} /\ UncountedMuti \in {0, 1}
  BY DEF Active, Holding, BackTestsIn, Uncounted, UncountedMuti

LEMMA LagOnStart ==
    ASSUME CountInv, NEW t \in Traders, StartBackTest(t)
    PROVE  CountersLag'
<1> USE DEF CountInv, ServiceInv, TypeOK, CountersLag
<1>1. /\ t \in BackTest /\ batch # <<>> /\ t = Head(batch)
      /\ runningBt' = Plus(runningBt)
      /\ costMuti' = (IF CostsMutiContext(t) THEN Plus(costMuti) ELSE costMuti)
      /\ UNCHANGED <<category, popping>>
      /\ phase' = [phase EXCEPT ![t] = "running"]
  BY DEF StartBackTest, Dispatching
<1>2. phase[t] = "posted"
  BY <1>1, TailElements DEF EachInItsPlace, BatchApart
<1>3. t \notin Active /\ Active' = Active \cup {t}
  BY <1>1, <1>2 DEF Active, BackTestsIn
<1>4. t \notin Holding /\ Holding' = IF CostsMutiContext(t) THEN Holding \cup {t} ELSE Holding
  BY <1>1, <1>2 DEF Holding, BackTestsIn, CostsMutiContext
<1>5. Uncounted = 0 /\ Uncounted' = 0 /\ UncountedMuti = 0 /\ UncountedMuti' = 0
  BY <1>1 DEF OneTask, Uncounted, UncountedMuti
<1>6. /\ Active' \subseteq BackTest /\ Holding' \subseteq BackTest
      /\ Active \subseteq BackTest /\ Holding \subseteq BackTest
  BY <1>1, <1>3, <1>4, SetsTyped
<1>7. /\ Cardinality(Active) \in Nat /\ Cardinality(Active') = Cardinality(Active) + 1
      /\ Cardinality(Active') < CounterSize
  BY <1>1, <1>3, <1>6, OneMore, BackTestsCounted
<1>8. Wraps(runningBt', Cardinality(Active'))
  BY <1>1, <1>5, <1>7, WrapsUp
<1>9. Wraps(costMuti', Cardinality(Holding'))
  <2>1. Cardinality(Holding) \in Nat /\ Wraps(costMuti, Cardinality(Holding))
    BY <1>5, <1>6, BackTestsCounted
  <2>2. CASE CostsMutiContext(t)
    <3>1. Cardinality(Holding') = Cardinality(Holding) + 1 /\ Cardinality(Holding') < CounterSize
      BY <1>1, <1>4, <1>6, <2>2, OneMore, BackTestsCounted
    <3> QED BY <1>1, <2>1, <2>2, <3>1, WrapsUp
  <2>3. CASE ~CostsMutiContext(t)
    BY <1>1, <1>4, <2>1, <2>3
  <2> QED BY <2>2, <2>3
<1>10. Cardinality(Active') \in Nat /\ Cardinality(Holding') \in Nat
  BY <1>6, BackTestsCounted
<1>11. Wraps(runningBt', Cardinality(Active') - 0) /\ Wraps(costMuti', Cardinality(Holding') - 0)
  BY <1>8, <1>9, <1>10
<1> QED BY <1>5, <1>11 DEF Wraps

LEMMA LagOnFinish ==
    ASSUME CountInv, NEW t \in Traders, FinishBackTest(t)
    PROVE  CountersLag'
<1> USE DEF CountInv, ServiceInv, TypeOK, CountersLag
<1>1. /\ t \in BackTest /\ phase[t] = "running"
      /\ runningBt' = Minus(runningBt)
      /\ UNCHANGED <<category, costMuti, popping>>
      /\ phase' = [phase EXCEPT ![t] = "ended"]
  BY DEF FinishBackTest
<1>2. t \in Active /\ Active' = Active \ {t}
  BY <1>1 DEF Active, BackTestsIn
<1>3. Holding' = Holding
  BY <1>1 DEF Holding, BackTestsIn, CostsMutiContext
<1>4. Uncounted' = Uncounted /\ UncountedMuti' = UncountedMuti
  BY <1>1 DEF Uncounted, UncountedMuti, CostsMutiContext
<1>5. /\ Cardinality(Active) \in Nat /\ Cardinality(Active') \in Nat
      /\ Cardinality(Active') = Cardinality(Active) - 1
  BY <1>2, SetsTyped, OneLess, BackTestsCounted
<1>6. Cardinality(Active) - Uncounted \in Nat
  BY <1>5, SetsTyped
<1>7. Wraps(Minus(runningBt), (Cardinality(Active) - Uncounted) - 1)
  BY <1>6, WrapsDown
<1>8. (Cardinality(Active) - Uncounted) - 1 = Cardinality(Active') - Uncounted
  BY <1>5, SetsTyped
<1> QED BY <1>1, <1>3, <1>4, <1>7, <1>8 DEF Wraps

LEMMA LagOnRelease ==
    ASSUME CountInv, NEW t \in Traders, ReleaseContexts(t)
    PROVE  CountersLag'
<1> USE DEF CountInv, ServiceInv, TypeOK, CountersLag
<1>1. /\ t \in BackTest /\ phase[t] = "ended"
      /\ costMuti' = (IF CostsMutiContext(t) THEN Minus(costMuti) ELSE costMuti)
      /\ UNCHANGED <<category, runningBt, popping>>
      /\ phase' = [phase EXCEPT ![t] = "released"]
  BY DEF ReleaseContexts, OnlyStartable
<1>2. Active' = Active
  BY <1>1 DEF Active, BackTestsIn
<1>3. Uncounted' = Uncounted /\ UncountedMuti' = UncountedMuti
  BY <1>1 DEF Uncounted, UncountedMuti, CostsMutiContext
<1>4. Wraps(costMuti', Cardinality(Holding') - UncountedMuti)
  <2>1. CASE CostsMutiContext(t)
    <3>1. t \in Holding /\ Holding' = Holding \ {t}
      BY <1>1, <2>1 DEF Holding, BackTestsIn, CostsMutiContext
    <3>2. /\ Cardinality(Holding) \in Nat /\ Cardinality(Holding') \in Nat
          /\ Cardinality(Holding') = Cardinality(Holding) - 1
      BY <3>1, SetsTyped, OneLess, BackTestsCounted
    <3>3. Cardinality(Holding) - UncountedMuti \in Nat
      BY <3>2, SetsTyped
    <3>4. Wraps(Minus(costMuti), (Cardinality(Holding) - UncountedMuti) - 1)
      BY <3>3, WrapsDown
    <3>5. (Cardinality(Holding) - UncountedMuti) - 1 = Cardinality(Holding') - UncountedMuti
      BY <3>2, SetsTyped
    <3> QED BY <1>1, <2>1, <3>4, <3>5
  <2>2. CASE ~CostsMutiContext(t)
    <3>1. Holding' = Holding
      BY <1>1, <2>2 DEF Holding, BackTestsIn, CostsMutiContext
    <3> QED BY <1>1, <2>2, <3>1
  <2> QED BY <2>1, <2>2
<1> QED BY <1>1, <1>2, <1>3, <1>4 DEF Wraps

\* The popped trader runs, and its counters are still one behind.
LEMMA LagOnPop ==
    ASSUME SameCategory, CountInv, PopQueue, btQueue # <<>>
    PROVE  CountersLag'
<1> USE DEF CountInv, ServiceInv, TypeOK, CountersLag
<1> DEFINE h == Head(btQueue)
<1>1. /\ dispatcher # <<>> /\ popping = NoTrader /\ popping' = Head(dispatcher).trader
      /\ phase' = [phase EXCEPT ![h] = "running"]
      /\ UNCHANGED <<category, runningBt, costMuti>>
  BY DEF PopQueue, DispatcherIdle
<1>2. h \in BackTest /\ phase[h] = "queued" /\ Supported(h)
  <2>1. h \in Elements(btQueue)
    BY TailElements
  <2> QED BY <2>1 DEF EachInItsPlace, QueueApart, OnlyStartable
<1>3. popping' \in BackTest /\ Supported(popping')
  <2>1. Head(dispatcher).op = "pop" /\ 1 \in DOMAIN dispatcher /\ Head(dispatcher) = dispatcher[1]
    BY <1>1, TailElements DEF PopQueue
  <2> QED BY <1>1, <2>1 DEF OnlyStartable
<1>4. CostsMutiContext(popping') <=> CostsMutiContext(h)
  BY <1>2, <1>3 DEF SameCategory, Supported, CostsMutiContext
<1>5. popping' # NoTrader
  BY <1>3, ServiceAssumption
<1>6. h \notin Active /\ Active' = Active \cup {h}
  BY <1>1, <1>2, ServiceAssumption DEF Active, BackTestsIn
<1>7. h \notin Holding /\ Holding' = IF CostsMutiContext(h) THEN Holding \cup {h} ELSE Holding
  BY <1>1, <1>2, ServiceAssumption DEF Holding, BackTestsIn, CostsMutiContext
<1>8. /\ Uncounted = 0 /\ Uncounted' = 1
      /\ UncountedMuti = 0 /\ UncountedMuti' = IF CostsMutiContext(h) THEN 1 ELSE 0
  <2>1. CostsMutiContext(popping)' <=> CostsMutiContext(popping')
    BY <1>1 DEF CostsMutiContext
  <2> QED BY <1>1, <1>4, <1>5, <2>1 DEF Uncounted, UncountedMuti, CostsMutiContext
<1>9. /\ Cardinality(Active) \in Nat /\ Cardinality(Active') = Cardinality(Active) + 1
      /\ Cardinality(Holding) \in Nat
      /\ CostsMutiContext(h) => Cardinality(Holding') = Cardinality(Holding) + 1
  BY <1>2, <1>6, <1>7, SetsTyped, OneMore, BackTestsCounted
<1>10. Cardinality(Active') - Uncounted' = Cardinality(Active) - Uncounted
  BY <1>8, <1>9
<1>11. Cardinality(Holding') - UncountedMuti' = Cardinality(Holding) - UncountedMuti
  BY <1>7, <1>8, <1>9
<1> QED BY <1>1, <1>10, <1>11 DEF Wraps

LEMMA LagOnCount ==
    ASSUME CountInv, CountPopped
    PROVE  CountersLag'
<1> USE DEF CountInv, ServiceInv, TypeOK, CountersLag
<1>1. /\ popping # NoTrader /\ popping' = NoTrader
      /\ runningBt' = Plus(runningBt)
      /\ costMuti' = (IF CostsMutiContext(popping) THEN Plus(costMuti) ELSE costMuti)
      /\ UNCHANGED <<category, phase>>
  BY DEF CountPopped
<1>2. Active' = Active /\ Holding' = Holding
  BY <1>1 DEF Active, Holding, BackTestsIn, CostsMutiContext
<1>3. /\ Uncounted = 1 /\ Uncounted' = 0
      /\ UncountedMuti = (IF CostsMutiContext(popping) THEN 1 ELSE 0) /\ UncountedMuti' = 0
  BY <1>1 DEF Uncounted, UncountedMuti
<1>4. /\ Cardinality(Active) \in Nat /\ Cardinality(Active) < CounterSize
      /\ Cardinality(Holding) \in Nat /\ Cardinality(Holding) < CounterSize
  BY SetsTyped, BackTestsCounted
<1>5. Wraps(runningBt', Cardinality(Active) - 0)
  <2>1. Cardinality(Active) - 1 \in Int /\ (Cardinality(Active) - 1) + 1 = Cardinality(Active) - 0
    BY <1>4
  <2> QED BY <1>1, <1>3, <1>4, <2>1, WrapsUp
<1>6. Wraps(costMuti', Cardinality(Holding) - 0)
  <2>1. CASE CostsMutiContext(popping)
    <3>1. Cardinality(Holding) - 1 \in Int /\ (Cardinality(Holding) - 1) + 1 = Cardinality(Holding) - 0
      BY <1>4
    <3> QED BY <1>1, <1>3, <1>4, <2>1, <3>1, WrapsUp
  <2>2. CASE ~CostsMutiContext(popping)
    BY <1>1, <1>3, <2>2
  <2> QED BY <2>1, <2>2
<1> QED BY <1>2, <1>3, <1>5, <1>6 DEF Wraps

LEMMA LagStep ==
    ASSUME SameCategory, CountInv, [Next]_vars
    PROVE  CountersLag'
<1> USE DEF CountInv, ServiceInv, TypeOK
<1>0. BackTest \subseteq Traders
  BY ServiceAssumption
<1>1. ASSUME NEW orders \in CreateRequests, RecvRequest(orders) PROVE CountersLag'
  BY <1>0, <1>1, LagKept DEF RecvRequest
<1>2. CASE CreateAlgoOrders
  BY <1>2, LagKept DEF CreateAlgoOrders
<1>3. CASE RefuseRequest
  <2>1. /\ UNCHANGED <<category, runningBt, costMuti, popping>>
        /\ dispatcher # <<>> /\ Head(dispatcher).op = "request"
        /\ \A t \in Traders : phase'[t] = IF t \in Elements(Head(dispatcher).orders) THEN "done" ELSE phase[t]
    BY <1>3 DEF RefuseRequest
  <2>2. \A t \in Elements(Head(dispatcher).orders) : phase[t] = "posted"
    BY <2>1, FirstTask DEF OrdersOf
  <2> QED BY <1>0, <2>1, <2>2, LagKept
<1>4. CASE PopQueue
  <2>1. CASE btQueue = <<>>
    BY <1>4, <2>1, LagKept DEF PopQueue
  <2> QED BY <1>4, <2>1, LagOnPop
<1>5. CASE CountPopped
  BY <1>5, LagOnCount
<1>6. ASSUME NEW t \in Traders, Dispatch(t) PROVE CountersLag'
  <2>1. CASE StartBackTest(t)
    BY <2>1, LagOnStart
  <2>2. CASE RejectOrder(t) \/ StartLive(t) \/ QueueBackTest(t)
    <3>1. /\ UNCHANGED <<category, runningBt, costMuti, popping>>
          /\ batch # <<>> /\ t = Head(batch)
          /\ \A u \in Traders : u # t => phase'[u] = phase[u]
          /\ t \in BackTest => phase'[t] \in {"done", "queued"}
      BY <2>2 DEF RejectOrder, StartLive, QueueBackTest, Dispatching
    <3>2. phase[t] = "posted"
      BY <3>1, TailElements DEF EachInItsPlace, BatchApart
    <3> QED BY <1>0, <3>1, <3>2, LagKept
  <2> QED BY <1>6, <2>1, <2>2 DEF Dispatch
<1>7. ASSUME NEW t \in Traders, TraderStep(t) PROVE CountersLag'
  <2>1. CASE FinishLive(t) \/ PostPop(t)
    <3>1. /\ UNCHANGED <<category, runningBt, costMuti, popping>>
          /\ \A u \in Traders : u # t => phase'[u] = phase[u]
          /\ t \in BackTest => phase[t] = "released" /\ phase'[t] = "done"
      BY <2>1 DEF FinishLive, PostPop
    <3> QED BY <1>0, <3>1, LagKept
  <2> QED BY <1>7, <2>1, LagOnFinish, LagOnRelease DEF TraderStep
<1>8. CASE UNCHANGED vars
  <2>1. UNCHANGED <<category, runningBt, costMuti, popping, phase>>
    BY <1>8 DEF vars
  <2> QED BY <2>1, LagKept
<1> QED BY <1>1, <1>2, <1>3, <1>4, <1>5, <1>6, <1>7, <1>8 DEF Next, DispatcherStep

\* Every variable of the service has its type: the counters keep to 32 bits.
THEOREM ServiceTyped == Spec => []TypeOK
<1>1. Init => TypeOK
  <2>1. CounterSize \in Nat /\ CounterSize > 0
    BY ServiceAssumption, FS_CardinalityType
  <2> QED BY <2>1 DEF Init, TypeOK, Phases
<1> QED BY <1>1, TypeStep, PTL DEF Spec

-----------------------------------------------------------------------------
(* The wake-ups *)

LEMMA CountInvExact == CountInv => CountersExact
<1> SUFFICES ASSUME CountInv, popping = NoTrader
             PROVE  runningBt = Cardinality(Active) /\ costMuti = Cardinality(Holding)
  BY DEF CountersExact, Active, Holding
<1>1. Cardinality(Active) \in Nat /\ Cardinality(Holding) \in Nat
  BY SetsTyped, BackTestsCounted
<1>2. Uncounted = 0 /\ UncountedMuti = 0
  BY DEF Uncounted, UncountedMuti
<1> QED BY <1>1, <1>2 DEF CountInv, CountersLag, Wraps

\* Whoever may be running or ending still comes for the queue.
LEMMA WakeupKept ==
    ASSUME CountInv, btQueue # <<>>,
           \A t \in BackTest : phase[t] \in {"running", "ended", "released"} =>
             phase'[t] \in {"running", "ended", "released"},
           \A i \in DOMAIN dispatcher : dispatcher[i].op = "pop" =>
             \E j \in DOMAIN dispatcher' : dispatcher'[j].op = "pop"
    PROVE  WillPop'
<1>1. WillPop
  BY DEF CountInv, NoLostWakeup
<1>2. CASE BackTestsIn({"running", "ended", "released"}) # {}
  BY <1>2 DEF WillPop, BackTestsIn
<1>3. CASE \E i \in DOMAIN dispatcher : dispatcher[i].op = "pop"
  BY <1>3 DEF WillPop
<1> QED BY <1>1, <1>2, <1>3 DEF WillPop

\* A backtest is queued only when somebody still counts.
LEMMA WakeupOnQueue ==
    ASSUME CountInv, NEW t \in Traders, QueueBackTest(t)
    PROVE  WillPop'
<1> USE DEF CountInv, ServiceInv, TypeOK
<1>1. /\ batch # <<>> /\ t = Head(batch) /\ ShouldQueue
      /\ phase' = [phase EXCEPT ![t] = "queued"]
  BY DEF QueueBackTest, Dispatching
<1>2. runningBt = Cardinality(Active) /\ costMuti = Cardinality(Holding)
  BY <1>1, CountInvExact DEF OneTask, CountersExact, Active, Holding
<1>3. runningBt # 0 \/ costMuti # 0
  BY <1>1, ServiceAssumption DEF ShouldQueue
<1>4. Active # {} \/ Holding # {}
  BY <1>2, <1>3, FS_EmptySet
<1>5. PICK u \in BackTest : phase[u] \in {"running", "ended"}
  BY <1>4 DEF Active, Holding, BackTestsIn
<1>6. phase[t] = "posted"
  BY <1>1, TailElements DEF EachInItsPlace, BatchApart
<1>7. phase'[u] = phase[u]
  BY <1>1, <1>5, <1>6, ServiceAssumption
<1> QED BY <1>5, <1>7 DEF WillPop, BackTestsIn

LEMMA WakeupStep ==
    ASSUME CountInv, [Next]_vars
    PROVE  NoLostWakeup'
<1> SUFFICES ASSUME btQueue' # <<>> PROVE WillPop'
  BY DEF NoLostWakeup
<1> USE DEF CountInv, ServiceInv, TypeOK
<1>0. BackTest \subseteq Traders
  BY ServiceAssumption
<1>1. ASSUME NEW orders \in CreateRequests, RecvRequest(orders) PROVE WillPop'
  <2>1. \A t \in BackTest : phase[t] # "none" => phase'[t] = phase[t]
    BY <1>0, <1>1 DEF RecvRequest
  <2>2. \A i \in DOMAIN dispatcher : i \in DOMAIN dispatcher' /\ dispatcher'[i] = dispatcher[i]
    <3>1. RequestTask(orders) \in Task
      BY DEF RequestTask, Task
    <3> QED BY <1>1, <3>1, AppendElements DEF RecvRequest
  <2> QED BY <1>1, <2>1, <2>2, WakeupKept DEF RecvRequest
<1>2. CASE CreateAlgoOrders \/ RefuseRequest
  <2>1. /\ dispatcher # <<>> /\ dispatcher' = Tail(dispatcher) /\ Head(dispatcher).op = "request"
        /\ UNCHANGED btQueue
    BY <1>2 DEF CreateAlgoOrders, RefuseRequest
  <2>2. \A t \in BackTest : phase[t] \in {"running", "ended", "released"} => phase'[t] = phase[t]
    <3>1. \A t \in OrdersOf(Head(dispatcher)) : phase[t] = "posted"
      BY <2>1, FirstTask
    <3>2. \A t \in Traders : t \notin OrdersOf(Head(dispatcher)) => phase'[t] = phase[t]
      BY <1>2, <2>1 DEF CreateAlgoOrders, RefuseRequest, OrdersOf
    <3> QED BY <1>0, <3>1, <3>2
  <2>3. ASSUME NEW i \in DOMAIN dispatcher, dispatcher[i].op = "pop"
        PROVE  \E j \in DOMAIN dispatcher' : dispatcher'[j].op = "pop"
    <3>1. i # 1 /\ i - 1 \in DOMAIN dispatcher' /\ dispatcher'[i - 1] = dispatcher[i]
      BY <2>1, <2>3, TailElements
    <3> QED BY <2>3, <3>1
  <2> QED BY <2>1, <2>2, <2>3, WakeupKept
<1>3. CASE PopQueue
  <2>1. /\ btQueue # <<>>
        /\ phase' = [phase EXCEPT ![Head(btQueue)] = "running"]
    BY <1>3 DEF PopQueue
  <2>2. Head(btQueue) \in BackTest
    BY <2>1, TailElements DEF EachInItsPlace, QueueApart
  <2>3. phase'[Head(btQueue)] = "running"
    BY <1>0, <2>1, <2>2
  <2> QED BY <2>2, <2>3 DEF WillPop, BackTestsIn
<1>4. CASE CountPopped
  BY <1>4, WakeupKept DEF CountPopped
<1>5. ASSUME NEW t \in Traders, Dispatch(t) PROVE WillPop'
  <2>1. CASE RejectOrder(t) \/ StartLive(t) \/ StartBackTest(t)
    <3>1. /\ UNCHANGED <<dispatcher, btQueue>>
          /\ batch # <<>> /\ t = Head(batch)
          /\ \A u \in Traders : u # t => phase'[u] = phase[u]
      BY <2>1 DEF RejectOrder, StartLive, StartBackTest, Dispatching
    <3>2. phase[t] = "posted"
      BY <3>1, TailElements DEF EachInItsPlace, BatchApart
    <3> QED BY <1>0, <3>1, <3>2, WakeupKept
  <2> QED BY <1>5, <2>1, WakeupOnQueue DEF Dispatch
<1>6. ASSUME NEW t \in Traders, TraderStep(t) PROVE WillPop'
  <2>1. UNCHANGED btQueue /\ \A u \in Traders : u # t => phase'[u] = phase[u]
    BY <1>6 DEF TraderStep, FinishLive, FinishBackTest, ReleaseContexts, PostPop
  <2>2. CASE PostPop(t)
    <3>1. PopTask(t) \in Task /\ PopTask(t).op = "pop"
      BY DEF PopTask, Task
    <3>2. Len(dispatcher) + 1 \in DOMAIN dispatcher' /\ dispatcher'[Len(dispatcher) + 1] = PopTask(t)
      BY <2>2, <3>1, AppendElements DEF PostPop
    <3> QED BY <3>1, <3>2 DEF WillPop
  <2>3. CASE FinishLive(t) \/ FinishBackTest(t) \/ ReleaseContexts(t)
    <3>1. UNCHANGED dispatcher /\ (t \in BackTest => phase'[t] \in {"running", "ended", "released"})
      BY <2>3 DEF FinishLive, FinishBackTest, ReleaseContexts
    <3> QED BY <1>0, <2>1, <3>1, WakeupKept
  <2> QED BY <1>6, <2>2, <2>3 DEF TraderStep
<1>7. CASE UNCHANGED vars
  <2>1. UNCHANGED <<dispatcher, btQueue, phase>>
    BY <1>7 DEF vars
  <2> QED BY <2>1, WakeupKept
<1> QED BY <1>1, <1>2, <1>3, <1>4, <1>5, <1>6, <1>7 DEF Next, DispatcherStep

LEMMA CountInit == Init => CountInv
<1> SUFFICES ASSUME Init PROVE CountInv
  OBVIOUS
<1>1. CounterSize \in Nat /\ CounterSize > 0
  BY ServiceAssumption, FS_CardinalityType
<1>2. TypeOK
  BY <1>1 DEF Init, TypeOK, Phases
<1>3. EachInItsPlace /\ OnlyStartable /\ OneTask /\ NoLostWakeup
  BY ServiceAssumption
  DEF Init, EachInItsPlace, PostedApart, BatchApart, QueueApart, OnlyStartable, OneTask, NoLostWakeup,
      Distinct, Elements
<1>4. Active = {} /\ Holding = {}
  BY ServiceAssumption DEF Init, Active, Holding, BackTestsIn
<1>5. Cardinality(Active) = 0 /\ Cardinality(Holding) = 0
  BY <1>4, FS_EmptySet
<1>6. CountersLag
  BY <1>1, <1>5 DEF Init, CountersLag, Wraps, Uncounted, UncountedMuti
<1> QED BY <1>2, <1>3, <1>6 DEF CountInv, ServiceInv

LEMMA CountInvariant ==
    ASSUME SameCategory
    PROVE  Spec => []CountInv
<1>1. CountInv /\ [Next]_vars => CountInv'
  BY ServiceStep, LagStep, WakeupStep DEF CountInv
<1> QED BY <1>1, CountInit, PTL DEF Spec

\* When every backtest costs the same, the dispatcher never reads a wrong counter:
\* the decrements of a finished trader and the late count of a popped one cancel out,
\* even when a counter goes below zero in between.
THEOREM CountersAlwaysExact ==
    ASSUME SameCategory
    PROVE  Spec => []CountersExact
BY CountInvariant, CountInvExact, PTL

\* When every backtest costs the same, a queued backtest always has somebody left to
\* start it.
THEOREM WakeupsNeverLost ==
    ASSUME SameCategory
    PROVE  Spec => []NoLostWakeup
<1>1. CountInv => NoLostWakeup
  BY DEF CountInv
<1> QED BY <1>1, CountInvariant, PTL
==============================================================================
