--------------------------- MODULE ShotExecution ---------------------------
(***************************************************************************)
(* The intraday strategy (shot/ShotTrader.cpp) in its two forms.           *)
(*                                                                         *)
(* Alone and live, it watches quotes through a window                      *)
(* (quote/LimitedQueue.cpp), and each signal becomes a fusion order, which *)
(* AlgoPlacer carries out with an AlgoTrader of its own.  Everything runs  *)
(* on one context.                                                         *)
(*                                                                         *)
(* As the parent of a backtest over many stocks it splits them into        *)
(* sub-orders, starts one sub-trader per worker context, and the next one  *)
(* whenever one is done.  A sub-trader's coroutine, the callbacks of its   *)
(* quotes and the parent's context are three threads.                      *)
(***************************************************************************)
EXTENDS Integers, Sequences, FiniteSets, SequencesExt

CONSTANTS
    NumParts,      \* sub-orders of a parallel backtest
    NumWorkers,    \* worker contexts
    WindowSize,    \* SHOT_Watch_Window_TickSize
    RangePercent,  \* SHOT_Watch_Window_Range_Percent
    Confirm,       \* SHOT_Confirm_Duration_Seconds, in ticks
    Prices,        \* prices of the quotes
    StartTime,     \* the first tick the algo may act on
    MaxTicks,      \* bound on the quotes of a behaviour
    OrderQty,      \* size of a fusion order, in fills
    NoMd

ASSUME ShotAssumption ==
    /\ NumParts \in Nat \ {0} /\ NumWorkers \in Nat \ {0}
    /\ WindowSize \in Nat \ {0} /\ Prices \subseteq Nat \ {0}
    /\ {RangePercent, Confirm, StartTime, MaxTicks} \subseteq Nat
    /\ OrderQty \in Nat \ {0}

Parts == 1..NumParts
Quotes == [time : 1..MaxTicks, price : Prices]

VARIABLES
    parallel,      \* useMultiThread
    algoStatus,    \* algoPerf.algoStatus of the trader, or of the parent
    signalCount,   \* algoPerf.signalCount as last published
    \* alone:
    clock,         \* quotes so far
    watch,         \* the LimitedQueue: _shotQueue, lowPriceMd, highPriceMd
    signals,       \* symbol2Signals, in order: whether avgBuyPrice is above 0
    orders,        \* fusion orders, one per signal, and their traders' side
    orderId2algoContext,
    \* parent:
    subAlgoOrders, \* sub-orders not started
    subTraders,
    sub,           \* where each sub-order is
    subSignals,    \* sub-traders that have found a signal
    merged         \* whose signals the parent has taken over

aloneVars == <<clock, watch, signals, orders, orderId2algoContext>>
subVars == <<subAlgoOrders, subTraders, sub, subSignals, merged>>
vars == <<parallel, algoStatus, signalCount, aloneVars, subVars>>

FinalStatuses == {"Finished", "Terminated", "Error"}
IsStopped == algoStatus \in FinalStatuses

EmptyWatch == [queue |-> <<>>, low |-> NoMd, high |-> NoMd]

Init ==
    /\ parallel \in BOOLEAN
    /\ algoStatus = "Creating" /\ signalCount = 0
    /\ clock = 0 /\ watch = EmptyWatch /\ signals = <<>> /\ orders = <<>>
    /\ orderId2algoContext = {}
    /\ subAlgoOrders = <<>> /\ subTraders = {}
    /\ sub = [i \in Parts |-> "waiting"]
    /\ subSignals = {} /\ merged = {}

-----------------------------------------------------------------------------
(* The window of quotes *)

\* Wrong on purpose: the window grows one too long.
ShiftedLate(queue, md) ==
    IF Len(queue) > WindowSize THEN Append(Tail(queue), md) ELSE Append(queue, md)

\* append: the window keeps the last WindowSize quotes.
Shifted(queue, md) ==
    LET longer == Append(queue, md)
    IN  IF Len(longer) > WindowSize THEN Tail(longer) ELSE longer

\* resetLow: it moves on to a quote that is higher, and so ends at the first of
\* the highest.
ResetLow(queue) ==
    LET best == CHOOSE i \in DOMAIN queue :
            /\ \A k \in DOMAIN queue : queue[k].price <= queue[i].price
            /\ \A k \in 1..(i - 1) : queue[k].price < queue[i].price
    IN  queue[best]

\* The low to go on with before the new quote is looked at: a low that has left
\* the window is forgotten unless there is a high after it.
KeptLow(w) ==
    IF w.low = NoMd \/ (w.queue[1].time > w.low.time /\ w.high = NoMd)
    THEN ResetLow(w.queue) ELSE w.low

\* A new low forgets the high.
HighAfter(w, md) ==
    IF w.low # NoMd /\ md.price <= KeptLow(w).price /\ md.time > KeptLow(w).time
    THEN NoMd ELSE w.high

LowAfter(w, md) ==
    IF w.low # NoMd /\ md.price <= KeptLow(w).price /\ md.time > KeptLow(w).time
    THEN md ELSE KeptLow(w)

\* triggerShotMinMax: after a rise, a quote above the high is a signal when it
\* comes long enough after it, and the new high when it comes earlier.
TriggerShotMinMax(w, md) ==
    LET low  == LowAfter(w, md)
        rose == (md.price - low.price) * 100 > RangePercent * low.price
        high == IF rose /\ HighAfter(w, md) = NoMd THEN md ELSE HighAfter(w, md)
        breaks == high # NoMd /\ md.price > high.price /\ md.time > low.time
        signal == breaks /\ md.time - high.time > Confirm
    IN  [signal |-> signal,
         watch |-> [queue |-> w.queue,
                    low   |-> IF signal THEN NoMd ELSE low,
                    high  |-> IF signal THEN NoMd ELSE IF breaks THEN md ELSE high]]

IsReady(w) == Len(w.queue) >= WindowSize

-----------------------------------------------------------------------------
(* The end of a trader and its summary *)

\* performanceSummary: the first signal of each symbol counts if it was bought.
Counted(sigs, found) ==
    IF parallel THEN Cardinality(found)
    ELSE IF sigs # <<>> /\ sigs[1] THEN 1 ELSE 0

\* stop() with its release().  The feed is not unsubscribed, since the member that
\* would hold it is never set: later quotes find the trader stopped.
Stop(status, found) ==
    /\ algoStatus' = status
    /\ signalCount' = Counted(signals, found)
    /\ watch' = EmptyWatch

(* cancel(): every AlgoTrader in the placer's map is told; without any the trader
   stops at once.  What the AlgoTraders make of it is in AlgoExecution: nothing while
   they run; one that has stopped loses its final status, which has been reported
   and is not read again, or calls on its book, which is gone, and the process ends. *)
Cancel ==
    /\ ~IsStopped
    /\ IF orderId2algoContext # {}
       THEN algoStatus' = "Canceling" /\ UNCHANGED <<signalCount, watch>>
       ELSE Stop("Terminated", merged)
    /\ UNCHANGED <<parallel, clock, signals, orders, orderId2algoContext, subVars>>

\* Wrong on purpose: a trader does not wait for its orders.
NothingAsked == TRUE

\* hasPendingOrders() == 0
NonePending == orderId2algoContext = {}

(* One round of start()'s loop: a trader that is being cancelled stops after its
   last fusion order. *)
ShotLoop ==
    /\ algoStatus = "Canceling" /\ NonePending
    /\ Stop("Terminated", merged)
    /\ UNCHANGED <<parallel, clock, signals, orders, orderId2algoContext, subVars>>

(* start() without stocks or without a feed. *)
StartRefused ==
    /\ algoStatus = "Creating"
    /\ Stop("Error", merged)
    /\ UNCHANGED <<parallel, clock, signals, orders, orderId2algoContext, subVars>>

-----------------------------------------------------------------------------
(* Alone: quotes, signals and fusion orders *)

StartAlone ==
    /\ ~parallel /\ algoStatus = "Creating"
    /\ algoStatus' = "Running"
    /\ UNCHANGED <<parallel, signalCount, aloneVars, subVars>>

\* The order as AlgoPlacer reports it for a state of its AlgoTrader.
FusionStatus(algo, filled) ==
    CASE algo \in {"Terminated", "Expired"} -> IF filled > 0 THEN "PARTIALCANCEL"
                                                             ELSE "CANCELED"
      [] algo = "Error" -> "REJECTED"
      [] algo = "Finished" -> "FILLED"
      [] OTHER -> "NEW"

\* A fusion order whose trader is in this state; callback says whether the trader
\* still reports to the placer.
Fusion(algo, filled, callback) ==
    [algo |-> algo, filled |-> filled, callback |-> callback,
     status |-> FusionStatus(algo, filled)]

\* placeAlgoOrder: AlgoTrader::start runs at once up to its first wait.  If it
\* fails there it has reported, and its completion comes later all the same (that
\* stop() logs the time of a quote it has not got is taken to do no harm).
Placed == {Fusion("Running", 0, TRUE), Fusion("Error", 0, FALSE)}

(* onMarketDepth up to the end of trading: algoShot.  Before its start the algo
   only fills the window.  The algo has an amount to trade (with a quantity
   instead algoShot returns without a signal) and none of the optional filters. *)
OnMarketDepth(price) ==
    /\ ~parallel /\ algoStatus \in {"Running", "Canceling"} /\ clock < MaxTicks
    /\ clock' = clock + 1
    /\ LET md == [time |-> clock + 1, price |-> price]
           appended == [watch EXCEPT !.queue = Shifted(@, md)]
           acts == /\ clock + 1 >= StartTime
                   /\ IsReady(appended) /\ algoStatus = "Running"
           shot == TriggerShotMinMax(appended, md)
       IN  IF acts /\ shot.signal
           THEN \E o \in Placed :
                  /\ watch' = shot.watch
                  /\ signals' = Append(signals, FALSE)
                  /\ orders' = Append(orders, o)
                  /\ orderId2algoContext' = orderId2algoContext \cup {Len(orders) + 1}
           ELSE /\ watch' = IF acts THEN shot.watch ELSE appended
                /\ UNCHANGED <<signals, orders, orderId2algoContext>>
    /\ signalCount' = IF clock + 1 >= StartTime THEN Counted(signals', merged) ELSE signalCount
    /\ UNCHANGED <<parallel, algoStatus, subVars>>

\* onMarketDepth after the algo's end time.
QuoteAfterEnd ==
    /\ ~parallel /\ algoStatus \in {"Running", "Canceling"}
    /\ Stop("Finished", merged)
    /\ UNCHANGED <<parallel, clock, signals, orders, orderId2algoContext, subVars>>

\* AlgoPlacer::onAlgoPerformanceUpdate and onOrderUpdate of the shot trader.
Report(k, o) ==
    /\ orders' = [orders EXCEPT ![k] = o]
    /\ signals' = [signals EXCEPT ![k] = o.filled > 0]

(* An order of the AlgoTrader is filled.  One that has stopped reports no more. *)
AlgoUpdate(k) ==
    LET o == orders[k]
    IN  /\ o.filled < OrderQty /\ o.callback
        /\ Report(k, Fusion(o.algo, o.filled + 1, TRUE))
        /\ UNCHANGED <<parallel, algoStatus, signalCount, clock, watch,
                       orderId2algoContext, subVars>>

\* Wrong on purpose: the callback survives the stop.
EndedReporting(filled) ==
    Fusion(IF filled >= OrderQty THEN "Finished" ELSE "Expired", filled, TRUE)

Ended(filled) ==
    Fusion(IF filled >= OrderQty THEN "Finished" ELSE "Expired", filled, FALSE)

(* AlgoTrader::stop: one last report. *)
AlgoStop(k) ==
    /\ orders[k].algo = "Running"
    /\ Report(k, Ended(orders[k].filled))
    /\ UNCHANGED <<parallel, algoStatus, signalCount, clock, watch,
                   orderId2algoContext, subVars>>

\* Wrong on purpose: a trader that could not start stays in the map.
ErasedStarted(k) ==
    IF orders[k].algo = "Error" THEN orderId2algoContext ELSE orderId2algoContext \ {k}

Erased(k) == orderId2algoContext \ {k}

(* AlgoPlacer::onAlgoInstanceFinished, after the AlgoTrader's coroutine. *)
AlgoInstanceFinished(k) ==
    /\ orders[k].algo # "Running" /\ k \in orderId2algoContext
    /\ orderId2algoContext' = Erased(k)
    /\ UNCHANGED <<parallel, algoStatus, signalCount, clock, watch, signals, orders, subVars>>

-----------------------------------------------------------------------------
(* Parent: sub-traders on the worker contexts *)

Some(n) == IF n < NumWorkers THEN n ELSE NumWorkers

(* start() and createSubTask: the sub-orders at the back of the list get the
   first sub-traders.  No sub-order is without stocks, so preStartCheck lets every
   one pass.  What the sub-traders do meanwhile waits in the parent's context. *)
StartParallel ==
    /\ parallel /\ algoStatus = "Creating"
    /\ algoStatus' = "Running"
    /\ LET rest == NumParts - Some(NumParts)
       IN  /\ subAlgoOrders' = [i \in 1..rest |-> i]
           /\ subTraders' = (rest + 1)..NumParts
           /\ sub' = [i \in Parts |-> IF i > rest THEN "spawned" ELSE sub[i]]
    /\ UNCHANGED <<parallel, signalCount, aloneVars, subSignals, merged>>

SubMoves(i, from, to) == sub[i] = from /\ sub' = [sub EXCEPT ![i] = to]

(* start() of a sub-trader, on the context it was spawned on: without quotes in
   the data it stops at once. *)
SubStart(i) ==
    /\ SubMoves(i, "spawned", "running") \/ SubMoves(i, "spawned", "stopped")
    /\ UNCHANGED <<parallel, algoStatus, signalCount, aloneVars, subAlgoOrders, subTraders,
                   subSignals, merged>>

(* algoShot of a sub-trader, on its own context.  AlgoPlacer fills the order of a
   backtest at once. *)
SubSignal(i) ==
    /\ sub[i] = "running" /\ subSignals' = subSignals \cup {i}
    /\ UNCHANGED <<parallel, algoStatus, signalCount, aloneVars, subAlgoOrders, subTraders,
                   sub, merged>>

(* The sub-trader's replay ends and stops it, on its own context. *)
SubQuotesEnd(i) ==
    /\ SubMoves(i, "running", "stopped")
    /\ UNCHANGED <<parallel, algoStatus, signalCount, aloneVars, subAlgoOrders, subTraders,
                   subSignals, merged>>

(* The sub-trader's loop sees its final status; the completion dispatches the rest
   to the parent's context. *)
SubLoop(i) ==
    /\ SubMoves(i, "stopped", "completed")
    /\ UNCHANGED <<parallel, algoStatus, signalCount, aloneVars, subAlgoOrders, subTraders,
                   subSignals, merged>>

\* Wrong on purpose: the parent looks at the waiting sub-orders, not the traders.
NothingWaits(traders, waiting) == waiting = <<>>

\* subTraders.size()==0
AllDone(traders, waiting) == traders = {}

(* The task of onSubTaskBackTestDone: take over the signals, start the next
   sub-order, and stop after the last. *)
SubTaskBackTestDone(i) ==
    /\ sub[i] = "completed"
    /\ merged' = IF i \in subSignals THEN merged \cup {i} ELSE merged
    /\ IF subAlgoOrders # <<>>
       THEN /\ sub' = [sub EXCEPT ![i] = "merged", ![Last(subAlgoOrders)] = "spawned"]
            /\ subTraders' = (subTraders \cup {Last(subAlgoOrders)}) \ {i}
            /\ subAlgoOrders' = Front(subAlgoOrders)
       ELSE /\ sub' = [sub EXCEPT ![i] = "merged"]
            /\ subTraders' = subTraders \ {i}
            /\ UNCHANGED subAlgoOrders
    /\ IF AllDone(subTraders', subAlgoOrders') /\ ~IsStopped
       THEN Stop("Finished", merged')
       ELSE UNCHANGED <<algoStatus, signalCount, watch>>
    /\ UNCHANGED <<parallel, clock, signals, orders, orderId2algoContext, subSignals>>

-----------------------------------------------------------------------------
Strategy == StartRefused \/ StartAlone \/ StartParallel \/ ShotLoop \/ Cancel

Market == (\E p \in Prices : OnMarketDepth(p)) \/ QuoteAfterEnd

Execution == \E k \in DOMAIN orders : AlgoUpdate(k) \/ AlgoStop(k) \/ AlgoInstanceFinished(k)

SubTrader(i) ==
    SubStart(i) \/ SubSignal(i) \/ SubQuotesEnd(i) \/ SubLoop(i) \/ SubTaskBackTestDone(i)

Next == Strategy \/ Market \/ Execution \/ \E i \in Parts : SubTrader(i)

\* At most one signal a quote.
Orders == 1..MaxTicks

\* The contexts run what is ready, timers fire, replays end (see ReplaySession),
\* and an AlgoTrader has an end time.  No quote, fill or cancel is promised.
Fairness ==
    /\ WF_vars(ShotLoop)
    /\ \A k \in Orders :
        /\ WF_vars(k \in DOMAIN orders /\ AlgoStop(k))
        /\ WF_vars(k \in DOMAIN orders /\ AlgoInstanceFinished(k))
    /\ \A i \in Parts :
        /\ WF_vars(SubStart(i)) /\ WF_vars(SubQuotesEnd(i)) /\ WF_vars(SubLoop(i))
        /\ WF_vars(SubTaskBackTestDone(i))

Spec == Init /\ [][Next]_vars /\ Fairness

-----------------------------------------------------------------------------
(* Properties *)

SubStates == {"waiting", "spawned", "running", "stopped", "completed", "merged"}

\* Every variable has its type.
TypeOK ==
    /\ parallel \in BOOLEAN
    /\ algoStatus \in {"Creating", "Running", "Canceling"} \cup FinalStatuses
    /\ signalCount \in Nat /\ clock \in 0..MaxTicks
    /\ watch.queue \in Seq(Quotes) /\ Len(watch.queue) <= WindowSize
    /\ {watch.low, watch.high} \subseteq Quotes \cup {NoMd}
    /\ signals \in Seq(BOOLEAN)
    /\ \A k \in DOMAIN orders :
        orders[k] \in {Fusion(a, f, c) : a \in {"Running", "Expired", "Finished", "Error"},
                                         f \in 0..OrderQty, c \in BOOLEAN}
    /\ orderId2algoContext \subseteq DOMAIN orders
    /\ subAlgoOrders \in Seq(Parts)
    /\ subTraders \subseteq Parts /\ merged \subseteq subSignals /\ subSignals \subseteq Parts
    /\ sub \in [Parts -> SubStates]

\* A trader the user has stopped left nothing behind: no AlgoTrader of its fusion
\* orders still runs, and its summary counts what was bought until then.
UserStopIsComplete ==
    (~parallel /\ algoStatus = "Terminated") =>
        /\ \A k \in DOMAIN orders : orders[k].algo # "Running"
        /\ signalCount = Counted(signals, merged)

\* The strategy hears of a fusion order as of any order (README.md:19): a final
\* report is the last one, whatever its AlgoTrader still receives.
FinalReportIsLast ==
    [][\A k \in DOMAIN orders : orders[k].status # "NEW" => orders'[k] = orders[k]]_vars

\* A parallel backtest is summarised after all its sub-tasks (README.md:20): when
\* the parent finishes every sub-order has been carried out and taken over, and
\* the summary counts the signals of all.
SummarisedAfterAll ==
    (parallel /\ algoStatus = "Finished") =>
        /\ \A i \in Parts : sub[i] = "merged"
        /\ subAlgoOrders = <<>>
        /\ signalCount = Cardinality(subSignals)

\* A parallel backtest comes to its end, and so does a trader that is cancelled.
ShotEnds == (algoStatus = "Canceling" \/ (parallel /\ algoStatus = "Running")) ~> IsStopped

\* README.md:48: L is the lowest price of the window.  While no high is known, no
\* quote of the window is below the low.
LowIsLowest ==
    (watch.low # NoMd /\ watch.high = NoMd /\ algoStatus = "Running") =>
        \A i \in DOMAIN watch.queue : watch.low.price <= watch.queue[i].price
============================================================================
