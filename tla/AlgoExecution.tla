---------------------------- MODULE AlgoExecution ----------------------------
(***************************************************************************)
(* One algo trader working against the simulated book in live simulation   *)
(* (QuoteMode::SIMLIVE): algo/AlgoTrader.cpp and algo/AlgoPerformance.cpp  *)
(* composed with OrderBookSim.  The trader runs on a single-threaded       *)
(* worker context and the book on its own; they only meet through queues:  *)
(*   requests   trader to book: tasks dispatched to the book's strand;     *)
(*   callbacks  book to trader: updates dispatched to the worker context.  *)
(* Quotes, the stop of the quote feed and a client's cancel come from      *)
(* other threads at any time.                                              *)
(*                                                                         *)
(* What, when and at which price to trade (slicePolicy, lastSlicePolicy)   *)
(* is a free choice of Requests here; what the policies all respect, a     *)
(* running algo and no more than qtyTarget - qty, is the guard of an order.*)
(***************************************************************************)
EXTENDS OrderBookSim

CONSTANT qtyTarget

ASSUME TargetAssumption == qtyTarget \in Nat \ {0}

\* AlgoStatus: the statuses a started trader goes through.
Running    == "Running"
Canceling  == "Canceling"
Finished   == "Finished"
Expired    == "Expired"
Terminated == "Terminated"

AlgoFinal == {Finished, Expired, Terminated}

\* The process died: no status of the program, and nothing is said of it later.
Crashed == "Crashed"

VARIABLES
    algoStatus,  \* algoPerf.algoStatus
    view,        \* algoPerf.orderId2Order: the trader's copies of its orders
    perf,        \* the counters of algoPerf
    connected,   \* orderBookPtr and quoteFeedPtr are set
    requests,    \* tasks dispatched to the book's strand by the trader
    lastId,      \* OrderIdGenerator
    cancelTask   \* a client's cancel is posted to the worker context

traderVars == <<algoStatus, view, perf, connected, requests, lastId, cancelTask>>
vars == <<bookVars, traderVars>>

Stopped == algoStatus \in AlgoFinal \cup {Crashed}   \* AlgoTrader::isStopped
IsRunning == algoStatus = Running            \* AlgoStatus::isRunning

PlaceTask(o) == [op |-> "place", order |-> o]
CancelTask(id) == [op |-> "cancel", id |-> id]
SubscribeTask == [op |-> "subscribe"]
UnsubscribeTask == [op |-> "unsubscribe"]

NoFills == [qty |-> 0, qtyFilled |-> 0, qtyCanceled |-> 0, qtyRejected |-> 0,
            orderCntFilled |-> 0, orderCntCanceled |-> 0, orderCntRejected |-> 0]

-----------------------------------------------------------------------------
(* AlgoTrader::start, up to co_await schedual(): running and subscribed. *)
ExecInit ==
    /\ Init
    /\ algoStatus = Running
    /\ view = <<>>
    /\ perf = NoFills
    /\ connected = TRUE
    /\ requests = <<SubscribeTask>>
    /\ lastId = 0
    /\ cancelTask = FALSE

Pending == {id \in DOMAIN view : ~IsFinal(view[id])}   \* getAllPendingOrderIds

-----------------------------------------------------------------------------
(* AlgoPerformance::onOrderRecUpdateTwo, for an update that is newer. *)
Recorded(p, order, preOrder) ==
    LET filled   == order.filledQty - preOrder.filledQty
        isFinal  == IsFinal(order)
        allDone  == isFinal /\ order.orderQty = order.filledQty
        canceled == isFinal /\ ~allDone /\ order.cancelQty > 0
        returned == order.status \in {PARTIALCANCEL, CANCELED, REJECTED}
        rejected == order.status = REJECTED
        One(b)   == IF b THEN 1 ELSE 0
    IN  [qty |-> p.qty - (IF returned THEN order.orderQty - order.filledQty ELSE 0),
         qtyFilled |-> p.qtyFilled + filled,
         qtyCanceled |-> p.qtyCanceled + (IF canceled THEN order.cancelQty ELSE 0),
         qtyRejected |-> p.qtyRejected + (IF rejected THEN order.orderQty ELSE 0),
         orderCntFilled |-> p.orderCntFilled + One(allDone),
         orderCntCanceled |-> p.orderCntCanceled + One(canceled),
         orderCntRejected |-> p.orderCntRejected + One(rejected)]

\* The stand-in of an order the trader does not know.
UnknownPre(order) == [order EXCEPT !.status = REPORTING, !.filledQty = 0,
                                   !.filledAmt = 0, !.cancelQty = 0]

\* Wrong on purpose: every update is taken for the first of its order.
PreOrderForgotten(order) == UnknownPre(order)

PreOrder(order) == IF order.id \in DOMAIN view THEN view[order.id] ELSE UnknownPre(order)

(* AlgoTrader::onOrderUpdate on the worker context.  It copies the order the
   callback points to and so may see a cancellation half written (the status
   set, the cancelled quantity not yet).  It runs whatever the algo's status. *)
OnOrderUpdate ==
    /\ callbacks # <<>>
    /\ LET order    == Head(callbacks)
           preOrder == PreOrder(order)
       IN  IF IsNewerThan(order, preOrder)
           THEN /\ view' = With(view, order.id, order)
                /\ perf' = Recorded(perf, order, preOrder)
           ELSE UNCHANGED <<view, perf>>
    /\ callbacks' = Tail(callbacks)
    /\ UNCHANGED <<running, subscribed, orders, queueVol, mds, account, matching,
                   canceling, algoStatus, connected, requests, lastId, cancelTask>>

(* AlgoTrader::placeOrder and AlgoPerformance::onOrderRequest.  The book is
   asked only if it is running at this moment. *)
\* Wrong on purpose: the order carries the previous number.
NextOrderOld(r) == OrderOf(lastId, r)

NextOrder(r) == OrderOf(lastId + 1, r)

\* Wrong on purpose: leaves out what is still pending.
MayPlaceUnfilled(r) ==
    /\ IsRunning /\ connected
    /\ lastId + 1 \in OrderIds
    /\ perf.qtyFilled + r.qty <= qtyTarget

MayPlace(r) ==
    /\ IsRunning /\ connected
    /\ lastId + 1 \in OrderIds
    /\ perf.qty + r.qty <= qtyTarget

PlaceOrder(r) ==
    /\ MayPlace(r) /\ running
    /\ view' = With(view, lastId + 1, NextOrder(r))
    /\ perf' = [perf EXCEPT !.qty = @ + r.qty]
    /\ requests' = Append(requests, PlaceTask(NextOrder(r)))
    /\ lastId' = lastId + 1
    /\ UNCHANGED <<bookVars, algoStatus, connected, cancelTask>>

(* The book refuses: the order is marked rejected and recorded, but the object
   marked is the one already in orderId2Order, so it is not newer than itself
   and onOrderRecUpdate leaves the counters alone. *)
PlaceRefused(r) ==
    /\ MayPlace(r) /\ ~running
    /\ LET rejected == [NextOrder(r) EXCEPT !.status = REJECTED]
           requested == [perf EXCEPT !.qty = @ + r.qty]
       IN  /\ view' = With(view, lastId + 1, rejected)
           /\ perf' = IF IsNewerThan(rejected, rejected)
                      THEN Recorded(requested, rejected, rejected) ELSE requested
    /\ lastId' = lastId + 1
    /\ UNCHANGED <<bookVars, algoStatus, connected, requests, cancelTask>>

\* Wrong on purpose: takes the order for cancelled as soon as it has asked.
CancelOrderAtOnce(id) ==
    /\ IsRunning /\ connected /\ running
    /\ id \in Pending
    /\ view' = [view EXCEPT ![id].status = CANCELED]
    /\ requests' = Append(requests, CancelTask(id))
    /\ UNCHANGED <<bookVars, algoStatus, perf, connected, lastId, cancelTask>>

(* AlgoTrader::cancelOrder for one pending order.  Asking again before the book
   has looked at the first request changes nothing, so one at a time is queued. *)
CancelOrder(id) ==
    /\ IsRunning /\ connected /\ running
    /\ id \in Pending
    /\ \A i \in DOMAIN requests : requests[i] # CancelTask(id)
    /\ requests' = Append(requests, CancelTask(id))
    /\ UNCHANGED <<bookVars, algoStatus, view, perf, connected, lastId, cancelTask>>

(* AlgoTrader::stop: the slices are done or the quote feed has finished.  The
   orders are forgotten, wherever they are. *)
StopTrader ==
    /\ ~Stopped
    /\ algoStatus' = IF perf.qtyFilled >= qtyTarget THEN Finished
                     ELSE IF algoStatus = Canceling THEN Terminated ELSE Expired
    /\ requests' = IF connected THEN Append(requests, UnsubscribeTask) ELSE requests
    /\ connected' = FALSE
    /\ view' = <<>>
    /\ UNCHANGED <<bookVars, perf, lastId, cancelTask>>

(* AlgoService::cancelAlgoOrder, on the dispatcher's thread. *)
RequestCancel ==
    /\ ~Stopped
    /\ ~cancelTask
    /\ cancelTask' = TRUE
    /\ UNCHANGED <<bookVars, algoStatus, view, perf, connected, requests, lastId>>

(* AlgoTrader::cancel on the worker context: a running algo is left alone.  One
   that is not running has stopped and given up its book; if updates have come
   in since, cancelOrder asks a null pointer. *)
Cancel ==
    /\ cancelTask
    /\ cancelTask' = FALSE
    /\ IF IsRunning THEN UNCHANGED algoStatus
       ELSE algoStatus' = IF Pending = {} THEN Terminated ELSE Crashed
    /\ UNCHANGED <<bookVars, view, perf, connected, requests, lastId>>

-----------------------------------------------------------------------------
(* The book's strand takes the trader's next task; a stopped book drops it. *)
TakeTask ==
    /\ requests # <<>>
    /\ Idle
    /\ LET task == Head(requests) IN
        \/ task.op = "subscribe" /\ Subscribe
        \/ task.op = "unsubscribe" /\ Unsubscribe
        \/ task.op = "place" /\ Place(task.order)
        \/ task.op = "place" /\ ~running /\ UNCHANGED bookVars
        \/ task.op = "cancel" /\ CancelMark(task.id)
        \/ task.op = "cancel" /\ CancelIgnored(task.id)
    /\ requests' = Tail(requests)
    /\ UNCHANGED <<algoStatus, view, perf, connected, lastId, cancelTask>>

StrandLoop == StrandStep /\ UNCHANGED traderVars

Outside ==
    /\ \/ \E md \in Quotes : OnMarketDepth(md)
       \/ Stop
    /\ UNCHANGED traderVars

Trader ==
    \/ OnOrderUpdate
    \/ \E r \in Requests : PlaceOrder(r) \/ PlaceRefused(r)
    \/ \E id \in OrderIds : CancelOrder(id)
    \/ StopTrader
    \/ Cancel

ExecNext == TakeTask \/ StrandLoop \/ Outside \/ Trader \/ RequestCancel

(* The strand and the worker context are threads that keep running what is
   queued on them, and the strand is first-in first-out, so quotes cannot pass
   a waiting task for ever.  No quote, order, cancel or stop is promised.
   Fairness is stated on what such a step does to its queue; only the step
   itself does that, and it can whenever the queue says so. *)
LoopTurns ==
    \/ canceling # NoOrder /\ canceling' = NoOrder /\ matching' = matching
    \/ \E id \in matching : matching' = matching \ {id} /\ canceling' = canceling

TaskTaken == Idle /\ requests # <<>> /\ requests' = Tail(requests)

CallbackRuns == callbacks # <<>> /\ callbacks' = Tail(callbacks)

Fairness ==
    /\ WF_<<matching, canceling>>(LoopTurns)
    /\ SF_requests(TaskTaken)
    /\ WF_callbacks(CallbackRuns)

ExecSpec == ExecInit /\ [][ExecNext]_vars /\ Fairness

-----------------------------------------------------------------------------
(* Properties *)

Task == [op : {"subscribe", "unsubscribe"}] \cup [op : {"place"}, order : Order]
        \cup [op : {"cancel"}, id : OrderIds]

Counters == [qty : Int, qtyFilled : Int, qtyCanceled : Int, qtyRejected : Int,
             orderCntFilled : Int, orderCntCanceled : Int, orderCntRejected : Int]

\* Every variable of the trader, and of the book it drives, has its type.
ExecTypeOK ==
    /\ TypeOK
    /\ algoStatus \in {Running, Canceling, Crashed} \cup AlgoFinal
    /\ DOMAIN view \subseteq OrderIds
    /\ \A id \in DOMAIN view : view[id] \in Order /\ view[id].id = id
    /\ perf \in Counters
    /\ connected \in BOOLEAN
    /\ requests \in Seq(Task)
    /\ lastId \in Nat
    /\ cancelTask \in BOOLEAN

\* The trader never believes more than the book knows: fills it has counted are
\* fills of the book, and an order it takes for finished cannot fill any more.
\* The size of the next order rests on this (qtyTarget - qty), through queues
\* that lag, updates that overtake nothing, and a half-written cancellation.
ViewNeverAhead ==
    \A id \in DOMAIN view \cap DOMAIN orders :
        /\ view[id].filledQty <= orders[id].filledQty
        /\ IsFinal(view[id]) => /\ IsFinal(orders[id])
                                /\ view[id].filledQty = orders[id].filledQty

\* What the market may still take of an order: all of it until it is final.
Exposure(o) == IF IsFinal(o) THEN o.filledQty ELSE o.orderQty

\* The algo never trades beyond its target: what the book has filled, could
\* still fill and has been asked to fill stays within qtyTarget, at every
\* moment of every interleaving of orders, fills and cancellations.
NeverOvertrades ==
    LET inBook == [id \in DOMAIN orders |-> Exposure(orders[id])]
        asked  == [i \in DOMAIN requests |-> IF requests[i].op = "place"
                                             THEN requests[i].order.orderQty ELSE 0]
    IN  TotalOf(inBook) + TotalOf(asked) <= qtyTarget

\* Until the trader stops, its running counters (updated by differences, from a
\* copy that may be stale or torn) equal what its own orders add up to.  qty
\* stays too high once an order has been refused by a stopped book.
CountersMatchView ==
    connected =>
        /\ perf.qtyFilled = TotalOf([id \in DOMAIN view |-> view[id].filledQty])
        /\ running => perf.qty = TotalOf([id \in DOMAIN view |-> Exposure(view[id])])

\* A trader that keeps running learns the end of each of its orders: no final
\* update is lost on the way, whatever the trader had seen of the order before.
EventuallyInformed ==
    \A id \in OrderIds :
        (id \in DOMAIN orders /\ IsFinal(orders[id]))
            ~> (~connected \/ (id \in DOMAIN view /\ IsFinal(view[id])))

\* A cancel the trader asked for ends the order or finds the book stopped: it is
\* never dropped because it overtook the order it is about.
CancelTakesEffect ==
    \A id \in OrderIds :
        (\E i \in DOMAIN requests : requests[i] = CancelTask(id))
            ~> (~running \/ (id \in DOMAIN orders /\ IsFinal(orders[id])))

\* What AlgoMessages.proto says of qty_filled: the quantity that was filled.
QtyFilledIsFilled ==
    running => perf.qtyFilled <= TotalOf([id \in DOMAIN orders |-> orders[id].filledQty])

\* What Algo.h says of cancel(): the client's interface to cancel or stop a
\* running algo.
CancelStopsARunningAlgo ==
    [][cancelTask /\ ~cancelTask' => ~IsRunning']_vars

ViewLife == INSTANCE OrderLife WITH life <- [id \in DOMAIN view |-> LifeOf(view[id])]

\* The trader's copies keep the life of every order too (OrderLife), although
\* they are made of updates that wait in a queue, may be overtaken by the book
\* writing into the order they point to, and go on arriving after the trader has
\* stopped and forgotten its orders.
ViewKeepsOrderLife == ViewLife!Spec
==============================================================================
