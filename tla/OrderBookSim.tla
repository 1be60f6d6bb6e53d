---------------------------- MODULE OrderBookSim ----------------------------
(***************************************************************************)
(* The simulated order book (orderbook/OrderBookSim.cpp).  Every operation *)
(* is dispatched on the book's strand, so handlers never overlap.  Two of  *)
(* them are more than one step here, because another thread can observe    *)
(* the book between the steps:                                             *)
(*   - a quote is matched against the resting orders one at a time, each   *)
(*     match publishing its update before the next ("matching");           *)
(*   - a cancellation writes the status and later the cancelled quantity   *)
(*     into the order object that earlier callbacks still point to         *)
(*     ("canceling").                                                      *)
(* An update is published by dispatching a callback that holds a pointer   *)
(* to the order to the subscriber's context: "callbacks" is that context's *)
(* queue.  A match publishes a fresh copy, so a queued update is the book's*)
(* own object exactly when the two records are equal.                      *)
(***************************************************************************)
EXTENDS MatchEngine, Sequences, FiniteSets, Functions

CONSTANTS
    Quotes,        \* the quotes the feed may deliver
    Requests,      \* what a trader may ask for: [symbol, buy, price, qty]
    OpeningQuote,  \* the quote the book holds of each symbol at the start
    NoQuote        \* "m_mds has no entry"

ASSUME BookAssumption ==
    /\ Quotes \subseteq MarketDepth
    /\ Requests \subseteq [symbol : Symbols, buy : BOOLEAN, price : Prices, qty : Nat \ {0}]
    /\ NoQuote \notin MarketDepth
    /\ OpeningQuote \in [Symbols -> Quotes \cup {NoQuote}]

NoOrder == -1   \* no cancellation in progress

VARIABLES
    running,     \* m_running
    subscribed,  \* the trader is in m_algoKey2OrderUpdateCallBack
    orders,      \* localOrderId2Order: every order of the book, by number
    queueVol,    \* symbol2UnFinishedOrders: resting orders, and the volume ahead
    mds,         \* m_mds: last quote by symbol
    account,     \* acctAssetInfos and positionInfos of the trader's account
    matching,    \* resting orders the current quote has still to be matched with
    canceling,   \* the order whose cancellation is half done, or NoOrder
    callbacks    \* updates dispatched to the trader's context, not yet run

bookVars == <<running, subscribed, orders, queueVol, mds, account, matching,
              canceling, callbacks>>

-----------------------------------------------------------------------------
(* run(): OrderService runs a book as it creates it.  Nothing in the source
   funds an account, so a balance starts at 0 and shows what was spent. *)
Init ==
    /\ running = TRUE
    /\ subscribed = FALSE
    /\ orders = <<>>
    /\ queueVol = <<>>
    /\ mds = OpeningQuote
    /\ account = [cash |-> 0, enabledQty |-> [s \in Symbols |-> 0],
                  currentQty |-> [s \in Symbols |-> 0]]
    /\ matching = {}
    /\ canceling = NoOrder
    /\ callbacks = <<>>

\* The strand is free to start a handler.
Idle == matching = {} /\ canceling = NoOrder

\* Wrong on purpose: the map of all orders in place of the resting ones.
AllOrders == DOMAIN orders

\* The orders of symbol2UnFinishedOrders.
Unfinished == DOMAIN queueVol

With(f, x, v) == [y \in DOMAIN f \cup {x} |-> IF y = x THEN v ELSE f[y]]

\* Wrong on purpose: the entry is left in the map.
Kept(f, x) == f

Without(f, x) == [y \in DOMAIN f \ {x} |-> f[y]]

\* _onOrderUpdate(order): one callback to the subscribed trader.
Publish(order) ==
    callbacks' = IF subscribed THEN Append(callbacks, order) ELSE callbacks

-----------------------------------------------------------------------------
(* refreshAssetPosition(order, preOrder) *)

\* For a new order (an empty preOrder): freeze money or shares, at the limit
\* price or, without one, at the dearest price of the quote.
Frozen(acc, order, md) ==
    LET market == {md.bid[1].price, md.ask[1].price, md.last}
        price  == IF order.price > 0 THEN order.price
                  ELSE CHOOSE p \in market : \A r \in market : r <= p
    IN  IF order.buy
        THEN [acc EXCEPT !.cash = @ - price * order.orderQty]
        ELSE [acc EXCEPT !.enabledQty[order.symbol] = @ - order.orderQty]

\* Wrong on purpose: a cancellation gives nothing back.
SettledFills(acc, order, preOrder) ==
    LET s      == order.symbol
        filled == order.filledQty - preOrder.filledQty
    IN  IF order.buy
        THEN [acc EXCEPT !.enabledQty[s] = @ + filled, !.currentQty[s] = @ + filled]
        ELSE [acc EXCEPT !.cash = @ + order.filledAmt - preOrder.filledAmt,
                         !.currentQty[s] = @ - filled]

\* For an update: a fill moves shares and money, a cancellation unfreezes,
\* and a rejection unfreezes the whole order at its limit price.
Settled(acc, order, preOrder) ==
    LET s      == order.symbol
        filled == order.filledQty - preOrder.filledQty
        amount == order.filledAmt - preOrder.filledAmt
        cancel == order.cancelQty - preOrder.cancelQty
        undone == order.status = REJECTED
    IN  CASE undone /\ order.buy ->
               [acc EXCEPT !.cash = @ + order.orderQty * order.price]
          [] undone /\ ~order.buy ->
               [acc EXCEPT !.enabledQty[s] = @ + order.orderQty]
          [] ~undone /\ order.buy ->
               [acc EXCEPT !.enabledQty[s] = @ + filled,
                           !.currentQty[s] = @ + filled,
                           !.cash = @ + cancel * order.price]
          [] OTHER ->
               [acc EXCEPT !.cash = @ + amount,
                           !.enabledQty[s] = @ + cancel,
                           !.currentQty[s] = @ - filled]

-----------------------------------------------------------------------------
(* subscribe, unSubscribe *)
Subscribe ==
    /\ Idle
    /\ subscribed' = TRUE
    /\ UNCHANGED <<running, orders, queueVol, mds, account, matching, canceling,
                   callbacks>>

Unsubscribe ==
    /\ Idle
    /\ subscribed' = FALSE
    /\ UNCHANGED <<running, orders, queueVol, mds, account, matching, canceling,
                   callbacks>>

(* _placeOrder.  The number is new and the symbol has no quote yet: the order
   only rests; nothing is frozen, matched or published. *)
PlaceUnquoted(o) ==
    /\ Idle /\ running
    /\ o.id \notin DOMAIN orders
    /\ mds[o.symbol] = NoQuote
    /\ orders' = With(orders, o.id, o)
    /\ queueVol' = With(queueVol, o.id, Unmeasured)
    /\ UNCHANGED <<running, subscribed, mds, account, matching, canceling, callbacks>>

(* _placeOrder with a quote: freeze, match at once, rest unless final.  The
   match of an UNSENT order is always newer, so it is always published. *)
PlaceQuoted(o) ==
    /\ Idle /\ running
    /\ o.id \notin DOMAIN orders
    /\ mds[o.symbol] # NoQuote
    /\ LET md == mds[o.symbol]
           m  == Match(o, Unmeasured, md)
       IN  /\ orders' = With(orders, o.id, m.order)
           /\ queueVol' = IF IsFinal(m.order) THEN queueVol
                          ELSE With(queueVol, o.id, m.queueVol)
           /\ account' = Settled(Frozen(account, o, md), m.order, o)
           /\ Publish(m.order)
    /\ UNCHANGED <<running, subscribed, mds, matching, canceling>>

(* _placeOrder of a number the book has already seen: the copy is rejected and
   the subscriber called at once, on this thread, ahead of what is queued. *)
PlaceDuplicate(o) ==
    /\ Idle /\ running
    /\ o.id \in DOMAIN orders
    /\ callbacks' = IF subscribed
                    THEN <<[o EXCEPT !.status = REJECTED]>> \o callbacks
                    ELSE callbacks
    /\ UNCHANGED <<running, subscribed, orders, queueVol, mds, account, matching,
                   canceling>>

Place(o) == PlaceUnquoted(o) \/ PlaceQuoted(o) \/ PlaceDuplicate(o)

\* Wrong on purpose: any order of the book, whatever has become of it.
CancelableKnown(id) == id \in DOMAIN orders

\* Wrong on purpose: only an order nothing has happened to.
CancelableNew(id) == id \in DOMAIN orders /\ orders[id].status = NEW_

\* What cancelOrderByOrderId and _cancelOrderWithOrderId return for otherwise.
Cancelable(id) == id \in DOMAIN orders /\ ~IsFinal(orders[id])

(* _cancelOrderWithOrderId, first half: the status is written into the order
   object, which queued callbacks may be pointing to. *)
CancelMark(id) ==
    /\ Idle /\ running
    /\ Cancelable(id)
    /\ LET status == IF orders[id].filledQty = 0 THEN CANCELED ELSE PARTIALCANCEL
           marked == [orders[id] EXCEPT !.status = status]
       IN  /\ orders' = [orders EXCEPT ![id] = marked]
           /\ callbacks' = [i \in DOMAIN callbacks |->
                             IF callbacks[i] = orders[id] THEN marked ELSE callbacks[i]]
    /\ canceling' = id
    /\ UNCHANGED <<running, subscribed, queueVol, mds, account, matching>>

(* Second half: the cancelled quantity, the accounts, the callback, the erase. *)
CancelFinish ==
    /\ canceling # NoOrder
    /\ LET marked == orders[canceling]
           done   == [marked EXCEPT !.cancelQty = marked.orderQty - marked.filledQty]
           queued == [i \in DOMAIN callbacks |->
                       IF callbacks[i] = marked THEN done ELSE callbacks[i]]
       IN  /\ orders' = [orders EXCEPT ![canceling] = done]
           /\ account' = Settled(account, done, marked)
           /\ callbacks' = IF subscribed THEN Append(queued, done) ELSE queued
    /\ queueVol' = Without(queueVol, canceling)
    /\ canceling' = NoOrder
    /\ UNCHANGED <<running, subscribed, mds, matching>>

(* A cancel request the handler returns from: stopped, unknown or final. *)
CancelIgnored(id) ==
    /\ Idle
    /\ running => ~Cancelable(id)
    /\ UNCHANGED bookVars

(* onMarketDepth and the head of simOrderMatchFill(md).  isStopped is tested
   when the quote is posted, so a quote may still run after a stop. *)
OnMarketDepth(md) ==
    /\ Idle
    /\ mds' = [mds EXCEPT ![md.symbol] = md]
    /\ matching' = IF md.continuous
                   THEN {id \in Unfinished : orders[id].symbol = md.symbol} ELSE {}
    /\ UNCHANGED <<running, subscribed, orders, queueVol, account, canceling, callbacks>>

(* One turn of the loop of simOrderMatchFill(md), in the order of the map.  The
   quote leaves the order a newer one: it is stored, settled and published. *)
MatchUpdates(id) ==
    /\ id \in matching
    /\ \A other \in matching : id <= other
    /\ LET m == Match(orders[id], queueVol[id], mds[orders[id].symbol])
       IN  /\ IsNewerThan(m.order, orders[id])
           /\ orders' = [orders EXCEPT ![id] = m.order]
           /\ queueVol' = IF IsFinal(m.order) THEN Without(queueVol, id)
                          ELSE [queueVol EXCEPT ![id] = m.queueVol]
           /\ account' = Settled(account, m.order, orders[id])
           /\ Publish(m.order)
    /\ matching' = matching \ {id}
    /\ UNCHANGED <<running, subscribed, mds, canceling>>

(* The quote only moves the order in its queue. *)
MatchQueues(id) ==
    /\ id \in matching
    /\ \A other \in matching : id <= other
    /\ LET m == Match(orders[id], queueVol[id], mds[orders[id].symbol])
       IN  /\ ~IsNewerThan(m.order, orders[id])
           /\ queueVol' = [queueVol EXCEPT ![id] = m.queueVol]
    /\ matching' = matching \ {id}
    /\ UNCHANGED <<running, subscribed, orders, mds, account, canceling, callbacks>>

(* stop() and release(): the maps are cleared and nobody is told. *)
Stop ==
    /\ Idle /\ running
    /\ running' = FALSE
    /\ orders' = <<>>
    /\ queueVol' = <<>>
    /\ mds' = [s \in Symbols |-> NoQuote]
    /\ UNCHANGED <<subscribed, account, matching, canceling, callbacks>>

(* The subscriber's context runs the next callback. *)
Deliver ==
    /\ callbacks # <<>>
    /\ callbacks' = Tail(callbacks)
    /\ UNCHANGED <<running, subscribed, orders, queueVol, mds, account, matching,
                   canceling>>

-----------------------------------------------------------------------------
(* What a strand step is, whoever asked for it. *)
StrandStep ==
    \/ CancelFinish
    \/ \E id \in matching : MatchUpdates(id) \/ MatchQueues(id)

OrderOf(id, r) == NewOrder(id, r.symbol, r.buy, r.price, r.qty)

\* A backtest: book and trader share one single-threaded context, where a
\* dispatched callback runs at once, before the book does anything else.
Next ==
    \/ Deliver
    \/ /\ callbacks = <<>>
       /\ \/ Subscribe \/ Unsubscribe
          \/ \E id \in OrderIds, r \in Requests : Place(OrderOf(id, r))
          \/ \E id \in OrderIds : CancelMark(id)
          \/ \E md \in Quotes : OnMarketDepth(md)
          \/ StrandStep
          \/ Stop

Spec == Init /\ [][Next]_bookVars

-----------------------------------------------------------------------------
(* Properties *)

Account == [cash : Int, enabledQty : [Symbols -> Int], currentQty : [Symbols -> Int]]

\* Every variable has its type; the maps are keyed by numbers they agree on.
TypeOK ==
    /\ running \in BOOLEAN
    /\ subscribed \in BOOLEAN
    /\ DOMAIN orders \subseteq OrderIds
    /\ \A id \in DOMAIN orders : orders[id] \in Order /\ orders[id].id = id
    /\ DOMAIN queueVol \subseteq DOMAIN orders
    /\ \A id \in DOMAIN queueVol : queueVol[id] \in Int
    /\ mds \in [Symbols -> Quotes \cup {NoQuote}]
    /\ account \in Account
    /\ matching \subseteq DOMAIN queueVol
    /\ canceling \in DOMAIN orders \cup {NoOrder}
    /\ callbacks \in Seq(Order)

\* An order rests (symbol2UnFinishedOrders) exactly while it is not final, except
\* for the one whose cancellation is half done.  A final order left resting would
\* be matched again by the next quote; an open one that does not rest would wait
\* for ever.  The three places that erase (_placeOrder, _cancelOrderWithOrderId,
\* simOrderMatchFill) must agree for this to hold.
OpenOrdersRest ==
    \A id \in DOMAIN orders :
        id \in Unfinished <=> (~IsFinal(orders[id]) \/ id = canceling)

\* The quantities of an order tell the same story as its status: never filled
\* beyond its size, filled to the last share only as FILLED, and split exactly
\* into filled and cancelled once a cancellation is complete.
QuantitiesMatchStatus ==
    \A id \in DOMAIN orders : LET o == orders[id] IN
        /\ o.filledQty <= o.orderQty
        /\ o.filledQty = o.orderQty <=> o.status = FILLED
        /\ o.status = PARTIALCANCEL => o.filledQty > 0
        /\ o.status \in {CANCELED, REJECTED} => o.filledQty = 0
        /\ o.cancelQty = IF o.status \in {CANCELED, PARTIALCANCEL} /\ id # canceling
                         THEN o.orderQty - o.filledQty ELSE 0

\* A final order is never touched again, and no update takes a fill back: the
\* book never revives or rewrites what it may already have published as done.
FinalOrdersAreFrozen ==
    [][\A id \in DOMAIN orders \cap DOMAIN orders' :
        /\ orders[id].filledQty <= orders'[id].filledQty
        /\ orders[id].filledAmt <= orders'[id].filledAmt
        /\ (IsFinal(orders[id]) /\ id # canceling) => orders'[id] = orders[id]]_bookVars

TotalOf(f) == SumFunctionOnSet(f, DOMAIN f)

\* What an order has moved of the account's money, and the shares it holds back:
\* a buy froze the price of all that is not cancelled, a sell has been paid for
\* its fills and holds what it may still fill.
MoneyOf(o) == IF o.buy THEN -(o.price * (o.orderQty - o.cancelQty)) ELSE o.filledAmt
HeldOf(o, s) == IF ~o.buy /\ o.symbol = s
                THEN o.orderQty - o.filledQty - o.cancelQty ELSE 0

\* Frozen money and shares are accounted for exactly once over the interleavings
\* of placing, filling and cancelling: the cash and the shares not available are
\* what the orders of the book add up to.  It needs a quote of the symbol before
\* its first order (without one nothing is frozen, yet a cancellation unfreezes)
\* and limit prices (a market order is frozen at the quote's price, and when it
\* is rejected given back at its own, 0).
AccountsBalance ==
    running =>
        /\ account.cash = TotalOf([id \in DOMAIN orders |-> MoneyOf(orders[id])])
        /\ \A s \in Symbols :
             account.currentQty[s] - account.enabledQty[s]
                 = TotalOf([id \in DOMAIN orders |-> HeldOf(orders[id], s)])

\* A resting order keeps its place: once the volume ahead of it has been measured
\* it is never measured again, and it only shrinks until the order's turn comes.
\* It relies on whole-lot volumes: an odd lot can bring queueVol to exactly -1,
\* the mark of an order that has not been measured.
PlaceInQueueKept ==
    [][\A id \in DOMAIN queueVol \cap DOMAIN queueVol' :
        queueVol[id] # Unmeasured =>
            /\ queueVol'[id] # Unmeasured
            /\ queueVol'[id] <= queueVol[id] \/ queueVol'[id] = 0]_bookVars

\* Where an order stands in its life.
Phase(o) == CASE ~IsFinal(o) -> "open"
              [] o.status = REJECTED -> "refused"
              [] o.status \in {CANCELED, PARTIALCANCEL} /\ o.cancelQty = 0 -> "ending"
              [] OTHER -> "done"

LifeOf(o) == [terms |-> <<o.symbol, o.buy, o.price>>, size |-> o.orderQty,
              filled |-> o.filledQty, cancelled |-> o.cancelQty, phase |-> Phase(o)]

BookLife == INSTANCE OrderLife WITH life <- [id \in DOMAIN orders |-> LifeOf(orders[id])]

\* The book keeps the life of every order (OrderLife): terms never change, fills
\* only grow and stay within the size, the end comes once, through a cancellation
\* of two halves, matches of many orders by one quote, and a stop.
BookKeepsOrderLife == BookLife!Spec
=============================================================================
