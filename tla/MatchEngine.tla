---------------------------- MODULE MatchEngine ----------------------------
(***************************************************************************)
(* The pure part of the simulated order book: what one quote does to one   *)
(* order (MarketDepth::getPricezVol, MarketDepth::tryMathWithinPrice and   *)
(* the per-order OrderBookSim::simOrderMatchFill).                         *)
(*                                                                         *)
(* A quote has five levels a side; an empty level is price 0, volume 0.    *)
(* The source compares doubles with a tolerance of 0.00001; with prices in *)
(* ticks the tolerant comparisons are >= and the strict one is >.          *)
(***************************************************************************)
EXTENDS Orders

Levels == 1..5

\* int(vol * tryMatchPercent), tryMatchPercent = 0.2.
Share(vol) == vol \div 5

\* A peg fill needs the queue ahead to be overtraded by more than this.
PegSlack == 100

\* The initial queueVol of an order: "not measured yet".
Unmeasured == -1

Level == [price : Nat, vol : Nat]

\* What the book reads of a MarketDepth.  "continuous" is
\* AshareMarketTime::isInMarketContinueTradingTime of its quoteTime.
MarketDepth == [symbol : Symbols, continuous : BOOLEAN, last : Nat,
                deltaVolume : Nat, ask : [Levels -> Level],
                bid : [Levels -> Level]]

\* MarketDepth::getPricezVol: the volume quoted at a price, the bid levels
\* before the ask levels and a repeated price at its first level.
PriceVol(md, price) ==
    LET At(side) == {k \in Levels : side[k].price = price}
        First(S) == CHOOSE k \in S : \A j \in S : k <= j
    IN  IF At(md.bid) # {} THEN md.bid[First(At(md.bid))].vol
        ELSE IF At(md.ask) # {} THEN md.ask[First(At(md.ask))].vol
        ELSE 0

(***************************************************************************)
(* tryMathWithinPrice.  mathQty is not reset between levels, so level k    *)
(* contributes the shares of levels 1..k, as MatchAt says.  The loop       *)
(* leaves at the first level that is not within the limit, or returns at   *)
(* the first one that completes the quantity.                              *)
(***************************************************************************)
Upto(k, f) == (IF k >= 1 THEN f[1] ELSE 0) + (IF k >= 2 THEN f[2] ELSE 0)
            + (IF k >= 3 THEN f[3] ELSE 0) + (IF k >= 4 THEN f[4] ELSE 0)
            + (IF k >= 5 THEN f[5] ELSE 0)

MatchAt(side) ==
    LET shares == [k \in Levels |-> Share(side[k].vol)]
    IN  [k \in Levels |-> Upto(k, shares)]

AmountAt(side) == [k \in Levels |-> side[k].price * MatchAt(side)[k]]

\* The levels the loop visits before its break.
Within(side, buy, price) ==
    {k \in Levels : \A j \in 1..k :
        IF buy THEN side[j].price > 0 /\ side[j].price <= price
               ELSE side[j].price >= price /\ price > 0}

\* <<matched quantity, matched amount>> of qty at the limit price.
TryMatch(side, buy, price, qty) ==
    LET within == Within(side, buy, price)
        done   == {k \in within : Upto(k, MatchAt(side)) >= qty}
        k      == IF done # {} THEN CHOOSE i \in done : \A j \in done : i <= j
                  ELSE IF within # {} THEN CHOOSE i \in within : \A j \in within : i >= j
                  ELSE 0
        filled == Upto(k, MatchAt(side))
        amount == Upto(k, AmountAt(side))
    IN  IF done # {}
        THEN <<qty, amount - side[k].price * (filled - qty)>>
        ELSE <<filled, amount>>

(***************************************************************************)
(* simOrderMatchFill(it, md).                                              *)
(***************************************************************************)
Opposite(o, md) == IF o.buy THEN md.ask ELSE md.bid

\* isAggressFilled
Aggressive(o, md) ==
    IF o.buy THEN o.price >= md.ask[1].price /\ md.ask[1].price > 0
             ELSE o.price <= md.bid[1].price /\ o.price > 0

\* isPegFilled, which the source tests only for an order that is not aggressive
Pegged(o, md) ==
    IF o.buy
    THEN /\ o.price < md.ask[1].price
         /\ md.bid[1].price > 0
         /\ o.price >= md.bid[1].price
         /\ o.price >= md.last
    ELSE /\ o.price > md.bid[1].price
         /\ o.price <= md.ask[1].price
         /\ md.last > o.price

\* Wrong on purpose: measured again at every quote.
MeasuredAgain(o, queueVol, md) ==
    IF PriceVol(md, o.price) > 0 THEN PriceVol(md, o.price) ELSE queueVol

\* queueVol on entry: measured once, the first time the price is quoted.
Measured(o, queueVol, md) ==
    IF queueVol = Unmeasured /\ PriceVol(md, o.price) > 0
    THEN PriceVol(md, o.price) ELSE queueVol

\* The status on entry: a request becomes NEW, and price 0 is rejected.
Accepted(o) ==
    IF o.price = 0 THEN REJECTED
    ELSE IF o.status \in {UNSENT, REPORTING} THEN NEW_
    ELSE o.status

Fill(o, qty, amt, status) ==
    [o EXCEPT !.filledQty = @ + qty, !.filledAmt = @ + amt, !.status = status]

\* queueVol on leaving: never more than what is quoted now.
Capped(o, queueVol, md) ==
    IF queueVol > 0 /\ PriceVol(md, o.price) > 0 /\ PriceVol(md, o.price) < queueVol
    THEN PriceVol(md, o.price) ELSE queueVol

AggressMatch(o, queueVol, md) ==
    LET m == TryMatch(Opposite(o, md), o.buy, o.price, o.orderQty - o.filledQty)
    IN  [order |-> Fill(o, m[1], m[2],
                        IF o.filledQty + m[1] = o.orderQty THEN FILLED ELSE o.status),
         queueVol |-> Capped(o, queueVol, md)]

\* Wrong on purpose: fills all that was traded through the order's price.
PegMatchAll(o, queueVol, md) ==
    LET left == queueVol - md.deltaVolume
    IN  IF left < -PegSlack
        THEN [order |-> Fill(o, -left, -left * o.price,
                             IF o.filledQty - left >= o.orderQty THEN FILLED
                             ELSE PARTIALFILLED),
              queueVol |-> 0]
        ELSE [order |-> o, queueVol |-> Capped(o, left, md)]

PegMatch(o, queueVol, md) ==
    LET left  == queueVol - md.deltaVolume
        avail == -left
        rest  == o.orderQty - o.filledQty
        qty   == IF avail < rest THEN avail ELSE rest
    IN  IF left < -PegSlack
        THEN [order |-> Fill(o, qty, o.price * qty,
                             IF qty = rest THEN FILLED ELSE PARTIALFILLED),
              queueVol |-> 0]
        ELSE [order |-> o, queueVol |-> Capped(o, left, md)]

\* The order and its queueVol after the quote, whether or not it is published.
Match(preOrder, queueVol, md) ==
    LET o == [preOrder EXCEPT !.status = Accepted(preOrder)]
        q == Measured(preOrder, queueVol, md)
    IN  IF Aggressive(o, md) THEN AggressMatch(o, q, md)
        ELSE IF Pegged(o, md) THEN PegMatch(o, q, md)
        ELSE [order |-> o, queueVol |-> Capped(o, q, md)]
=============================================================================
