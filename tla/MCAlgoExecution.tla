-------------------------- MODULE MCAlgoExecution --------------------------
(* A buying algo, one symbol, orders of 200 and 300 against a target of 400.
   The book may start without a quote. *)
EXTENDS AlgoExecution

Side(p1, v1, p2, v2) ==
    [k \in Levels |-> CASE k = 1 -> [price |-> p1, vol |-> v1]
                        [] k = 2 -> [price |-> p2, vol |-> v2]
                        [] OTHER -> [price |-> 0, vol |-> 0]]

Quote(ask, bid, last, deltaVolume) ==
    [symbol |-> "s", continuous |-> TRUE, last |-> last,
     deltaVolume |-> deltaVolume, ask |-> ask, bid |-> bid]

\* Trades at the bid: a buy at 10 moves up its queue of 300.
AtBid == Quote(Side(11, 500, 12, 500), Side(10, 300, 9, 500), 10, 500)
\* The ask comes down to 10 and fills 100 of any buy.
Falls == Quote(Side(10, 500, 11, 0), Side(9, 500, 8, 500), 10, 100)

MCQuotes == {AtBid, Falls}
MCOpening == [s \in {"s"} |-> NoQuote]
MCRequests == {[symbol |-> "s", buy |-> TRUE, price |-> 10, qty |-> q] : q \in {200, 300}}
\* One order size, for the counterexamples.
MCOneSize == {[symbol |-> "s", buy |-> TRUE, price |-> 10, qty |-> 200]}
=============================================================================
