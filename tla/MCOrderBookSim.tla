--------------------------- MODULE MCOrderBookSim ---------------------------
(* One symbol, two orders.  Prices are ticks; volumes are whole lots. *)
EXTENDS OrderBookSim

Side(p1, v1, p2, v2) ==
    [k \in Levels |-> CASE k = 1 -> [price |-> p1, vol |-> v1]
                        [] k = 2 -> [price |-> p2, vol |-> v2]
                        [] OTHER -> [price |-> 0, vol |-> 0]]

Quote(ask, bid, last, deltaVolume, continuous) ==
    [symbol |-> "s", continuous |-> continuous, last |-> last,
     deltaVolume |-> deltaVolume, ask |-> ask, bid |-> bid]

\* A quiet market, trades at the bid: pegs a buy at 10.
AtBid == Quote(Side(11, 500, 12, 500), Side(10, 300, 9, 500), 10, 200, TRUE)
\* A last price above the ask: pegs a sell at 11; a large trade.
AtAsk == Quote(Side(11, 300, 12, 500), Side(10, 300, 9, 500), 12, 500, TRUE)
\* The market falls: a buy at 10 or 11 is aggressive, with one or two levels.
Falls == Quote(Side(10, 500, 11, 500), Side(9, 500, 8, 500), 10, 100, TRUE)
\* The market rises: a sell at 11 is aggressive.
Rises == Quote(Side(13, 500, 14, 500), Side(12, 500, 11, 500), 12, 100, TRUE)
\* Outside continuous trading.
Closed == Quote(Side(10, 500, 11, 500), Side(9, 500, 8, 500), 10, 100, FALSE)

MCQuotes == {AtBid, AtAsk, Falls, Rises, Closed}
MCOpening == [s \in {"s"} |-> AtBid]

Ask4(buy, price, qty) == [symbol |-> "s", buy |-> buy, price |-> price, qty |-> qty]
MCRequests == {Ask4(TRUE, 10, 200), Ask4(TRUE, 11, 300), Ask4(FALSE, 11, 300)}
=============================================================================
