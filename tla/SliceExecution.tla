--------------------------- MODULE SliceExecution ---------------------------
(***************************************************************************)
(* How an algo cuts its target into slices and orders (algo/Algo.cpp and   *)
(* schedual, executeSlicer, slicePolicy, lastSlicePolicy of                *)
(* algo/AlgoTrader.cpp).  A slice fixes once what it may make (rest) and   *)
(* take; its rounds spend it over several waits, while fills, rejections   *)
(* and answers to cancellations move the counters it was computed from.    *)
(*                                                                         *)
(* Only sums over the orders matter here: filled, resting and resting with *)
(* a cancellation asked for; their total is algoPerf.qty (AlgoExecution    *)
(* shows that the counters are these sums).  Prices, and the rates that    *)
(* say whether to make or take, are left open.  Time is in tenths of a     *)
(* second; products of doubles are exact here, divisions round towards 0.  *)
(***************************************************************************)
EXTENDS Integers, Sequences

CONSTANTS
    qtyTarget,          \* algoOrderPtr->qtyTarget
    isBuy,
    orderInitQtySize,   \* smallest order of the security,
    lotSize,            \*   and what may be added to it
    amountLot,          \* orderInitQtySize, or the quantity minAmountPerOrder pays
                        \*   for at the lowest price of the day if that is more
    numOfSlicers,
    roundsPerSlicer,
    durationPerSlicer,
    RemainTimes,        \* durations the last slice may be left with
    biasPercent,        \* ExecProgressAllowedBias: 5, or 10 for cheap shares
    VolCurve,           \* volumes of the minutes from start to end, for VWAP
    Caps,               \* what participateRate makes of the market's volume
    Impacts,            \* maxMarketImpactVol of the quotes
    MaySkip             \* placeOrder has a reason to skip an order

NoCap == qtyTarget + 1000   \* no participation rate, or nothing traded yet

ASSUME SliceAssumption ==
    /\ qtyTarget \in Nat \ {0}
    /\ isBuy \in BOOLEAN /\ MaySkip \in BOOLEAN
    /\ orderInitQtySize \in Nat \ {0} /\ lotSize \in 1..orderInitQtySize
    /\ amountLot \in Nat /\ amountLot >= orderInitQtySize
    /\ numOfSlicers \in Nat \ {0} /\ roundsPerSlicer \in Nat \ {0}
    /\ durationPerSlicer \in Nat /\ durationPerSlicer >= 10
    /\ RemainTimes \subseteq Nat \ {0}
    /\ biasPercent \in 0..100
    /\ VolCurve \in Seq(Nat) /\ \E k \in 1..Len(VolCurve) : VolCurve[k] > 0
    /\ Caps \subseteq Nat
    /\ Impacts \subseteq Nat

VARIABLES
    cumQtyOfSlicers,   \* what should be done at the end of each slice
    remainTime,        \* duration of the last slice
    index,             \* the current slice, counted from 1
    at,                \* where schedual is: "slice", "round", "plan", "last",
                       \*   "final", "pending" or "done"
    awaits,            \* it is suspended: the others may run
    round,             \* slicer.rounds_remain
    qty2make_remain, qty2take_remain, duration_remain,
    clock,             \* time since the first slice began
    filled,            \* algoPerf.qtyFilled
    resting,           \* unfilled part of pending orders
    asked,             \* the same, of those it has asked to cancel
    cap,               \* max_pov_vol, or NoCap
    excused            \* history: the final order was skipped, limited by the
                       \*   market's volume, computed before all cancellations
                       \*   were answered, or rejected

plan == <<cumQtyOfSlicers, remainTime>>
slicer == <<index, at, round, qty2make_remain, qty2take_remain, duration_remain, clock>>
perf == <<filled, resting, asked>>
vars == <<plan, slicer, perf, awaits, cap, excused>>

qty == filled + resting + asked   \* algoPerf.qty

Least(a, b) == IF a <= b THEN a ELSE b
Most(a, b) == IF a >= b THEN a ELSE b

\* Integer division as in the source.
Div(a, b) == IF a >= 0 THEN a \div b ELSE -((-a) \div b)

\* Wrong on purpose: the smallest order is already too small.
FloorAboveInit(q) ==
    IF q <= orderInitQtySize THEN 0
    ELSE orderInitQtySize + ((q - orderInitQtySize) \div lotSize) * lotSize

\* SecurityStaticInfo::floor2FitLotSize
Floor2FitLotSize(q) ==
    IF q < orderInitQtySize THEN 0
    ELSE orderInitQtySize + ((q - orderInitQtySize) \div lotSize) * lotSize

-----------------------------------------------------------------------------
(* TWAP and VWAP: cumulative quantities *)

\* The last slice must be worth an order: the one before it is cut back, and the
\* nearest larger one before that.
LastSliceFits(cum) ==
    LET n   == Len(cum)
        top == qtyTarget - orderInitQtySize
        larger == {j \in 1..n - 2 : cum[j] > top}
    IN  IF n < 2 THEN cum
        ELSE IF cum[n] - cum[n - 1] >= orderInitQtySize THEN cum
        ELSE [j \in 1..n |->
                IF j = n - 1 \/ (j \in larger /\ \A k \in larger : k <= j)
                THEN top ELSE cum[j]]

\* TWAP::allocateCumulativeQty
TWAP == LastSliceFits([i \in 1..numOfSlicers |-> (i * qtyTarget) \div numOfSlicers])

\* VWAP::allocateCumulativeQty: the share of the volume traded so far, read off
\* the cumulative curve at numOfSlicers points from its first minute to its last.
VWAP ==
    LET sum[k \in 0..Len(VolCurve)] == IF k = 0 THEN 0 ELSE sum[k - 1] + VolCurve[k]
        minutes == Len(VolCurve)
        steps   == numOfSlicers - 1
        below(i) == ((i - 1) * (minutes - 1)) \div steps
        off(i)   == ((i - 1) * (minutes - 1)) % steps
        above(i) == IF off(i) = 0 THEN below(i) ELSE below(i) + 1
        share(i) == (steps - off(i)) * sum[below(i) + 1] + off(i) * sum[above(i) + 1]
    IN  IF numOfSlicers = 1 THEN <<qtyTarget>>
        ELSE LastSliceFits([i \in 1..numOfSlicers |->
                              (share(i) * qtyTarget) \div (steps * sum[minutes])])

\* A plan has a number for each slice.
ASSUME PlanAssumption ==
    \A cum \in {TWAP, VWAP} : cum \in Seq(Int) /\ Len(cum) = numOfSlicers

-----------------------------------------------------------------------------
(* schedual, up to the first slice *)
Init ==
    /\ cumQtyOfSlicers \in {TWAP, VWAP}
    /\ remainTime \in RemainTimes
    /\ index = 1 /\ at = "slice" /\ awaits = TRUE
    /\ round = roundsPerSlicer
    /\ qty2make_remain = 0 /\ qty2take_remain = 0
    /\ duration_remain = IF Len(cumQtyOfSlicers) = 1 THEN remainTime ELSE durationPerSlicer
    /\ clock = 0
    /\ filled = 0 /\ resting = 0 /\ asked = 0
    /\ cap \in Caps \cup {NoCap}
    /\ excused = FALSE

isLast == index = Len(cumQtyOfSlicers)
cumQty == cumQtyOfSlicers[index]

\* Wrong on purpose: a slice that is not worth an order has no round.
RoundsOfOrders(make, take, lot) ==
    Least(roundsPerSlicer, Most(Div(make, lot), Div(take, lot)))

\* Rounds a slice is split into: each worth an order, but at least one.
Rounds(make, take, lot) ==
    Most(Least(roundsPerSlicer, Most(Div(make, lot), Div(take, lot))), 1)

\* What is pending of own orders at the limit price: some whole lots, or all.
AtLimitPrice ==
    {n \in 0..(resting + asked) : n % lotSize = 0 \/ n = resting + asked}

\* What must be left for the last slice.
beforLastUpper == qtyTarget - orderInitQtySize

\* qty2Make and qty2Take of executeSlicer, for a slice that is not the last.
ToMake(upper, atLimit) ==
    IF filled + atLimit < upper
    THEN Least(upper - filled - atLimit, Least(upper, beforLastUpper) - qty)
    ELSE 0

ToTake(lower) ==
    IF filled < lower THEN Most(0, Least(lower - filled, beforLastUpper - qty)) ELSE 0

(* executeSlicer up to its first round.  Nothing is cancelled here: the quantity
   to cancel is at most what getQtyPendingAtBestPrice finds out of the best
   price, and that returns 0 before it looks. *)
StartSlice ==
    /\ at = "slice" /\ ~isLast
    /\ \E atLimit \in AtLimitPrice :
         LET upper == Least(Least(Div(cumQty * (100 + biasPercent), 100), beforLastUpper), cap)
             lower == Least(Least(Div(cumQty * (100 - biasPercent), 100), beforLastUpper), cap)
         IN  /\ qty2make_remain' = ToMake(upper, atLimit)
             /\ qty2take_remain' = ToTake(lower)
    /\ round' = Rounds(qty2make_remain', qty2take_remain', amountLot)
    /\ at' = "round" /\ awaits' = FALSE
    /\ UNCHANGED <<plan, index, duration_remain, clock, perf, cap, excused>>

\* getQtyShinkImpact
ShinkImpact(q, impact) ==
    Floor2FitLotSize(IF q - impact >= orderInitQtySize THEN Least(q, impact) ELSE q)

\* What placeOrder makes of an order: it may be skipped for its price, its amount
\* or an empty side of the quote, and nobody is told.
Placed(q) == IF q <= 0 THEN {0} ELSE IF MaySkip THEN {0, q} ELSE {q}

\* A part of what remains, for one round.
Part(remain) == Least(Div(remain, round), qtyTarget - qty)

\* Wrong on purpose: makes whether or not it takes.
AllowMakeAnyway(allow2Take) == filled < cumQty - qty2take_remain

AllowMake(allow2Take) ==
    /\ filled < cumQty - qty2take_remain
    /\ allow2Take => qty + Part(qty2take_remain) + Part(qty2make_remain) < qtyTarget

\* Wrong on purpose: each round takes an equal part of what is left.
RoundTimeLong == duration_remain \div roundsPerSlicer

RoundTime == duration_remain \div round

\* The wait at the end of a round; the last one leads to the next slice.
WaitRound ==
    /\ clock' = clock + RoundTime
    /\ awaits' = TRUE
    /\ IF round > 1
       THEN /\ round' = round - 1
            /\ duration_remain' = duration_remain - RoundTime
            /\ UNCHANGED <<index, at>>
       ELSE /\ index' = index + 1
            /\ at' = "slice"
            /\ round' = roundsPerSlicer
            /\ duration_remain' = IF index + 1 = Len(cumQtyOfSlicers)
                                  THEN remainTime ELSE durationPerSlicer

(* slicePolicy: a round makes, takes, or both. *)
SliceRound ==
    /\ at = "round"
    /\ \E allow2Take \in BOOLEAN, impact \in Impacts :
         LET make == IF AllowMake(allow2Take)
                     THEN Floor2FitLotSize(Part(qty2make_remain)) ELSE 0
             take == IF allow2Take THEN ShinkImpact(Part(qty2take_remain), impact) ELSE 0
         IN  /\ \E m \in Placed(make), t \in Placed(take) : resting' = resting + m + t
             /\ qty2make_remain' = qty2make_remain - make
             /\ qty2take_remain' = qty2take_remain - take
    /\ WaitRound
    /\ UNCHANGED <<plan, filled, asked, cap, excused>>

-----------------------------------------------------------------------------
(* The last slice *)

\* The plan of the last slice.  It makes only if most of what it made was filled.
PlanOf(make, take) ==
    /\ qty2make_remain' = make
    /\ qty2take_remain' = take
    /\ round' = Rounds(make, take, orderInitQtySize)
    /\ at' = "last" /\ awaits' = FALSE

Plan == \E makes \in BOOLEAN :
    LET upTo == Least(cumQty, cap)
    IN  PlanOf(IF makes THEN upTo - filled ELSE 0, upTo - qty)

(* executeSlicer: no order is out of the best price. *)
StartLast ==
    /\ at = "slice" /\ isLast
    /\ Plan
    /\ UNCHANGED <<plan, index, duration_remain, clock, perf, cap, excused>>

(* Some are: they are cancelled first.  The wait is negative when less than a
   second is left: that turns a backtest's time back and is no wait otherwise. *)
CancelOutOfBest ==
    /\ at = "slice" /\ isLast
    /\ \E n \in {resting, resting \div 2} \ {0} :
         asked' = asked + n /\ resting' = resting - n
    /\ duration_remain' = Most(duration_remain - 30, 10)
    /\ LET wait == duration_remain - duration_remain'
       IN  clock' \in {clock + wait, clock + Most(wait, 0)}
    /\ at' = "plan" /\ awaits' = TRUE
    /\ UNCHANGED <<plan, index, round, qty2make_remain, qty2take_remain, filled, cap, excused>>

PlanLast ==
    /\ at = "plan"
    /\ Plan
    /\ UNCHANGED <<plan, index, duration_remain, clock, perf, cap, excused>>

(* lastSlicePolicy with more than one round to go: makes, or else takes. *)
LastRound ==
    /\ at = "last" /\ round > 1
    /\ \E allow2Make \in BOOLEAN, impact \in Impacts :
         LET make == IF allow2Make THEN Floor2FitLotSize(Part(qty2make_remain)) ELSE 0
             take == IF make > 0 THEN 0 ELSE ShinkImpact(Part(qty2take_remain), impact)
         IN  /\ \E n \in Placed(make + take) : resting' = resting + n
             /\ qty2make_remain' = qty2make_remain - make
             /\ qty2take_remain' = qty2take_remain - take
    /\ clock' = clock + RoundTime
    /\ duration_remain' = duration_remain - RoundTime
    /\ round' = round - 1
    /\ awaits' = TRUE
    /\ UNCHANGED <<plan, index, at, filled, asked, cap, excused>>

(* lastSlicePolicy, last round: everything pending is cancelled. *)
CancelAll ==
    /\ at = "last" /\ round = 1
    /\ resting + asked > 0
    /\ asked' = asked + resting /\ resting' = 0
    /\ duration_remain' = Most(duration_remain - 31, 30)
    /\ clock' = clock + 31
    /\ at' = "final" /\ awaits' = TRUE
    /\ UNCHANGED <<plan, index, round, qty2make_remain, qty2take_remain, filled, cap, excused>>

\* qtyTotalRemain: the participation limit is stretched by 200.
Remainder == Least(qtyTarget, cap + 200) - qty

(* ... and what is left is ordered, after the wait or at once. *)
FinalOrder ==
    /\ at = "final" \/ (at = "last" /\ round = 1 /\ resting + asked = 0)
    /\ LET total == IF isBuy THEN Floor2FitLotSize(Remainder) ELSE Remainder
       IN  \E n \in Placed(total) :
             /\ resting' = resting + n
             /\ excused' = (excused \/ asked > 0 \/ n < total \/ cap + 200 < qtyTarget)
    /\ clock' = clock + duration_remain
    /\ at' = "pending" /\ awaits' = TRUE
    /\ UNCHANGED <<plan, index, round, qty2make_remain, qty2take_remain, duration_remain,
                   filled, asked, cap>>

(* The end of schedual: a last chance for late updates. *)
AwaitPending ==
    /\ at = "pending"
    /\ at' = "done" /\ awaits' = TRUE
    /\ clock' = IF resting + asked > 0 THEN clock + 100 ELSE clock
    /\ UNCHANGED <<plan, index, round, qty2make_remain, qty2take_remain, duration_remain,
                   perf, cap, excused>>

-----------------------------------------------------------------------------
(* What happens while it waits *)

\* Whole lots, or all there is.
Lots(q) == {n \in {lotSize, q} : n <= q} \ {0}

\* An update with a fill, also of an order being cancelled.
Fill ==
    /\ awaits
    /\ \/ \E n \in Lots(resting) : filled' = filled + n /\ resting' = resting - n /\ asked' = asked
       \/ \E n \in Lots(asked) : filled' = filled + n /\ asked' = asked - n /\ resting' = resting
    /\ UNCHANGED <<plan, slicer, awaits, cap, excused>>

\* An order is rejected, or cancelled by someone else.
Reject ==
    /\ awaits
    /\ \E n \in Lots(resting) : resting' = resting - n
    /\ excused' = (excused \/ at \in {"pending", "done"})
    /\ UNCHANGED <<plan, slicer, filled, asked, awaits, cap>>

\* A cancellation is answered.
Canceled ==
    /\ awaits
    /\ \E n \in Lots(asked) : asked' = asked - n
    /\ UNCHANGED <<plan, slicer, filled, resting, awaits, cap, excused>>

\* The market trades; the first trade brings a participation limit into force.
Volume ==
    /\ awaits
    /\ \E c \in Caps : cap' = c /\ (cap = NoCap \/ c > cap)
    /\ UNCHANGED <<plan, slicer, perf, awaits, excused>>

Outside == Fill \/ Reject \/ Canceled \/ Volume

Next ==
    \/ StartSlice \/ SliceRound
    \/ StartLast \/ CancelOutOfBest \/ PlanLast \/ LastRound \/ CancelAll \/ FinalOrder
    \/ AwaitPending
    \/ Outside

Spec == Init /\ [][Next]_vars

-----------------------------------------------------------------------------
(* Properties *)

\* Every variable has its type; a slice never has less than one round to go.
TypeOK ==
    /\ cumQtyOfSlicers \in Seq(Int) /\ remainTime \in RemainTimes
    /\ index \in 1..Len(cumQtyOfSlicers)
    /\ at \in {"slice", "round", "plan", "last", "final", "pending", "done"}
    /\ awaits \in BOOLEAN /\ excused \in BOOLEAN
    /\ round \in 1..roundsPerSlicer
    /\ qty2make_remain \in Int /\ qty2take_remain \in Int
    /\ duration_remain \in Nat /\ clock \in Nat
    /\ filled \in Nat /\ resting \in Nat /\ asked \in Nat
    /\ cap \in Caps \cup {NoCap}

\* What is filled, rests and is being cancelled never exceeds the target, although
\* a round may make and take from the same remainder, both planned at the start
\* of a slice from counters that have moved since.
NeverBeyondTarget == qty <= qtyTarget

\* Every slice begins on time, however its quantity was split into rounds, and the
\* strategy ends with its last slice, which it gives a second at least, but for the
\* waits for cancellations and for late updates.
OnSchedule ==
    /\ at = "slice" => clock = (index - 1) * durationPerSlicer
    /\ clock <= (Len(cumQtyOfSlicers) - 1) * durationPerSlicer + Most(remainTime, 10)
                  + 31 + 30 + 100

\* The strategy ends with all of its target ordered, up to less than an order,
\* unless the market's volume, a price limit, a rejection or a cancellation that
\* was answered too late stood in the way.
EndsOnTarget ==
    (at = "done" /\ ~excused) => qtyTarget - qty < orderInitQtySize
=============================================================================
