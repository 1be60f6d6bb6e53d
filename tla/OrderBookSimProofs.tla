-------------------------- MODULE OrderBookSimProofs --------------------------
(***************************************************************************)
(* The simulated book for every set of orders, symbols, prices, quotes and *)
(* requests: its type invariant, OpenOrdersRest and QuantitiesMatchStatus  *)
(* are invariants, a final order is never touched again, the book          *)
(* implements OrderLife, its accounts balance, and a resting order keeps   *)
(* its place.  None of the first three is inductive alone; together with   *)
(* StrandInv they are.                                                     *)
(***************************************************************************)
EXTENDS OrderBookSim, Functions, FiniteSetTheorems, SequenceTheorems, TLAPS

-----------------------------------------------------------------------------
(* What one quote may do to one order, for any five levels.  TryMatch counts the
   levels cumulatively; its bounds hold all the same. *)

Side == [Levels -> Level]

\* A sum over the first k levels of natural numbers is a natural number.
LEMMA UptoNat ==
    ASSUME NEW f \in [Levels -> Nat], NEW k \in 0..5
    PROVE  Upto(k, f) \in Nat
  <1>1. \A j \in 1..5 : f[j] \in Nat BY DEF Levels
  <1> QED BY <1>1 DEF Upto

\* One more level adds that level's term.
LEMMA UptoStep ==
    ASSUME NEW f \in [Levels -> Nat], NEW k \in 1..5
    PROVE  Upto(k, f) = Upto(k - 1, f) + f[k]
  <1>1. \A j \in 1..5 : f[j] \in Nat BY DEF Levels
  <1>2. CASE k = 1 BY <1>1, <1>2 DEF Upto
  <1>3. CASE k = 2 BY <1>1, <1>3 DEF Upto
  <1>4. CASE k = 3 BY <1>1, <1>4 DEF Upto
  <1>5. CASE k = 4 BY <1>1, <1>5 DEF Upto
  <1>6. CASE k = 5 BY <1>1, <1>6 DEF Upto
  <1> QED BY <1>2, <1>3, <1>4, <1>5, <1>6

\* The product of two natural numbers is one, and is monotonic.
LEMMA TimesNat ==
    ASSUME NEW a \in Nat, NEW b \in Nat, NEW c \in Nat, c <= b
    PROVE  /\ a * b \in Nat /\ a * c \in Nat
           /\ a * c <= a * b
  OBVIOUS

\* The shares and amounts a side offers level by level.
LEMMA MatchAtType ==
    ASSUME NEW side \in Side
    PROVE  /\ MatchAt(side) \in [Levels -> Nat]
           /\ AmountAt(side) \in [Levels -> Nat]
  <1> DEFINE shares == [k \in Levels |-> Share(side[k].vol)]
  <1>1. \A k \in Levels : side[k].price \in Nat /\ side[k].vol \in Nat
    BY DEF Side, Level
  <1>2. shares \in [Levels -> Nat]
    BY <1>1 DEF Share
  <1>3. MatchAt(side) \in [Levels -> Nat]
    <2> SUFFICES ASSUME NEW k \in Levels PROVE Upto(k, shares) \in Nat
      BY DEF MatchAt
    <2>1. k \in 0..5 BY DEF Levels
    <2> HIDE DEF shares
    <2> QED BY <1>2, <2>1, UptoNat
  <1>4. ASSUME NEW k \in Levels PROVE side[k].price * MatchAt(side)[k] \in Nat
    BY <1>1, <1>3, TimesNat
  <1> QED BY <1>3, <1>4 DEF AmountAt

\* A non-empty set of levels has a first and a last one.
LEMMA LevelExtremes ==
    ASSUME NEW S \in SUBSET (1..5), S # {}
    PROVE  /\ \E i \in S : \A j \in S : i <= j
           /\ \E i \in S : \A j \in S : i >= j
  <1>0. \A j \in S : j \in {1, 2, 3, 4, 5} OBVIOUS
  <1>1. 1 \in S \/ 2 \in S \/ 3 \in S \/ 4 \in S \/ 5 \in S BY <1>0
  <1>2. \E i \in S : \A j \in S : i <= j
    <2>1. CASE 1 \in S BY <1>0, <2>1
    <2>2. CASE 1 \notin S /\ 2 \in S BY <1>0, <2>2
    <2>3. CASE 1 \notin S /\ 2 \notin S /\ 3 \in S BY <1>0, <2>3
    <2>4. CASE 1 \notin S /\ 2 \notin S /\ 3 \notin S /\ 4 \in S BY <1>0, <2>4
    <2>5. CASE 1 \notin S /\ 2 \notin S /\ 3 \notin S /\ 4 \notin S /\ 5 \in S
      BY <1>0, <2>5
    <2> QED BY <1>1, <2>1, <2>2, <2>3, <2>4, <2>5
  <1>3. \E i \in S : \A j \in S : i >= j
    <2>1. CASE 5 \in S BY <1>0, <2>1
    <2>2. CASE 5 \notin S /\ 4 \in S BY <1>0, <2>2
    <2>3. CASE 5 \notin S /\ 4 \notin S /\ 3 \in S BY <1>0, <2>3
    <2>4. CASE 5 \notin S /\ 4 \notin S /\ 3 \notin S /\ 2 \in S BY <1>0, <2>4
    <2>5. CASE 5 \notin S /\ 4 \notin S /\ 3 \notin S /\ 2 \notin S /\ 1 \in S
      BY <1>0, <2>5
    <2> QED BY <1>1, <2>1, <2>2, <2>3, <2>4, <2>5
  <1> QED BY <1>2, <1>3

\* tryMathWithinPrice fills between nothing and the whole quantity, for an amount
\* that is not negative: what it takes back for the last level (the price of that
\* level times the excess) is part of what that level added.
LEMMA TryMatchBounds ==
    ASSUME NEW side \in Side, NEW buy \in BOOLEAN, NEW price \in Nat,
           NEW qty \in Nat
    PROVE  /\ TryMatch(side, buy, price, qty)[1] \in 0..qty
           /\ TryMatch(side, buy, price, qty)[2] \in Nat
  <1> DEFINE within == Within(side, buy, price)
             done   == {k \in within : Upto(k, MatchAt(side)) >= qty}
             k      == IF done # {} THEN CHOOSE i \in done : \A j \in done : i <= j
                       ELSE IF within # {}
                            THEN CHOOSE i \in within : \A j \in within : i >= j
                            ELSE 0
             filled == Upto(k, MatchAt(side))
             amount == Upto(k, AmountAt(side))
  <1>1. within \subseteq 1..5 BY DEF Within, Levels
  <1>2. done \subseteq within OBVIOUS
  <1>4. done # {} => k \in done /\ \A j \in done : k <= j
    <2> SUFFICES ASSUME done # {} PROVE k \in done /\ \A j \in done : k <= j
      OBVIOUS
    <2>1. \E i \in done : \A j \in done : i <= j BY <1>1, <1>2, LevelExtremes
    <2>2. k = CHOOSE i \in done : \A j \in done : i <= j OBVIOUS
    <2> HIDE DEF done, k
    <2> QED BY <2>1, <2>2
  <1>5. k \in 0..5
    <2>1. CASE done # {} BY <1>1, <1>2, <1>4, <2>1
    <2>2. CASE done = {} /\ within # {}
      <3>1. \E i \in within : \A j \in within : i >= j BY <1>1, LevelExtremes, <2>2
      <3>2. k = CHOOSE i \in within : \A j \in within : i >= j BY <2>2
      <3>3. k \in within
        <4> HIDE DEF within, k
        <4> QED BY <3>1, <3>2
      <3> QED BY <1>1, <3>3
    <2>3. CASE done = {} /\ within = {} BY <2>3
    <2> QED BY <2>1, <2>2, <2>3
  <1>6. filled \in Nat /\ amount \in Nat
    <2> HIDE DEF k
    <2> QED BY <1>5, UptoNat, MatchAtType
  <1>7. CASE done = {}
    <2>1. TryMatch(side, buy, price, qty) = <<filled, amount>>
      BY <1>7 DEF TryMatch
    <2>2. filled <= qty
      <3>1. CASE within = {}
        BY <1>7, <3>1 DEF Upto
      <3>2. CASE within # {}
        <4>1. \E i \in within : \A j \in within : i >= j BY <1>1, LevelExtremes, <3>2
        <4>2. k = CHOOSE i \in within : \A j \in within : i >= j BY <1>7, <3>2
        <4>3. k \in within
          <5> HIDE DEF within, k
          <5> QED BY <4>1, <4>2
        <4>4. ~(filled >= qty) BY <1>7, <4>3
        <4> HIDE DEF filled
        <4> QED BY <1>6, <4>4
      <3> QED BY <3>1, <3>2
    <2> HIDE DEF filled, amount
    <2> QED BY <1>6, <2>1, <2>2
  <1>8. CASE done # {}
    <2>1. TryMatch(side, buy, price, qty)
            = <<qty, amount - side[k].price * (filled - qty)>>
      BY <1>8 DEF TryMatch
    <2>2. k \in 1..5 /\ filled >= qty /\ \A j \in done : k <= j
      <3>1. k \in done /\ \A j \in done : k <= j BY <1>4, <1>8
      <3> QED BY <1>1, <1>2, <3>1
    <2>3. k - 1 \in 0..5 /\ k \in Levels BY <2>2 DEF Levels
    <2>4. /\ filled = Upto(k - 1, MatchAt(side)) + MatchAt(side)[k]
          /\ amount = Upto(k - 1, AmountAt(side)) + AmountAt(side)[k]
      <3> HIDE DEF k
      <3> QED BY <2>2, UptoStep, MatchAtType
    <2>5. /\ Upto(k - 1, MatchAt(side)) \in Nat
          /\ Upto(k - 1, AmountAt(side)) \in Nat
      <3> HIDE DEF k
      <3> QED BY <2>3, UptoNat, MatchAtType
    <2>6. Upto(k - 1, MatchAt(side)) <= qty
      <3>1. CASE k = 1
        <4>1. Upto(0, MatchAt(side)) = 0 BY DEF Upto
        <4>2. k - 1 = 0 BY <3>1
        <4> HIDE DEF k
        <4> QED BY <4>1, <4>2
      <3>2. CASE k # 1
        <4>1. k - 1 \in Levels /\ k - 1 < k
          <5> HIDE DEF k
          <5> QED BY <2>2, <3>2 DEF Levels
        <4>2. k \in within BY <1>4, <1>8
        <4>3. k - 1 \in within
          <5>1. \A j \in 1..k : IF buy THEN side[j].price > 0 /\ side[j].price <= price
                                       ELSE side[j].price >= price /\ price > 0
            <6> HIDE DEF k
            <6> QED BY <4>2 DEF Within
          <5>2. 1..(k - 1) \subseteq 1..k
            <6> HIDE DEF k
            <6> QED BY <2>2
          <5> HIDE DEF k
          <5> QED BY <4>1, <5>1, <5>2 DEF Within
        <4>4. k - 1 \notin done
          <5> HIDE DEF k, done
          <5> QED BY <2>2, <4>1
        <4>5. ~(Upto(k - 1, MatchAt(side)) >= qty)
          <5> HIDE DEF k
          <5> QED BY <4>3, <4>4
        <4> HIDE DEF k
        <4> QED BY <2>5, <4>5
      <3> QED BY <3>1, <3>2
    <2>7. /\ side[k].price \in Nat
          /\ MatchAt(side)[k] \in Nat
          /\ AmountAt(side)[k] = side[k].price * MatchAt(side)[k]
      <3> HIDE DEF k
      <3> QED BY <2>3, MatchAtType DEF AmountAt, Side, Level
    <2>8. filled - qty \in Nat /\ filled - qty <= MatchAt(side)[k]
      <3> HIDE DEF k, filled
      <3> QED BY <1>6, <2>2, <2>4, <2>5, <2>6, <2>7
    <2>9. /\ side[k].price * (filled - qty) \in Nat
          /\ side[k].price * (filled - qty) <= AmountAt(side)[k]
          /\ AmountAt(side)[k] \in Nat
      <3> HIDE DEF k, filled
      <3> QED BY <2>7, <2>8, TimesNat
    <2>10. amount - side[k].price * (filled - qty) \in Nat
      <3> HIDE DEF k, filled, amount
      <3> QED BY <1>6, <2>4, <2>5, <2>9
    <2> HIDE DEF k, filled, amount, done
    <2> QED BY <2>1, <2>10
  <1> QED BY <1>7, <1>8

\* The statuses of an order that may still be matched.
OpenStatus == OrderStatus \ FinalStatus

\* An order the book may match: open, with something left to fill, and nothing
\* filled if it has no price.
Matchable(o) ==
    /\ o \in Order
    /\ o.status \in OpenStatus
    /\ o.filledQty < o.orderQty
    /\ o.price = 0 => o.filledQty = 0

\* What any match leaves alone, and in which direction the rest goes.
Extends(o, m) ==
    /\ m \in Order
    /\ m.id = o.id /\ m.symbol = o.symbol /\ m.buy = o.buy /\ m.price = o.price
    /\ m.orderQty = o.orderQty /\ m.cancelQty = o.cancelQty
    /\ o.filledQty <= m.filledQty /\ m.filledQty <= m.orderQty
    /\ o.filledAmt <= m.filledAmt

\* What the status of a matched order says of its quantity.
Settles(o, m) ==
    /\ m.status \in OpenStatus \cup {FILLED, REJECTED}
    /\ m.filledQty = m.orderQty <=> m.status = FILLED
    /\ m.status = REJECTED => m.filledQty = 0
    /\ m.price = 0 => m.filledQty = 0

\* Fill adds a quantity and an amount and sets the status.
LEMMA FillExtends ==
    ASSUME NEW o \in Order, NEW qty \in Nat, NEW amt \in Nat,
           NEW status \in OrderStatus, o.filledQty + qty <= o.orderQty
    PROVE  /\ Extends(o, Fill(o, qty, amt, status))
           /\ Fill(o, qty, amt, status).status = status
           /\ Fill(o, qty, amt, status).filledQty = o.filledQty + qty
  <1> DEFINE m == Fill(o, qty, amt, status)
  <1>1. /\ m.status = status
        /\ m.filledQty = o.filledQty + qty
        /\ m.filledAmt = o.filledAmt + amt
        /\ m.id = o.id /\ m.symbol = o.symbol /\ m.buy = o.buy /\ m.price = o.price
        /\ m.orderQty = o.orderQty /\ m.cancelQty = o.cancelQty
    BY DEF Fill, Order
  <1>2. o.filledQty \in Nat /\ o.filledAmt \in Int BY DEF Order
  <1>3. m.filledQty \in Nat /\ m.filledAmt \in Int BY <1>1, <1>2
  <1>4. m \in Order BY <1>3 DEF Fill, Order
  <1> HIDE DEF m
  <1> QED BY <1>1, <1>2, <1>3, <1>4 DEF Extends, m

\* The effect of a match (simOrderMatchFill) on an open order: it only adds to
\* what is filled, and the status it leaves agrees with the quantity.
LEMMA MatchEffect ==
    ASSUME NEW o, Matchable(o), NEW q \in Int, NEW md \in MarketDepth
    PROVE  /\ Extends(o, Match(o, q, md).order)
           /\ Settles(o, Match(o, q, md).order)
           /\ Match(o, q, md).queueVol \in Int
  <1> DEFINE a == [o EXCEPT !.status = Accepted(o)]
             r == Measured(o, q, md)
             rest == o.orderQty - o.filledQty
  <1> USE DEF Matchable
  <1>1. /\ o \in Order /\ o.price \in Nat /\ o.buy \in BOOLEAN
        /\ o.filledQty \in Nat /\ o.orderQty \in Nat /\ rest \in Nat /\ rest > 0
    <2>1. o \in Order /\ o.filledQty < o.orderQty OBVIOUS
    <2>2. /\ o.price \in Prices /\ o.buy \in BOOLEAN
          /\ o.filledQty \in Nat /\ o.orderQty \in Nat
      BY <2>1 DEF Order
    <2>3. o.price \in Nat BY <2>2, OrdersAssumption
    <2> QED BY <2>1, <2>2, <2>3
  <1>2. /\ md.ask \in Side /\ md.bid \in Side /\ md.last \in Nat
        /\ md.deltaVolume \in Nat
        /\ md.ask[1].price \in Nat /\ md.bid[1].price \in Nat
    BY DEF MarketDepth, Side, Level, Levels
  <1>3. PriceVol(md, o.price) \in Int
    <2> DEFINE At(side) == {k \in Levels : side[k].price = o.price}
               Lowest(S) == CHOOSE k \in S : \A j \in S : k <= j
    <2>1. ASSUME NEW S \in SUBSET Levels, S # {} PROVE Lowest(S) \in Levels
      <3>1. \E i \in S : \A j \in S : i <= j BY <2>1, LevelExtremes DEF Levels
      <3>2. Lowest(S) \in S BY <3>1
      <3> QED BY <3>2
    <2>2. \A S \in SUBSET Levels : S # {} => Lowest(S) \in Levels BY <2>1
    <2>3. At(md.bid) \in SUBSET Levels /\ At(md.ask) \in SUBSET Levels OBVIOUS
    <2>4. \A k \in Levels : md.bid[k].vol \in Nat /\ md.ask[k].vol \in Nat
      BY <1>2 DEF Side, Level
    <2>5. PriceVol(md, o.price) = IF At(md.bid) # {} THEN md.bid[Lowest(At(md.bid))].vol
            ELSE IF At(md.ask) # {} THEN md.ask[Lowest(At(md.ask))].vol ELSE 0
      BY DEF PriceVol
    <2> HIDE DEF At, Lowest
    <2> QED BY <2>2, <2>3, <2>4, <2>5
  <1>4. r \in Int BY <1>3 DEF Measured, Unmeasured
  <1>5. \A v \in Int : Capped(a, v, md) \in Int
    <2>1. a.price = o.price BY <1>1 DEF Order
    <2> HIDE DEF a
    <2> QED BY <1>3, <2>1 DEF Capped
  <1>6. /\ Extends(o, a)
        /\ a.filledQty = o.filledQty /\ a.filledAmt = o.filledAmt
        /\ o.price = 0 => a.status = REJECTED
        /\ o.price # 0 => a.status \in OpenStatus
    <2>1. Accepted(o) \in OpenStatus \cup {REJECTED}
      BY <1>1 DEF Accepted, OpenStatus, OrderStatus, FinalStatus, NEW_, REJECTED,
         UNSENT, PARTIALFILLED, FILLED, PARTIALCANCEL, CANCELED, REPORTING
    <2>2. o.price # 0 => Accepted(o) \in OpenStatus
      BY <1>1 DEF Accepted, OpenStatus, OrderStatus, FinalStatus, NEW_, REJECTED,
         UNSENT, PARTIALFILLED, FILLED, PARTIALCANCEL, CANCELED, REPORTING
    <2>3. o.price = 0 => Accepted(o) = REJECTED BY DEF Accepted
    <2>4. Accepted(o) \in OrderStatus
      BY <2>1 DEF OpenStatus, OrderStatus, REJECTED
    <2>5. a.status = Accepted(o) BY <1>1 DEF Order
    <2>6. Extends(o, a) /\ a.filledQty = o.filledQty /\ a.filledAmt = o.filledAmt
      BY <1>1, <2>4 DEF Extends, Order
    <2> QED BY <2>1, <2>2, <2>3, <2>5, <2>6
  <1>7. Settles(o, a)
    <2>1. REJECTED # FILLED /\ REJECTED \notin OpenStatus /\ FILLED \notin OpenStatus
      BY DEF REJECTED, FILLED, OpenStatus, FinalStatus
    <2> HIDE DEF a
    <2> QED BY <1>1, <1>6, <2>1 DEF Settles, Extends
  <1>8. ASSUME NEW qty \in Nat, NEW amt \in Nat, qty <= rest, o.price # 0,
               NEW status \in OpenStatus \cup {FILLED},
               qty = rest <=> status = FILLED
        PROVE  Extends(o, Fill(a, qty, amt, status)) /\ Settles(o, Fill(a, qty, amt, status))
    <2>1. status \in OrderStatus BY DEF OpenStatus, OrderStatus, FILLED
    <2>2. a \in Order /\ a.orderQty = o.orderQty /\ a.price = o.price
      BY <1>6 DEF Extends
    <2> HIDE DEF a
    <2>3. a.filledQty + qty <= a.orderQty BY <1>1, <1>6, <1>8, <2>2
    <2>4. /\ Extends(a, Fill(a, qty, amt, status))
          /\ Fill(a, qty, amt, status).status = status
          /\ Fill(a, qty, amt, status).filledQty = o.filledQty + qty
      BY <1>6, <2>1, <2>2, <2>3, FillExtends
    <2> DEFINE m == Fill(a, qty, amt, status)
    <2>5. m.orderQty = o.orderQty /\ m.price = o.price BY <2>2, <2>4 DEF Extends
    <2>6. m.filledQty = m.orderQty <=> m.status = FILLED
      <3> HIDE DEF m
      <3> QED BY <1>1, <1>8, <2>4, <2>5 DEF m
    <2>7. status # REJECTED BY DEF OpenStatus, FinalStatus, REJECTED, FILLED
    <2>8. Extends(o, m)
      <3>1. m \in Order /\ o \in Order /\ a \in Order BY <1>1, <2>2, <2>4 DEF Extends
      <3>2. a.filledAmt \in Int /\ m.filledAmt \in Int /\ a.filledQty \in Nat
            /\ m.filledQty \in Nat BY <3>1 DEF Order
      <3> HIDE DEF m
      <3> QED BY <1>1, <1>6, <2>4, <3>1, <3>2 DEF Extends, m
    <2> HIDE DEF m
    <2> QED BY <1>8, <2>4, <2>5, <2>6, <2>7, <2>8 DEF Settles, m
  <1>9. CASE Aggressive(a, md)
    <2> DEFINE t == TryMatch(Opposite(a, md), a.buy, a.price, a.orderQty - a.filledQty)
    <2>1. a.buy = o.buy /\ a.price = o.price /\ a.orderQty - a.filledQty = rest
      BY <1>6 DEF Extends
    <2>2. o.price # 0
      <3> HIDE DEF a
      <3> QED BY <1>1, <1>2, <1>9, <2>1 DEF Aggressive
    <2>3. Opposite(a, md) \in Side BY <1>2 DEF Opposite
    <2>4. t[1] \in 0..rest /\ t[2] \in Nat
      <3> HIDE DEF a, rest
      <3> QED BY <1>1, <2>1, <2>3, TryMatchBounds
    <2> DEFINE s == IF a.filledQty + t[1] = a.orderQty THEN FILLED ELSE a.status
    <2>5. /\ Match(o, q, md).order = Fill(a, t[1], t[2], s)
          /\ Match(o, q, md).queueVol = Capped(a, r, md)
      BY <1>9 DEF Match, AggressMatch
    <2>6. s \in OpenStatus \cup {FILLED} BY <1>6, <2>2
    <2>7. t[1] = rest <=> s = FILLED
      <3>1. a.status # FILLED BY <1>6, <2>2 DEF OpenStatus, FinalStatus
      <3>2. a.orderQty = o.orderQty BY <1>6 DEF Extends
      <3> HIDE DEF a, t
      <3> QED BY <1>1, <1>6, <2>4, <3>1, <3>2
    <2>8. t[1] \in Nat /\ t[1] <= rest
      <3> HIDE DEF t
      <3> QED BY <1>1, <2>4
    <2> HIDE DEF t, s, a, r, rest
    <2>9. Extends(o, Fill(a, t[1], t[2], s)) /\ Settles(o, Fill(a, t[1], t[2], s))
      BY <1>8, <2>2, <2>4, <2>6, <2>7, <2>8
    <2> QED BY <1>4, <1>5, <2>5, <2>9
  <1>10. CASE ~Aggressive(a, md) /\ Pegged(a, md)
    <2> DEFINE left == r - md.deltaVolume
               qty  == IF -left < rest THEN -left ELSE rest
               s    == IF qty = rest THEN FILLED ELSE PARTIALFILLED
    <2>1. /\ a.buy = o.buy /\ a.price = o.price /\ a.orderQty - a.filledQty = rest
      BY <1>6 DEF Extends
    <2>2. o.price # 0
      <3> HIDE DEF a
      <3> QED BY <1>1, <1>2, <1>10, <2>1 DEF Pegged
    <2>3. left \in Int BY <1>2, <1>4
    <2>4. Match(o, q, md) = PegMatch(a, r, md) BY <1>10 DEF Match
    <2>5. CASE left < -PegSlack
      <3>1. /\ Match(o, q, md).order = Fill(a, qty, a.price * qty, s)
            /\ Match(o, q, md).queueVol = 0
        <4> HIDE DEF a, r
        <4> QED BY <2>1, <2>4, <2>5 DEF PegMatch
      <3>2. qty \in Nat /\ qty <= rest
        <4> HIDE DEF left, rest
        <4> QED BY <1>1, <2>3, <2>5 DEF PegSlack
      <3>3. a.price * qty \in Nat
        <4> HIDE DEF qty, a
        <4> QED BY <1>1, <2>1, <3>2, TimesNat
      <3>4. s \in OpenStatus \cup {FILLED} /\ (qty = rest <=> s = FILLED)
        BY DEF OpenStatus, OrderStatus, FinalStatus, PARTIALFILLED, FILLED,
           REJECTED, CANCELED, PARTIALCANCEL
      <3> HIDE DEF qty, s, a, rest
      <3> QED BY <1>8, <2>2, <3>1, <3>2, <3>3, <3>4
    <2>6. CASE ~(left < -PegSlack)
      <3>1. /\ Match(o, q, md).order = a
            /\ Match(o, q, md).queueVol = Capped(a, left, md)
        <4> HIDE DEF a, r
        <4> QED BY <2>4, <2>6 DEF PegMatch
      <3> HIDE DEF a, left
      <3> QED BY <1>5, <1>6, <1>7, <2>3, <3>1
    <2> QED BY <2>5, <2>6
  <1>11. CASE ~Aggressive(a, md) /\ ~Pegged(a, md)
    <2>1. /\ Match(o, q, md).order = a
          /\ Match(o, q, md).queueVol = Capped(a, r, md)
      BY <1>11 DEF Match
    <2> HIDE DEF a, r
    <2> QED BY <1>4, <1>5, <1>6, <1>7, <2>1
  <1> QED BY <1>9, <1>10, <1>11

\* A match answers the request, and only an order without a price is rejected.
LEMMA MatchAnswers ==
    ASSUME NEW o \in Order, o.status \in OpenStatus, NEW q, NEW md
    PROVE  /\ Match(o, q, md).order.status \notin {UNSENT, REPORTING}
           /\ Match(o, q, md).order.status = REJECTED => o.price = 0
  <1> DEFINE a == [o EXCEPT !.status = Accepted(o)]
             r == Measured(o, q, md)
             answer == {FILLED, PARTIALFILLED, Accepted(o)}
  <1>1. a.status = Accepted(o) BY DEF Order
  <1>2. ASSUME NEW b \in Order, NEW x, NEW y, NEW z
        PROVE  Fill(b, x, y, z).status = z
    BY <1>2 DEF Fill, Order
  <1>3. a \in Order
    <2>1. Accepted(o) \in OrderStatus
      BY DEF Accepted, OpenStatus, OrderStatus, REJECTED, NEW_
    <2> QED BY <2>1 DEF Order
  <1> HIDE DEF a, r
  <1>4. AggressMatch(a, r, md).order.status \in answer
    BY <1>1, <1>2, <1>3 DEF AggressMatch
  <1>5. PegMatch(a, r, md).order.status \in answer
    BY <1>1, <1>2, <1>3 DEF PegMatch
  <1>6. Match(o, q, md).order.status \in answer
    <2>1. Match(o, q, md) = IF Aggressive(a, md) THEN AggressMatch(a, r, md)
                            ELSE IF Pegged(a, md) THEN PegMatch(a, r, md)
                            ELSE [order |-> a, queueVol |-> Capped(a, r, md)]
      BY DEF Match, a, r
    <2> HIDE DEF answer
    <2>2. a.status \in answer BY <1>1 DEF answer
    <2> QED BY <1>4, <1>5, <2>1, <2>2
  <1>7. Accepted(o) \notin {UNSENT, REPORTING} /\ (Accepted(o) = REJECTED => o.price = 0)
    BY DEF Accepted, OpenStatus, FinalStatus, UNSENT, REPORTING, REJECTED, NEW_
  <1>8. {FILLED, PARTIALFILLED} \cap {UNSENT, REPORTING, REJECTED} = {}
    BY DEF FILLED, PARTIALFILLED, UNSENT, REPORTING, REJECTED
  <1> QED BY <1>6, <1>7, <1>8

-----------------------------------------------------------------------------
(* The book *)

\* What holds between two steps of the strand: a quote is not matched while a
\* cancellation is half done, the half-cancelled order is already marked, a
\* quote being matched is still the last one, and an order without a price has
\* no fills.
StrandInv ==
    /\ matching # {} => canceling = NoOrder
    /\ canceling # NoOrder => orders[canceling].status \in {CANCELED, PARTIALCANCEL}
    /\ \A id \in matching : mds[orders[id].symbol] # NoQuote
    /\ \A id \in DOMAIN orders : orders[id].price = 0 => orders[id].filledQty = 0

IInv == TypeOK /\ OpenOrdersRest /\ QuantitiesMatchStatus /\ StrandInv

-----------------------------------------------------------------------------
(* Facts about the operators *)

\* NoOrder is not an order number.
LEMMA NoOrderIsNone == NoOrder \notin OrderIds
  BY OrdersAssumption DEF NoOrder

\* Marking an order in a queue of updates leaves a queue of updates.
LEMMA MarkedQueue ==
    ASSUME NEW queue \in Seq(Order), NEW old, NEW new \in Order
    PROVE  [i \in DOMAIN queue |-> IF queue[i] = old THEN new ELSE queue[i]] \in Seq(Order)
  <1>1. Len(queue) \in Nat /\ queue \in [1..Len(queue) -> Order]
    BY LenProperties
  <1>2. [i \in DOMAIN queue |-> IF queue[i] = old THEN new ELSE queue[i]]
          \in [1..Len(queue) -> Order]
    BY <1>1
  <1> QED BY <1>1, <1>2, SeqDef

\* refreshAssetPosition of a new order keeps the account an account: it finds a
\* price to freeze at.
LEMMA FrozenType ==
    ASSUME NEW acc \in Account, NEW o \in Order, NEW md \in MarketDepth
    PROVE  Frozen(acc, o, md) \in Account
  <1> DEFINE market == {md.bid[1].price, md.ask[1].price, md.last}
             dearest == CHOOSE p \in market : \A r \in market : r <= p
             price  == IF o.price > 0 THEN o.price ELSE dearest
  <1>1. /\ o.price \in Nat /\ o.orderQty \in Nat /\ o.symbol \in Symbols
    BY OrdersAssumption DEF Order
  <1>2. /\ md.bid[1].price \in Nat /\ md.ask[1].price \in Nat /\ md.last \in Nat
    BY DEF MarketDepth, Level, Levels
  <1>3. dearest \in Nat
    <2>1. \E p \in market : \A r \in market : r <= p BY <1>2
    <2>2. dearest \in market BY <2>1
    <2> HIDE DEF dearest
    <2> QED BY <1>2, <2>2
  <1>4. price \in Nat BY <1>1, <1>3
  <1>5. price * o.orderQty \in Nat
    <2> HIDE DEF price
    <2> QED BY <1>1, <1>4, TimesNat
  <1>6. Frozen(acc, o, md) =
          IF o.buy THEN [acc EXCEPT !.cash = @ - price * o.orderQty]
                   ELSE [acc EXCEPT !.enabledQty[o.symbol] = @ - o.orderQty]
    BY DEF Frozen
  <1> HIDE DEF price
  <1> QED BY <1>1, <1>5, <1>6 DEF Account

\* The integers of an order.
LEMMA OrderNumbers ==
    ASSUME NEW o \in Order
    PROVE  /\ o.price \in Nat /\ o.orderQty \in Nat /\ o.symbol \in Symbols
           /\ o.filledQty \in Nat /\ o.filledAmt \in Int /\ o.cancelQty \in Int
           /\ o.buy \in BOOLEAN /\ o.id \in OrderIds
  <1>1. /\ o.price \in Prices /\ o.orderQty \in Nat /\ o.symbol \in Symbols
        /\ o.filledQty \in Nat /\ o.filledAmt \in Int /\ o.cancelQty \in Int
        /\ o.buy \in BOOLEAN /\ o.id \in OrderIds
    BY DEF Order
  <1> QED BY <1>1, OrdersAssumption

\* Moving integers about in an account leaves an account.
LEMMA AccountMoves ==
    ASSUME NEW acc \in Account, NEW s \in Symbols, NEW a \in Int, NEW b \in Int,
           NEW c \in Int
    PROVE  /\ [acc EXCEPT !.cash = @ + a] \in Account
           /\ [acc EXCEPT !.enabledQty[s] = @ + a] \in Account
           /\ [acc EXCEPT !.enabledQty[s] = @ + a, !.currentQty[s] = @ + a,
                          !.cash = @ + b] \in Account
           /\ [acc EXCEPT !.cash = @ + a, !.enabledQty[s] = @ + b,
                          !.currentQty[s] = @ - c] \in Account
  <1>1. /\ acc.cash \in Int
        /\ acc.enabledQty \in [Symbols -> Int] /\ acc.currentQty \in [Symbols -> Int]
    BY DEF Account
  <1>2. acc.enabledQty[s] \in Int /\ acc.currentQty[s] \in Int BY <1>1
  <1>3. /\ [acc.enabledQty EXCEPT ![s] = @ + a] \in [Symbols -> Int]
        /\ [acc.enabledQty EXCEPT ![s] = @ + b] \in [Symbols -> Int]
        /\ [acc.currentQty EXCEPT ![s] = @ + a] \in [Symbols -> Int]
        /\ [acc.currentQty EXCEPT ![s] = @ - c] \in [Symbols -> Int]
    BY <1>1, <1>2
  <1>4. acc.cash + a \in Int /\ acc.cash + b \in Int BY <1>1
  <1>5. [acc EXCEPT !.cash = @ + a] \in Account BY <1>4 DEF Account
  <1>6. [acc EXCEPT !.enabledQty[s] = @ + a] \in Account BY <1>3 DEF Account
  <1>7. [acc EXCEPT !.enabledQty[s] = @ + a, !.currentQty[s] = @ + a,
                    !.cash = @ + b] \in Account
    BY <1>3, <1>4 DEF Account
  <1>8. [acc EXCEPT !.cash = @ + a, !.enabledQty[s] = @ + b,
                    !.currentQty[s] = @ - c] \in Account
    BY <1>3, <1>4 DEF Account
  <1> QED BY <1>5, <1>6, <1>7, <1>8

\* refreshAssetPosition of an update keeps it one too.
LEMMA SettledType ==
    ASSUME NEW acc \in Account, NEW o \in Order, NEW preOrder \in Order
    PROVE  Settled(acc, o, preOrder) \in Account
  <1> DEFINE s      == o.symbol
             filled == o.filledQty - preOrder.filledQty
             amount == o.filledAmt - preOrder.filledAmt
             cancel == o.cancelQty - preOrder.cancelQty
             undone == o.status = REJECTED
  <1>1. /\ s \in Symbols /\ filled \in Int /\ amount \in Int /\ cancel \in Int
        /\ o.orderQty \in Int /\ o.price \in Int
    BY OrderNumbers
  <1>2. o.orderQty * o.price \in Int /\ cancel * o.price \in Int
    <2> HIDE DEF cancel
    <2> QED BY <1>1
  <1>3. Settled(acc, o, preOrder) =
        CASE undone /\ o.buy ->
               [acc EXCEPT !.cash = @ + o.orderQty * o.price]
          [] undone /\ ~o.buy ->
               [acc EXCEPT !.enabledQty[s] = @ + o.orderQty]
          [] ~undone /\ o.buy ->
               [acc EXCEPT !.enabledQty[s] = @ + filled,
                           !.currentQty[s] = @ + filled,
                           !.cash = @ + cancel * o.price]
          [] OTHER ->
               [acc EXCEPT !.cash = @ + amount,
                           !.enabledQty[s] = @ + cancel,
                           !.currentQty[s] = @ - filled]
    BY DEF Settled
  <1> HIDE DEF s, filled, amount, cancel, undone
  <1>4. CASE undone /\ o.buy BY <1>1, <1>2, <1>3, <1>4, AccountMoves
  <1>5. CASE undone /\ ~o.buy
    <2>1. Settled(acc, o, preOrder) = [acc EXCEPT !.enabledQty[s] = @ + o.orderQty]
      BY <1>3, <1>5
    <2>2. [acc EXCEPT !.enabledQty[s] = @ + o.orderQty] \in Account
      BY <1>1, AccountMoves
    <2> QED BY <2>1, <2>2
  <1>6. CASE ~undone /\ o.buy
    <2> DEFINE back == cancel * o.price
    <2>1. Settled(acc, o, preOrder) =
            [acc EXCEPT !.enabledQty[s] = @ + filled, !.currentQty[s] = @ + filled,
                        !.cash = @ + back]
      BY <1>3, <1>6
    <2>2. back \in Int BY <1>2
    <2> HIDE DEF back
    <2>3. [acc EXCEPT !.enabledQty[s] = @ + filled, !.currentQty[s] = @ + filled,
                      !.cash = @ + back] \in Account
      BY <1>1, <2>2, AccountMoves
    <2> QED BY <2>1, <2>3
  <1>7. CASE ~undone /\ ~o.buy
    <2>1. Settled(acc, o, preOrder) =
            [acc EXCEPT !.cash = @ + amount, !.enabledQty[s] = @ + cancel,
                        !.currentQty[s] = @ - filled]
      BY <1>3, <1>7
    <2>2. [acc EXCEPT !.cash = @ + amount, !.enabledQty[s] = @ + cancel,
                      !.currentQty[s] = @ - filled] \in Account
      BY <1>1, AccountMoves
    <2> QED BY <2>1, <2>2
  <1> QED BY <1>4, <1>5, <1>6, <1>7

\* An order that has just been matched: nothing cancelled, and a status that
\* agrees with its fills.
Consistent(o) ==
    /\ o \in Order
    /\ o.filledQty <= o.orderQty
    /\ o.filledQty = o.orderQty <=> o.status = FILLED
    /\ o.status \notin {CANCELED, PARTIALCANCEL}
    /\ o.status = REJECTED => o.filledQty = 0
    /\ o.cancelQty = 0
    /\ o.price = 0 => o.filledQty = 0

\* MatchEffect, as the book needs it.
LEMMA MatchedIsConsistent ==
    ASSUME NEW o, Matchable(o), o.cancelQty = 0, NEW q \in Int,
           NEW md \in MarketDepth
    PROVE  LET m == Match(o, q, md)
           IN  /\ Consistent(m.order) /\ Extends(o, m.order)
               /\ m.queueVol \in Int
  <1> DEFINE m == Match(o, q, md)
  <1>1. Extends(o, m.order) /\ Settles(o, m.order) /\ m.queueVol \in Int
    BY MatchEffect
  <1>2. OpenStatus \cap {CANCELED, PARTIALCANCEL} = {}
    BY DEF OpenStatus, FinalStatus
  <1>3. {FILLED, REJECTED} \cap {CANCELED, PARTIALCANCEL} = {}
    BY DEF FILLED, REJECTED, CANCELED, PARTIALCANCEL
  <1> HIDE DEF m
  <1>4. Consistent(m.order) BY <1>1, <1>2, <1>3 DEF Consistent, Extends, Settles
  <1> QED BY <1>1, <1>4 DEF m

\* An order that rests while the strand does not cancel it can be matched.
LEMMA RestingIsMatchable ==
    ASSUME IInv, NEW id \in Unfinished, id # canceling
    PROVE  Matchable(orders[id]) /\ orders[id].cancelQty = 0
  <1>1. id \in DOMAIN orders /\ orders[id] \in Order
    BY DEF IInv, TypeOK, Unfinished
  <1>2. ~IsFinal(orders[id]) BY <1>1 DEF IInv, OpenOrdersRest
  <1>3. orders[id].status \in OpenStatus
    BY <1>1, <1>2 DEF IsFinal, OpenStatus, Order
  <1>4. /\ orders[id].status # FILLED
        /\ orders[id].status \notin {CANCELED, PARTIALCANCEL}
    BY <1>2 DEF IsFinal, FinalStatus
  <1>5. /\ orders[id].filledQty <= orders[id].orderQty
        /\ orders[id].filledQty = orders[id].orderQty <=> orders[id].status = FILLED
        /\ orders[id].cancelQty = 0
    BY <1>1, <1>4 DEF IInv, QuantitiesMatchStatus
  <1>6. orders[id].filledQty < orders[id].orderQty
    BY <1>1, <1>4, <1>5, OrderNumbers
  <1>7. orders[id].price = 0 => orders[id].filledQty = 0
    BY <1>1 DEF IInv, StrandInv
  <1> QED BY <1>1, <1>3, <1>5, <1>6, <1>7 DEF Matchable

\* A trader's new order can be matched.
LEMMA NewIsMatchable ==
    ASSUME NEW id \in OrderIds, NEW r \in Requests
    PROVE  /\ Matchable(OrderOf(id, r)) /\ Consistent(OrderOf(id, r))
           /\ OrderOf(id, r).id = id
           /\ ~IsFinal(OrderOf(id, r))
  <1> DEFINE o == OrderOf(id, r)
  <1>1. /\ r.symbol \in Symbols /\ r.buy \in BOOLEAN /\ r.price \in Prices
        /\ r.qty \in Nat /\ r.qty > 0
    <2>1. r \in [symbol : Symbols, buy : BOOLEAN, price : Prices, qty : Nat \ {0}]
      BY BookAssumption
    <2> QED BY <2>1
  <1>2. /\ o.id = id /\ o.status = UNSENT /\ o.filledQty = 0 /\ o.cancelQty = 0
        /\ o.orderQty = r.qty
    BY DEF OrderOf, NewOrder
  <1>3. UNSENT \in OpenStatus /\ UNSENT \in OrderStatus /\ UNSENT \notin FinalStatus
        /\ UNSENT \notin {CANCELED, PARTIALCANCEL} /\ UNSENT # FILLED
        /\ UNSENT # REJECTED
    BY DEF OpenStatus, OrderStatus, FinalStatus, UNSENT, FILLED, REJECTED, CANCELED,
       PARTIALCANCEL
  <1>4. o \in Order BY <1>1, <1>3 DEF OrderOf, NewOrder, Order
  <1> HIDE DEF o
  <1> QED BY <1>1, <1>2, <1>3, <1>4 DEF Matchable, Consistent, IsFinal, o

\* The book holds a quote of a symbol or NoQuote.
LEMMA QuoteType ==
    ASSUME TypeOK, NEW s \in Symbols, mds[s] # NoQuote
    PROVE  mds[s] \in MarketDepth
  BY BookAssumption DEF TypeOK

\* Publishing an order keeps the queue of updates typed.
LEMMA PublishType ==
    ASSUME callbacks \in Seq(Order), NEW o \in Order, Publish(o)
    PROVE  callbacks' \in Seq(Order)
  BY AppendProperties DEF Publish

-----------------------------------------------------------------------------
(* The invariant *)

LEMMA InitIInv == Init => IInv
  <1> SUFFICES ASSUME Init PROVE IInv OBVIOUS
  <1> USE DEF Init
  <1>1. DOMAIN orders = {} /\ DOMAIN queueVol = {} OBVIOUS
  <1>2. callbacks \in Seq(Order) BY EmptySeq
  <1>3. account \in Account BY DEF Account
  <1>4. mds \in [Symbols -> Quotes \cup {NoQuote}] BY BookAssumption
  <1>5. TypeOK BY <1>1, <1>2, <1>3, <1>4 DEF TypeOK
  <1>6. OpenOrdersRest /\ QuantitiesMatchStatus /\ StrandInv
    BY <1>1 DEF OpenOrdersRest, QuantitiesMatchStatus, StrandInv
  <1> QED BY <1>5, <1>6 DEF IInv

\* Placing an order of a symbol without a quote.
LEMMA PlaceUnquotedKeeps ==
    ASSUME IInv, NEW id \in OrderIds, NEW r \in Requests, PlaceUnquoted(OrderOf(id, r))
    PROVE  IInv'
  <1> DEFINE o == OrderOf(id, r)
  <1>1. /\ Consistent(o) /\ o.id = id /\ ~IsFinal(o) BY NewIsMatchable
  <1> HIDE DEF o
  <1>2. /\ id \notin DOMAIN orders
        /\ orders' = With(orders, id, o)
        /\ queueVol' = With(queueVol, id, Unmeasured)
        /\ matching = {} /\ canceling = NoOrder
        /\ UNCHANGED <<running, subscribed, mds, account, matching, canceling, callbacks>>
    BY <1>1 DEF PlaceUnquoted, Idle, o
  <1>3. /\ DOMAIN orders' = DOMAIN orders \cup {id} /\ orders'[id] = o
        /\ \A i \in DOMAIN orders : i # id /\ orders'[i] = orders[i]
    BY <1>2 DEF With
  <1>4. /\ DOMAIN queueVol' = DOMAIN queueVol \cup {id} /\ queueVol'[id] = Unmeasured
        /\ \A i \in DOMAIN queueVol : i # id => queueVol'[i] = queueVol[i]
    BY <1>2 DEF With
  <1>5. TypeOK'
    BY <1>1, <1>2, <1>3, <1>4 DEF IInv, TypeOK, Consistent, Unmeasured
  <1>6. OpenOrdersRest'
    BY <1>1, <1>2, <1>3, <1>4 DEF IInv, TypeOK, OpenOrdersRest, Unfinished, IsFinal
  <1>7. QuantitiesMatchStatus'
    BY <1>1, <1>2, <1>3 DEF IInv, QuantitiesMatchStatus, Consistent, PARTIALCANCEL,
       CANCELED
  <1>8. StrandInv' BY <1>1, <1>2, <1>3 DEF IInv, StrandInv, Consistent
  <1> QED BY <1>5, <1>6, <1>7, <1>8 DEF IInv

\* Placing an order of a quoted symbol: the match leaves it consistent, and it
\* rests exactly if it is not final.
LEMMA PlaceQuotedKeeps ==
    ASSUME IInv, NEW id \in OrderIds, NEW r \in Requests, PlaceQuoted(OrderOf(id, r))
    PROVE  IInv'
  <1> DEFINE o == OrderOf(id, r)
             md == mds[o.symbol]
             m == Match(o, Unmeasured, md)
  <1>1. /\ Matchable(o) /\ Consistent(o) /\ o.id = id BY NewIsMatchable
  <1>2. o \in Order /\ o.cancelQty = 0 BY <1>1 DEF Consistent
  <1>3. /\ id \notin DOMAIN orders /\ md # NoQuote
        /\ orders' = With(orders, id, m.order)
        /\ queueVol' = IF IsFinal(m.order) THEN queueVol
                       ELSE With(queueVol, id, m.queueVol)
        /\ account' = Settled(Frozen(account, o, md), m.order, o)
        /\ Publish(m.order)
        /\ matching = {} /\ canceling = NoOrder
        /\ UNCHANGED <<running, subscribed, mds, matching, canceling>>
    BY <1>1 DEF PlaceQuoted, Idle
  <1>4. md \in MarketDepth
    <2>1. o.symbol \in Symbols BY <1>2, OrderNumbers
    <2> HIDE DEF o
    <2> QED BY <1>3, <2>1, QuoteType DEF IInv
  <1>5. Consistent(m.order) /\ Extends(o, m.order) /\ m.queueVol \in Int
    <2>1. Unmeasured \in Int BY DEF Unmeasured
    <2> HIDE DEF o, md
    <2> QED BY <1>1, <1>2, <1>4, <2>1, MatchedIsConsistent
  <1> HIDE DEF o, md, m
  <1>6. m.order \in Order /\ m.order.id = id BY <1>1, <1>5 DEF Consistent, Extends
  <1>7. account' \in Account
    <2>1. account \in Account BY DEF IInv, TypeOK
    <2>2. Frozen(account, o, md) \in Account BY <1>2, <1>4, <2>1, FrozenType
    <2> QED BY <1>2, <1>3, <1>6, <2>2, SettledType
  <1>8. callbacks' \in Seq(Order) BY <1>3, <1>6, PublishType DEF IInv, TypeOK
  <1>9. /\ DOMAIN orders' = DOMAIN orders \cup {id} /\ orders'[id] = m.order
        /\ \A i \in DOMAIN orders : i # id /\ orders'[i] = orders[i]
    BY <1>3 DEF With
  <1>10. /\ DOMAIN queueVol' = DOMAIN queueVol \cup (IF IsFinal(m.order) THEN {} ELSE {id})
         /\ \A i \in DOMAIN queueVol' : queueVol'[i] \in Int
    <2>1. DOMAIN queueVol \subseteq DOMAIN orders BY DEF IInv, TypeOK
    <2>2. \A i \in DOMAIN queueVol : queueVol[i] \in Int BY DEF IInv, TypeOK
    <2> QED BY <1>3, <1>5, <2>1, <2>2 DEF With
  <1>11. TypeOK'
    BY <1>3, <1>6, <1>7, <1>8, <1>9, <1>10 DEF IInv, TypeOK
  <1>12. OpenOrdersRest'
    <2>1. id # NoOrder BY NoOrderIsNone
    <2> QED BY <1>3, <1>9, <1>10, <2>1 DEF IInv, TypeOK, OpenOrdersRest, Unfinished, IsFinal
  <1>13. QuantitiesMatchStatus'
    BY <1>3, <1>5, <1>9 DEF IInv, QuantitiesMatchStatus, Consistent, PARTIALCANCEL,
       CANCELED
  <1>14. StrandInv' BY <1>3, <1>5, <1>9 DEF IInv, StrandInv, Consistent
  <1> QED BY <1>11, <1>12, <1>13, <1>14 DEF IInv

\* The order a quote is matched with next: it rests, it can be matched, and its
\* symbol is quoted.
LEMMA MatchingFacts ==
    ASSUME IInv, NEW id \in matching
    PROVE  /\ canceling = NoOrder /\ id \in DOMAIN orders /\ id \in DOMAIN queueVol
           /\ orders[id].symbol \in Symbols
           /\ mds[orders[id].symbol] \in MarketDepth
           /\ LET m == Match(orders[id], queueVol[id], mds[orders[id].symbol])
              IN  /\ Consistent(m.order) /\ Extends(orders[id], m.order)
                  /\ m.queueVol \in Int
  <1>1. /\ canceling = NoOrder /\ id \in DOMAIN orders /\ id \in DOMAIN queueVol
        /\ orders[id] \in Order /\ id \in OrderIds /\ queueVol[id] \in Int
    BY DEF IInv, TypeOK, StrandInv
  <1>2. id # canceling BY <1>1, NoOrderIsNone
  <1>3. Matchable(orders[id]) /\ orders[id].cancelQty = 0
    BY <1>1, <1>2, RestingIsMatchable DEF Unfinished
  <1>4. orders[id].symbol \in Symbols BY <1>1, OrderNumbers
  <1>5. mds[orders[id].symbol] \in MarketDepth
    BY <1>4, QuoteType DEF IInv, StrandInv
  <1> QED BY <1>1, <1>3, <1>4, <1>5, MatchedIsConsistent

\* A quote that updates a resting order.
LEMMA MatchUpdatesKeeps ==
    ASSUME IInv, NEW id \in matching, MatchUpdates(id)
    PROVE  IInv'
  <1> DEFINE m == Match(orders[id], queueVol[id], mds[orders[id].symbol])
  <1>1. /\ canceling = NoOrder /\ id \in DOMAIN orders /\ id \in DOMAIN queueVol
        /\ Consistent(m.order) /\ Extends(orders[id], m.order) /\ m.queueVol \in Int
    BY MatchingFacts
  <1>2. /\ orders' = [orders EXCEPT ![id] = m.order]
        /\ queueVol' = IF IsFinal(m.order) THEN Without(queueVol, id)
                       ELSE [queueVol EXCEPT ![id] = m.queueVol]
        /\ account' = Settled(account, m.order, orders[id])
        /\ Publish(m.order)
        /\ matching' = matching \ {id}
        /\ UNCHANGED <<running, subscribed, mds, canceling>>
    BY DEF MatchUpdates
  <1> HIDE DEF m
  <1>3. /\ orders[id] \in Order /\ orders[id].id = id /\ id \in OrderIds
        /\ account \in Account /\ callbacks \in Seq(Order)
        /\ DOMAIN queueVol \subseteq DOMAIN orders
        /\ \A i \in DOMAIN queueVol : queueVol[i] \in Int
        /\ matching \subseteq DOMAIN queueVol
    BY <1>1 DEF IInv, TypeOK
  <1>4. m.order \in Order /\ m.order.id = id /\ m.order.symbol = orders[id].symbol
    BY <1>1, <1>3 DEF Consistent, Extends
  <1>5. account' \in Account BY <1>2, <1>3, <1>4, SettledType
  <1>6. callbacks' \in Seq(Order) BY <1>2, <1>3, <1>4, PublishType
  <1>7. /\ DOMAIN orders' = DOMAIN orders /\ orders'[id] = m.order
        /\ \A i \in DOMAIN orders : i # id => orders'[i] = orders[i]
    BY <1>1, <1>2
  <1>8. /\ DOMAIN queueVol' = DOMAIN queueVol \ (IF IsFinal(m.order) THEN {id} ELSE {})
        /\ \A i \in DOMAIN queueVol' : queueVol'[i] \in Int
    BY <1>1, <1>2, <1>3 DEF Without
  <1>9. TypeOK'
    BY <1>1, <1>2, <1>3, <1>4, <1>5, <1>6, <1>7, <1>8 DEF IInv, TypeOK
  <1>10. OpenOrdersRest'
    BY <1>1, <1>2, <1>3, <1>7, <1>8, NoOrderIsNone
    DEF IInv, TypeOK, OpenOrdersRest, Unfinished, IsFinal
  <1>11. QuantitiesMatchStatus'
    BY <1>1, <1>2, <1>7 DEF IInv, QuantitiesMatchStatus, Consistent, PARTIALCANCEL,
       CANCELED
  <1>12. StrandInv'
    BY <1>1, <1>2, <1>3, <1>4, <1>7 DEF IInv, StrandInv, Consistent
  <1> QED BY <1>9, <1>10, <1>11, <1>12 DEF IInv

\* A quote that only moves an order in its queue.
LEMMA MatchQueuesKeeps ==
    ASSUME IInv, NEW id \in matching, MatchQueues(id)
    PROVE  IInv'
  <1> DEFINE m == Match(orders[id], queueVol[id], mds[orders[id].symbol])
  <1>1. m.queueVol \in Int /\ id \in DOMAIN queueVol BY MatchingFacts
  <1>2. /\ queueVol' = [queueVol EXCEPT ![id] = m.queueVol]
        /\ matching' = matching \ {id}
        /\ UNCHANGED <<running, subscribed, orders, mds, account, canceling, callbacks>>
    BY DEF MatchQueues
  <1> HIDE DEF m
  <1>3. /\ DOMAIN queueVol' = DOMAIN queueVol
        /\ \A i \in DOMAIN queueVol : queueVol[i] \in Int => queueVol'[i] \in Int
    BY <1>1, <1>2
  <1>4. TypeOK' BY <1>2, <1>3 DEF IInv, TypeOK
  <1>5. OpenOrdersRest' BY <1>2, <1>3 DEF IInv, OpenOrdersRest, Unfinished
  <1>6. QuantitiesMatchStatus' BY <1>2 DEF IInv, QuantitiesMatchStatus
  <1>7. StrandInv' BY <1>2 DEF IInv, StrandInv
  <1> QED BY <1>4, <1>5, <1>6, <1>7 DEF IInv

\* The first half of a cancellation.
LEMMA CancelMarkKeeps ==
    ASSUME IInv, NEW id \in OrderIds, CancelMark(id)
    PROVE  IInv'
  <1> DEFINE status == IF orders[id].filledQty = 0 THEN CANCELED ELSE PARTIALCANCEL
             marked == [orders[id] EXCEPT !.status = status]
  <1>1. /\ matching = {} /\ canceling = NoOrder
        /\ id \in DOMAIN orders /\ ~IsFinal(orders[id])
        /\ orders' = [orders EXCEPT ![id] = marked]
        /\ callbacks' = [i \in DOMAIN callbacks |->
                          IF callbacks[i] = orders[id] THEN marked ELSE callbacks[i]]
        /\ canceling' = id
        /\ UNCHANGED <<running, subscribed, queueVol, mds, account, matching>>
    BY DEF CancelMark, Cancelable, Idle
  <1>2. /\ orders[id] \in Order /\ orders[id].id = id /\ callbacks \in Seq(Order)
    BY <1>1 DEF IInv, TypeOK
  <1>3. /\ CANCELED \in OrderStatus /\ PARTIALCANCEL \in OrderStatus
        /\ CANCELED \in FinalStatus /\ PARTIALCANCEL \in FinalStatus
        /\ CANCELED # FILLED /\ PARTIALCANCEL # FILLED
        /\ CANCELED # REJECTED /\ PARTIALCANCEL # REJECTED
        /\ CANCELED # PARTIALCANCEL
        /\ FILLED \in FinalStatus
    BY DEF CANCELED, PARTIALCANCEL, OrderStatus, FinalStatus, FILLED, REJECTED
  <1>4. /\ marked \in Order /\ marked.id = id /\ marked.status = status
        /\ marked.filledQty = orders[id].filledQty
        /\ marked.orderQty = orders[id].orderQty
        /\ marked.cancelQty = orders[id].cancelQty
        /\ marked.price = orders[id].price
    BY <1>2, <1>3 DEF Order
  <1>5. callbacks' \in Seq(Order)
    <2> HIDE DEF marked
    <2> QED BY <1>1, <1>2, <1>4, MarkedQueue
  <1> HIDE DEF marked
  <1>6. /\ DOMAIN orders' = DOMAIN orders /\ orders'[id] = marked
        /\ \A i \in DOMAIN orders : i # id => orders'[i] = orders[i]
    BY <1>1
  <1>7. TypeOK' BY <1>1, <1>4, <1>5, <1>6 DEF IInv, TypeOK
  <1>8. OpenOrdersRest'
    <2>1. IsFinal(marked) BY <1>3, <1>4 DEF IsFinal
    <2>2. id \in Unfinished BY <1>1 DEF IInv, OpenOrdersRest
    <2> QED BY <1>1, <1>6, <2>1, <2>2, NoOrderIsNone
        DEF IInv, TypeOK, OpenOrdersRest, Unfinished, IsFinal
  <1>9. QuantitiesMatchStatus'
    <2>1. /\ orders[id].filledQty <= orders[id].orderQty
          /\ orders[id].filledQty # orders[id].orderQty
      BY <1>1, <1>3 DEF IInv, QuantitiesMatchStatus, IsFinal
    <2>2. orders[id].cancelQty = 0
      BY <1>1, <1>3 DEF IInv, QuantitiesMatchStatus, IsFinal
    <2>3. /\ marked.filledQty <= marked.orderQty
          /\ marked.filledQty # marked.orderQty /\ marked.status # FILLED
          /\ marked.status = PARTIALCANCEL => marked.filledQty > 0
          /\ marked.status \in {CANCELED, REJECTED} => marked.filledQty = 0
          /\ marked.cancelQty = 0
      BY <1>2, <1>3, <1>4, <2>1, <2>2, OrderNumbers
    <2>4. canceling = NoOrder /\ canceling' = id /\ NoOrder \notin DOMAIN orders
      BY <1>1, NoOrderIsNone DEF IInv, TypeOK
    <2> QED BY <1>6, <2>3, <2>4 DEF IInv, QuantitiesMatchStatus
  <1>10. StrandInv'
    <2>1. marked.price = 0 => marked.filledQty = 0 BY <1>1, <1>4 DEF IInv, StrandInv
    <2> QED BY <1>1, <1>4, <1>6, <2>1 DEF IInv, StrandInv
  <1> QED BY <1>7, <1>8, <1>9, <1>10 DEF IInv

\* The second half of a cancellation.
LEMMA CancelFinishKeeps ==
    ASSUME IInv, CancelFinish
    PROVE  IInv'
  <1> DEFINE marked == orders[canceling]
             done   == [marked EXCEPT !.cancelQty = marked.orderQty - marked.filledQty]
             queued == [i \in DOMAIN callbacks |->
                         IF callbacks[i] = marked THEN done ELSE callbacks[i]]
  <1>1. /\ canceling # NoOrder
        /\ orders' = [orders EXCEPT ![canceling] = done]
        /\ account' = Settled(account, done, marked)
        /\ callbacks' = IF subscribed THEN Append(queued, done) ELSE queued
        /\ queueVol' = Without(queueVol, canceling)
        /\ canceling' = NoOrder
        /\ UNCHANGED <<running, subscribed, mds, matching>>
    BY DEF CancelFinish
  <1>2. /\ canceling \in DOMAIN orders /\ marked \in Order /\ marked.id = canceling
        /\ callbacks \in Seq(Order) /\ account \in Account
        /\ matching = {}
        /\ marked.status \in {CANCELED, PARTIALCANCEL}
    BY <1>1 DEF IInv, TypeOK, StrandInv
  <1>3. /\ done \in Order /\ done.id = canceling /\ done.status = marked.status
        /\ done.filledQty = marked.filledQty /\ done.orderQty = marked.orderQty
        /\ done.price = marked.price
        /\ done.cancelQty = done.orderQty - done.filledQty
    <2>1. marked.orderQty - marked.filledQty \in Int BY <1>2, OrderNumbers
    <2> HIDE DEF marked
    <2> QED BY <1>2, <2>1 DEF Order
  <1>4. callbacks' \in Seq(Order)
    <2> HIDE DEF marked, done
    <2>1. queued \in Seq(Order) BY <1>2, <1>3, MarkedQueue
    <2> HIDE DEF queued
    <2> QED BY <1>1, <1>3, <2>1, AppendProperties
  <1>5. account' \in Account
    <2> HIDE DEF marked, done
    <2> QED BY <1>1, <1>2, <1>3, SettledType
  <1> HIDE DEF done
  <1>6. /\ DOMAIN orders' = DOMAIN orders /\ orders'[canceling] = done
        /\ \A i \in DOMAIN orders : i # canceling => orders'[i] = orders[i]
    BY <1>1, <1>2
  <1>7. /\ DOMAIN queueVol' = DOMAIN queueVol \ {canceling}
        /\ \A i \in DOMAIN queueVol' : queueVol'[i] = queueVol[i]
    BY <1>1 DEF Without
  <1>8. TypeOK' BY <1>1, <1>2, <1>3, <1>4, <1>5, <1>6, <1>7 DEF IInv, TypeOK
  <1>9. OpenOrdersRest'
    <2>1. IsFinal(done) BY <1>2, <1>3 DEF IsFinal, FinalStatus
    <2>2. NoOrder \notin DOMAIN orders BY NoOrderIsNone DEF IInv, TypeOK
    <2> QED BY <1>1, <1>6, <1>7, <2>1, <2>2 DEF IInv, OpenOrdersRest, Unfinished, IsFinal
  <1>10. QuantitiesMatchStatus'
    <2>1. NoOrder \notin DOMAIN orders BY NoOrderIsNone DEF IInv, TypeOK
    <2>2. /\ done.filledQty <= done.orderQty
          /\ done.filledQty = done.orderQty <=> done.status = FILLED
          /\ done.status = PARTIALCANCEL => done.filledQty > 0
          /\ done.status \in {CANCELED, REJECTED} => done.filledQty = 0
      BY <1>2, <1>3 DEF IInv, QuantitiesMatchStatus
    <2> QED BY <1>1, <1>2, <1>3, <1>6, <2>1, <2>2 DEF IInv, QuantitiesMatchStatus
  <1>11. StrandInv'
    <2>1. done.price = 0 => done.filledQty = 0 BY <1>2, <1>3 DEF IInv, StrandInv
    <2> QED BY <1>1, <1>2, <1>6, <2>1 DEF IInv, StrandInv
  <1> QED BY <1>8, <1>9, <1>10, <1>11 DEF IInv

\* A new quote.
LEMMA OnMarketDepthKeeps ==
    ASSUME IInv, NEW md \in Quotes, OnMarketDepth(md)
    PROVE  IInv'
  <1>1. /\ matching = {} /\ canceling = NoOrder
        /\ mds' = [mds EXCEPT ![md.symbol] = md]
        /\ matching' = IF md.continuous
                       THEN {id \in Unfinished : orders[id].symbol = md.symbol} ELSE {}
        /\ UNCHANGED <<running, subscribed, orders, queueVol, account, canceling,
                       callbacks>>
    BY DEF OnMarketDepth, Idle
  <1>2. md \in MarketDepth /\ NoQuote \notin MarketDepth BY BookAssumption
  <1>3. md.symbol \in Symbols BY <1>2 DEF MarketDepth
  <1>4. mds \in [Symbols -> Quotes \cup {NoQuote}] BY DEF IInv, TypeOK
  <1>5. mds' \in [Symbols -> Quotes \cup {NoQuote}] /\ mds'[md.symbol] # NoQuote
    BY <1>1, <1>2, <1>3, <1>4
  <1>6. TypeOK' BY <1>1, <1>5 DEF IInv, TypeOK, Unfinished
  <1>7. OpenOrdersRest' BY <1>1 DEF IInv, OpenOrdersRest, Unfinished
  <1>8. QuantitiesMatchStatus' BY <1>1 DEF IInv, QuantitiesMatchStatus
  <1>9. StrandInv' BY <1>1, <1>5 DEF IInv, StrandInv
  <1> QED BY <1>6, <1>7, <1>8, <1>9 DEF IInv

\* Stopping the book.
LEMMA StopKeeps ==
    ASSUME IInv, Stop
    PROVE  IInv'
  <1> USE DEF Stop, Idle
  <1>1. DOMAIN orders' = {} /\ DOMAIN queueVol' = {} /\ matching' = {}
        /\ canceling' = NoOrder
    OBVIOUS
  <1>2. TypeOK' BY <1>1 DEF IInv, TypeOK
  <1>3. OpenOrdersRest' /\ QuantitiesMatchStatus' /\ StrandInv'
    BY <1>1 DEF OpenOrdersRest, QuantitiesMatchStatus, StrandInv
  <1> QED BY <1>2, <1>3 DEF IInv

\* The steps that touch neither orders nor accounts: subscriptions, a number
\* used twice, and the subscriber's own turn.
LEMMA QuietKeeps ==
    ASSUME IInv,
           \/ Subscribe \/ Unsubscribe \/ Deliver
           \/ \E id \in OrderIds, r \in Requests : PlaceDuplicate(OrderOf(id, r))
    PROVE  IInv'
  <1>1. /\ UNCHANGED <<running, orders, queueVol, mds, account, matching, canceling>>
        /\ subscribed' \in BOOLEAN
    BY DEF Subscribe, Unsubscribe, Deliver, PlaceDuplicate, IInv, TypeOK
  <1>2. callbacks \in Seq(Order) BY DEF IInv, TypeOK
  <1>3. callbacks' \in Seq(Order)
    <2>1. CASE Subscribe \/ Unsubscribe BY <1>2, <2>1 DEF Subscribe, Unsubscribe
    <2>2. CASE Deliver BY <1>2, <2>2, HeadTailProperties DEF Deliver
    <2>3. ASSUME NEW id \in OrderIds, NEW r \in Requests,
                 PlaceDuplicate(OrderOf(id, r))
          PROVE  callbacks' \in Seq(Order)
      <3> DEFINE copy == [OrderOf(id, r) EXCEPT !.status = REJECTED]
      <3>1. OrderOf(id, r) \in Order BY NewIsMatchable DEF Matchable
      <3>2. copy \in Order BY <3>1 DEF Order, OrderStatus
      <3>3. callbacks' = IF subscribed THEN <<copy>> \o callbacks ELSE callbacks
        BY <2>3 DEF PlaceDuplicate
      <3> HIDE DEF copy
      <3>4. <<copy>> \in Seq(Order) BY <3>2
      <3> QED BY <1>2, <3>3, <3>4, ConcatProperties
    <2> QED BY <2>1, <2>2, <2>3
  <1>4. TypeOK' BY <1>1, <1>3 DEF IInv, TypeOK
  <1>5. OpenOrdersRest' BY <1>1 DEF IInv, OpenOrdersRest, Unfinished
  <1>6. QuantitiesMatchStatus' BY <1>1 DEF IInv, QuantitiesMatchStatus
  <1>7. StrandInv' BY <1>1 DEF IInv, StrandInv
  <1> QED BY <1>4, <1>5, <1>6, <1>7 DEF IInv

\* What the book may be asked to do, whoever asks and whenever.
BookStep ==
    \/ Subscribe \/ Unsubscribe \/ Deliver
    \/ \E id \in OrderIds, r \in Requests : Place(OrderOf(id, r))
    \/ \E id \in OrderIds : CancelMark(id)
    \/ \E md \in Quotes : OnMarketDepth(md)
    \/ StrandStep
    \/ Stop
    \/ UNCHANGED bookVars

LEMMA StepKeeps ==
    ASSUME IInv, BookStep
    PROVE  IInv'
  <1>1. CASE UNCHANGED bookVars
    BY <1>1 DEF bookVars, IInv, TypeOK, OpenOrdersRest, QuantitiesMatchStatus, StrandInv,
       Unfinished
  <1>2. CASE Subscribe \/ Unsubscribe \/ Deliver BY <1>2, QuietKeeps
  <1>3. ASSUME NEW id \in OrderIds, NEW r \in Requests, Place(OrderOf(id, r))
        PROVE  IInv'
    BY <1>3, PlaceUnquotedKeeps, PlaceQuotedKeeps, QuietKeeps DEF Place
  <1>4. ASSUME NEW id \in OrderIds, CancelMark(id) PROVE IInv'
    BY <1>4, CancelMarkKeeps
  <1>5. ASSUME NEW md \in Quotes, OnMarketDepth(md) PROVE IInv'
    BY <1>5, OnMarketDepthKeeps
  <1>6. CASE StrandStep
    BY <1>6, CancelFinishKeeps, MatchUpdatesKeeps, MatchQueuesKeeps DEF StrandStep
  <1>7. CASE Stop BY <1>7, StopKeeps
  <1> QED BY <1>1, <1>2, <1>3, <1>4, <1>5, <1>6, <1>7 DEF BookStep

\* Every step of the book keeps the invariant.
LEMMA NextKeeps ==
    ASSUME IInv, [Next]_bookVars
    PROVE  IInv'
  <1>1. BookStep BY DEF Next, BookStep
  <1> QED BY <1>1, StepKeeps

\* The inductive invariant is an invariant.
THEOREM InvariantHolds == Spec => []IInv
  BY InitIInv, NextKeeps, PTL DEF Spec

-----------------------------------------------------------------------------
(* The theorems *)

\* Every variable of the book always has its type: the maps of the book agree on
\* their keys, and every number, account and queued update is well formed.
THEOREM BookTyped == Spec => []TypeOK
  <1>1. IInv => TypeOK BY DEF IInv
  <1> QED BY <1>1, InvariantHolds, PTL

\* The three places that erase an order from symbol2UnFinishedOrders agree: an
\* order rests exactly while it is open, or being cancelled.
THEOREM OpenOrdersAlwaysRest == Spec => []OpenOrdersRest
  <1>1. IInv => OpenOrdersRest BY DEF IInv
  <1> QED BY <1>1, InvariantHolds, PTL

\* No order is ever filled beyond its size, and its quantities and its status
\* tell the same story, whatever quotes, fills and cancellations it went through.
THEOREM QuantitiesAlwaysMatchStatus == Spec => []QuantitiesMatchStatus
  <1>1. IInv => QuantitiesMatchStatus BY DEF IInv
  <1> QED BY <1>1, InvariantHolds, PTL

\* What FinalOrdersAreFrozen says of one step.
FrozenStep ==
    \A id \in DOMAIN orders \cap DOMAIN orders' :
        /\ orders[id].filledQty <= orders'[id].filledQty
        /\ orders[id].filledAmt <= orders'[id].filledAmt
        /\ (IsFinal(orders[id]) /\ id # canceling) => orders'[id] = orders[id]

LEMMA UntouchedOrders ==
    ASSUME TypeOK, \A i \in DOMAIN orders \cap DOMAIN orders' : orders'[i] = orders[i]
    PROVE  FrozenStep
  <1>1. \A i \in DOMAIN orders : orders[i] \in Order BY DEF TypeOK
  <1>2. \A i \in DOMAIN orders : orders[i].filledQty \in Nat /\ orders[i].filledAmt \in Int
    BY <1>1, OrderNumbers
  <1> QED BY <1>2 DEF FrozenStep

LEMMA StepFreezes ==
    ASSUME IInv, [Next]_bookVars
    PROVE  FrozenStep
  <1>1. TypeOK /\ \A i \in DOMAIN orders : orders[i] \in Order BY DEF IInv, TypeOK
  <1>2. \A i \in DOMAIN orders : orders[i].filledQty \in Nat /\ orders[i].filledAmt \in Int
    BY <1>1, OrderNumbers
  <1>3. CASE UNCHANGED orders BY <1>1, <1>3, UntouchedOrders
  <1>4. CASE Stop BY <1>1, <1>4, UntouchedOrders DEF Stop
  <1>5. ASSUME NEW id \in OrderIds, NEW r \in Requests, Place(OrderOf(id, r))
        PROVE  FrozenStep
    <2>1. OrderOf(id, r).id = id BY NewIsMatchable
    <2>2. \A i \in DOMAIN orders : orders'[i] = orders[i]
      BY <1>5, <2>1 DEF Place, PlaceUnquoted, PlaceQuoted, PlaceDuplicate, With
    <2> QED BY <1>1, <2>2, UntouchedOrders
  <1>6. ASSUME NEW id \in OrderIds, CancelMark(id) PROVE FrozenStep
    <2> DEFINE status == IF orders[id].filledQty = 0 THEN CANCELED ELSE PARTIALCANCEL
               marked == [orders[id] EXCEPT !.status = status]
    <2>1. /\ id \in DOMAIN orders /\ ~IsFinal(orders[id])
          /\ orders' = [orders EXCEPT ![id] = marked]
      BY <1>6 DEF CancelMark, Cancelable
    <2>2. marked.filledQty = orders[id].filledQty /\ marked.filledAmt = orders[id].filledAmt
      BY <1>1, <2>1 DEF Order
    <2> HIDE DEF marked
    <2> QED BY <1>2, <2>1, <2>2 DEF FrozenStep
  <1>7. CASE CancelFinish
    <2> DEFINE marked == orders[canceling]
               done == [marked EXCEPT !.cancelQty = marked.orderQty - marked.filledQty]
    <2>1. canceling \in DOMAIN orders /\ orders' = [orders EXCEPT ![canceling] = done]
      BY <1>1, <1>7 DEF CancelFinish, TypeOK
    <2>2. done.filledQty = marked.filledQty /\ done.filledAmt = marked.filledAmt
      BY <1>1, <2>1 DEF Order
    <2> HIDE DEF done
    <2> QED BY <1>2, <2>1, <2>2 DEF FrozenStep
  <1>8. ASSUME NEW id \in matching, MatchUpdates(id) PROVE FrozenStep
    <2> DEFINE m == Match(orders[id], queueVol[id], mds[orders[id].symbol])
    <2>1. /\ canceling = NoOrder /\ id \in DOMAIN orders /\ id \in DOMAIN queueVol
          /\ Extends(orders[id], m.order)
      BY MatchingFacts
    <2>2. orders' = [orders EXCEPT ![id] = m.order] BY <1>8 DEF MatchUpdates
    <2>3. ~IsFinal(orders[id])
      BY <2>1, NoOrderIsNone DEF IInv, TypeOK, OpenOrdersRest, Unfinished
    <2> HIDE DEF m
    <2> QED BY <1>2, <2>1, <2>2, <2>3 DEF FrozenStep, Extends
  <1>9. CASE Next
    <2>1. CASE Subscribe \/ Unsubscribe \/ Deliver
      BY <1>3, <2>1 DEF Subscribe, Unsubscribe, Deliver
    <2>2. ASSUME NEW md \in Quotes, OnMarketDepth(md) PROVE FrozenStep
      BY <1>3, <2>2 DEF OnMarketDepth
    <2>3. CASE StrandStep
      BY <1>3, <1>7, <1>8, <2>3 DEF StrandStep, MatchQueues
    <2> QED BY <1>4, <1>5, <1>6, <1>9, <2>1, <2>2, <2>3 DEF Next
  <1> QED BY <1>3, <1>9 DEF bookVars

\* A final order is never touched again and no step takes a fill back.
THEOREM FinalOrdersStayFrozen == Spec => FinalOrdersAreFrozen
  <1>1. IInv /\ [Next]_bookVars => [FrozenStep]_bookVars BY StepFreezes
  <1>2. [][FrozenStep]_bookVars => FinalOrdersAreFrozen
    BY PTL DEF FrozenStep, FinalOrdersAreFrozen
  <1> QED BY <1>1, <1>2, InvariantHolds, PTL DEF Spec

-----------------------------------------------------------------------------
(* The refinement: the book implements OrderLife.  That each record is sound
   comes from the inductive invariant; that each step is a step of OrderLife is
   shown action by action. *)

\* The refinement mapping.
Lives == [id \in DOMAIN orders |-> LifeOf(orders[id])]

\* The statuses that end an order are told apart by Phase.
LEMMA PhaseCases ==
    ASSUME NEW o
    PROVE  /\ ~IsFinal(o) => Phase(o) = "open"
           /\ o.status = REJECTED => Phase(o) = "refused"
           /\ o.status \in {CANCELED, PARTIALCANCEL} =>
                Phase(o) = IF o.cancelQty = 0 THEN "ending" ELSE "done"
           /\ o.status = FILLED => Phase(o) = "done"
  BY DEF Phase, IsFinal, FinalStatus, REJECTED, CANCELED, PARTIALCANCEL, FILLED

\* The fields of a record, for the provers.
LEMMA LifeFields ==
    ASSUME NEW o
    PROVE  /\ LifeOf(o).terms = <<o.symbol, o.buy, o.price>>
           /\ LifeOf(o).size = o.orderQty /\ LifeOf(o).filled = o.filledQty
           /\ LifeOf(o).cancelled = o.cancelQty /\ LifeOf(o).phase = Phase(o)
  BY DEF LifeOf

\* An order whose quantities agree with its status is a sound record.
LEMMA SoundRecord ==
    ASSUME NEW o \in Order,
           o.filledQty <= o.orderQty,
           o.filledQty = o.orderQty <=> o.status = FILLED,
           o.status = REJECTED => o.filledQty = 0,
           o.status \in {CANCELED, PARTIALCANCEL} =>
               o.cancelQty \in {0, o.orderQty - o.filledQty},
           o.status \notin {CANCELED, PARTIALCANCEL} => o.cancelQty = 0
    PROVE  BookLife!Sound(LifeOf(o))
  <1> DEFINE l == LifeOf(o)
  <1>1. /\ l.size = o.orderQty /\ l.filled = o.filledQty /\ l.cancelled = o.cancelQty
        /\ l.phase = Phase(o)
    BY LifeFields
  <1>2. l.size \in Nat /\ l.filled \in Nat /\ l.cancelled \in Int
    BY <1>1, OrderNumbers
  <1> HIDE DEF l
  <1> SUFFICES BookLife!Sound(l) BY DEF l
  <1>3. CASE ~IsFinal(o)
    <2>1. o.status \notin {FILLED, CANCELED, PARTIALCANCEL}
      BY <1>3 DEF IsFinal, FinalStatus
    <2>2. l.phase = "open" /\ l.cancelled = 0 /\ l.filled <= l.size /\ l.filled # l.size
      BY <1>1, <1>3, <2>1, PhaseCases
    <2> QED BY <1>2, <2>2 DEF BookLife!Sound, BookLife!Phases
  <1>4. CASE o.status = FILLED
    <2>1. o.status \notin {CANCELED, PARTIALCANCEL}
      BY <1>4 DEF FILLED, CANCELED, PARTIALCANCEL
    <2>2. l.phase = "done" /\ l.cancelled = 0 /\ l.filled = l.size
      BY <1>1, <1>4, <2>1, PhaseCases
    <2> QED BY <1>2, <2>2 DEF BookLife!Sound, BookLife!Phases
  <1>5. CASE o.status = REJECTED
    <2>1. o.status \notin {CANCELED, PARTIALCANCEL}
      BY <1>5 DEF REJECTED, CANCELED, PARTIALCANCEL
    <2>2. l.phase = "refused" /\ l.cancelled = 0 /\ l.filled = 0
      BY <1>1, <1>5, <2>1, PhaseCases
    <2> QED BY <1>2, <2>2 DEF BookLife!Sound, BookLife!Phases
  <1>6. CASE o.status \in {CANCELED, PARTIALCANCEL}
    <2>1. o.status # FILLED BY <1>6 DEF FILLED, CANCELED, PARTIALCANCEL
    <2>2. l.filled < l.size BY <1>1, <1>2, <2>1
    <2>3. l.phase = IF l.cancelled = 0 THEN "ending" ELSE "done"
      BY <1>1, <1>6, PhaseCases
    <2>4. l.cancelled # 0 => l.filled + l.cancelled = l.size
      BY <1>1, <1>2, <1>6
    <2> QED BY <1>2, <2>2, <2>3, <2>4 DEF BookLife!Sound, BookLife!Phases
  <1> QED BY <1>3, <1>4, <1>5, <1>6 DEF IsFinal, FinalStatus

\* In a state of the invariant every order of the book is one.
LEMMA BookIsSound ==
    ASSUME IInv, NEW id \in DOMAIN orders
    PROVE  BookLife!Sound(LifeOf(orders[id]))
  <1> DEFINE o == orders[id]
  <1>1. o \in Order BY DEF IInv, TypeOK
  <1>2. /\ o.filledQty <= o.orderQty
        /\ o.filledQty = o.orderQty <=> o.status = FILLED
        /\ o.status \in {CANCELED, REJECTED} => o.filledQty = 0
        /\ o.cancelQty = IF o.status \in {CANCELED, PARTIALCANCEL} /\ id # canceling
                         THEN o.orderQty - o.filledQty ELSE 0
    BY DEF IInv, QuantitiesMatchStatus
  <1> HIDE DEF o
  <1>3. BookLife!Sound(LifeOf(o)) BY <1>1, <1>2, SoundRecord
  <1> QED BY <1>3 DEF o

\* ... after a step too.
AllSound == \A id \in DOMAIN orders : BookLife!Sound(LifeOf(orders[id]))

LEMMA InvariantIsSound == IInv => AllSound
  BY BookIsSound DEF AllSound

LEMMA NextIsSound == IInv' => AllSound'
  BY InvariantIsSound, PTL

-----------------------------------------------------------------------------
(* The ways in which the book's orders change *)

\* A step that adds one order.
LEMMA OneMore ==
    ASSUME IInv', NEW id \in OrderIds, id \notin DOMAIN orders,
           DOMAIN orders' = DOMAIN orders \cup {id},
           \A i \in DOMAIN orders : orders'[i] = orders[i]
    PROVE  BookLife!Next
  <1>1. BookLife!Sound(LifeOf(orders'[id]))
    BY NextIsSound DEF AllSound
  <1>2. \A i \in DOMAIN orders : LifeOf(orders'[i]) = LifeOf(orders[i])
    OBVIOUS
  <1>3. BookLife!Others(id) BY <1>2 DEF BookLife!Others
  <1>4. BookLife!Learn(id)
    BY <1>1, <1>3 DEF BookLife!Learn
  <1> QED BY <1>4 DEF BookLife!Next

\* A step that moves one order on.
LEMMA OneMoves ==
    ASSUME IInv', NEW id \in OrderIds, id \in DOMAIN orders,
           DOMAIN orders' = DOMAIN orders,
           \A i \in DOMAIN orders : i # id => orders'[i] = orders[i],
           BookLife!Advances(LifeOf(orders[id]), LifeOf(orders'[id]))
    PROVE  BookLife!Next
  <1>1. BookLife!Sound(LifeOf(orders'[id]))
    BY NextIsSound DEF AllSound
  <1>2. \A i \in DOMAIN orders \ {id} : LifeOf(orders'[i]) = LifeOf(orders[i])
    OBVIOUS
  <1>3. BookLife!Others(id) BY <1>2 DEF BookLife!Others
  <1>4. BookLife!Advance(id)
    BY <1>1, <1>3 DEF BookLife!Advance
  <1> QED BY <1>4 DEF BookLife!Next

\* An open order may become anything that has its terms and at least its fills.
LEMMA OpenAdvances ==
    ASSUME NEW o \in Order, NEW p \in Order, ~IsFinal(o),
           p.symbol = o.symbol, p.buy = o.buy, p.price = o.price,
           p.orderQty = o.orderQty, o.filledQty <= p.filledQty
    PROVE  BookLife!Advances(LifeOf(o), LifeOf(p))
  <1>1. LifeOf(o).phase = "open" BY PhaseCases, LifeFields
  <1> QED BY <1>1, LifeFields DEF BookLife!Advances

\* Placing an order.
LEMMA PlaceLives ==
    ASSUME IInv, IInv', NEW id \in OrderIds, NEW r \in Requests, Place(OrderOf(id, r))
    PROVE  BookLife!Next \/ orders' = orders
  <1>1. OrderOf(id, r).id = id BY NewIsMatchable
  <1>2. CASE PlaceDuplicate(OrderOf(id, r)) BY <1>2 DEF PlaceDuplicate
  <1>3. CASE PlaceUnquoted(OrderOf(id, r)) \/ PlaceQuoted(OrderOf(id, r))
    <2>1. id \notin DOMAIN orders
      BY <1>1, <1>3 DEF PlaceUnquoted, PlaceQuoted
    <2>2. \E o : orders' = With(orders, id, o)
      BY <1>1, <1>3 DEF PlaceUnquoted, PlaceQuoted
    <2>3. /\ DOMAIN orders' = DOMAIN orders \cup {id}
          /\ \A i \in DOMAIN orders : orders'[i] = orders[i]
      BY <2>1, <2>2 DEF With
    <2> QED BY <2>1, <2>3, OneMore
  <1> QED BY <1>2, <1>3 DEF Place

\* The first half of a cancellation: an open order is marked.
LEMMA CancelMarkLives ==
    ASSUME IInv, IInv', NEW id \in OrderIds, CancelMark(id)
    PROVE  BookLife!Next
  <1> DEFINE status == IF orders[id].filledQty = 0 THEN CANCELED ELSE PARTIALCANCEL
             marked == [orders[id] EXCEPT !.status = status]
  <1>1. /\ id \in DOMAIN orders /\ ~IsFinal(orders[id])
        /\ orders' = [orders EXCEPT ![id] = marked]
    BY DEF CancelMark, Cancelable
  <1>2. orders[id] \in Order /\ orders[id].filledQty \in Nat
    BY <1>1, OrderNumbers DEF IInv, TypeOK
  <1>3. orders'[id] \in Order BY <1>1 DEF IInv, TypeOK
  <1>4. /\ marked.symbol = orders[id].symbol /\ marked.buy = orders[id].buy
        /\ marked.price = orders[id].price /\ marked.orderQty = orders[id].orderQty
        /\ orders[id].filledQty <= marked.filledQty
    BY <1>2 DEF Order
  <1> HIDE DEF marked
  <1>5. orders'[id] = marked BY <1>1
  <1>6. BookLife!Advances(LifeOf(orders[id]), LifeOf(orders'[id]))
    BY <1>1, <1>2, <1>3, <1>4, <1>5, OpenAdvances
  <1> QED BY <1>1, <1>6, OneMoves

\* The second half: what was not filled is cancelled.
LEMMA CancelFinishLives ==
    ASSUME IInv, IInv', CancelFinish
    PROVE  BookLife!Next
  <1> DEFINE marked == orders[canceling]
             done   == [marked EXCEPT !.cancelQty = marked.orderQty - marked.filledQty]
  <1>1. /\ canceling \in DOMAIN orders /\ canceling \in OrderIds
        /\ orders' = [orders EXCEPT ![canceling] = done]
        /\ marked.status \in {CANCELED, PARTIALCANCEL}
    BY DEF CancelFinish, IInv, TypeOK, StrandInv
  <1>2. /\ marked \in Order /\ marked.filledQty \in Nat /\ marked.orderQty \in Nat
    BY <1>1, OrderNumbers DEF IInv, TypeOK
  <1>3. marked.cancelQty = 0 /\ marked.filledQty < marked.orderQty
    <2>1. marked.status # FILLED BY <1>1 DEF FILLED, CANCELED, PARTIALCANCEL
    <2>2. /\ marked.filledQty <= marked.orderQty
          /\ marked.filledQty # marked.orderQty /\ marked.cancelQty = 0
      BY <1>1, <2>1 DEF IInv, QuantitiesMatchStatus
    <2> QED BY <1>2, <2>2
  <1>4. /\ done.symbol = marked.symbol /\ done.buy = marked.buy
        /\ done.price = marked.price /\ done.orderQty = marked.orderQty
        /\ done.filledQty = marked.filledQty /\ done.status = marked.status
        /\ done.cancelQty = marked.orderQty - marked.filledQty
    BY <1>2 DEF Order
  <1> HIDE DEF marked, done
  <1>5. done.cancelQty # 0 BY <1>2, <1>3, <1>4
  <1>6. LifeOf(marked).phase = "ending" /\ LifeOf(done).phase = "done"
    BY <1>1, <1>3, <1>4, <1>5, PhaseCases, LifeFields
  <1>7. BookLife!Advances(LifeOf(marked), LifeOf(done))
    BY <1>2, <1>4, <1>6, LifeFields DEF BookLife!Advances
  <1>8. orders'[canceling] = done BY <1>1
  <1>9. BookLife!Advances(LifeOf(orders[canceling]), LifeOf(orders'[canceling]))
    BY <1>7, <1>8 DEF marked
  <1> QED BY <1>1, <1>9, OneMoves

\* A match that fills or ends an order.
LEMMA MatchUpdatesLives ==
    ASSUME IInv, IInv', NEW id \in matching, MatchUpdates(id)
    PROVE  BookLife!Next
  <1> DEFINE m == Match(orders[id], queueVol[id], mds[orders[id].symbol])
  <1>1. /\ canceling = NoOrder /\ id \in DOMAIN orders /\ id \in DOMAIN queueVol
        /\ Extends(orders[id], m.order)
    BY MatchingFacts
  <1>2. orders' = [orders EXCEPT ![id] = m.order] BY DEF MatchUpdates
  <1> HIDE DEF m
  <1>3. ~IsFinal(orders[id]) /\ id \in OrderIds
    BY <1>1, NoOrderIsNone DEF IInv, TypeOK, OpenOrdersRest, Unfinished
  <1>4. orders[id] \in Order /\ orders'[id] \in Order
    BY <1>1, <1>2 DEF IInv, TypeOK
  <1>5. orders'[id] = m.order BY <1>1, <1>2
  <1>6. BookLife!Advances(LifeOf(orders[id]), LifeOf(orders'[id]))
    BY <1>1, <1>3, <1>4, <1>5, OpenAdvances DEF Extends
  <1> QED BY <1>1, <1>2, <1>3, <1>6, OneMoves

-----------------------------------------------------------------------------
(* The refinement *)

LEMMA BookStepLives ==
    ASSUME IInv, IInv', [Next]_bookVars
    PROVE  BookLife!Next \/ orders' = orders
  <1>1. CASE UNCHANGED bookVars BY <1>1 DEF bookVars
  <1>2. CASE Next
    <2>1. CASE Subscribe \/ Unsubscribe \/ Deliver
      BY <2>1 DEF Subscribe, Unsubscribe, Deliver
    <2>2. ASSUME NEW id \in OrderIds, NEW r \in Requests, Place(OrderOf(id, r))
          PROVE  BookLife!Next \/ orders' = orders
      BY <2>2, PlaceLives
    <2>3. ASSUME NEW id \in OrderIds, CancelMark(id) PROVE BookLife!Next
      BY <2>3, CancelMarkLives
    <2>4. ASSUME NEW md \in Quotes, OnMarketDepth(md) PROVE orders' = orders
      BY <2>4 DEF OnMarketDepth
    <2>5. CASE StrandStep
      BY <2>5, CancelFinishLives, MatchUpdatesLives DEF StrandStep, MatchQueues
    <2>6. CASE Stop
      <3>1. DOMAIN orders' = {} BY <2>6 DEF Stop
      <3>2. BookLife!Forget BY <3>1 DEF BookLife!Forget
      <3> QED BY <3>2 DEF BookLife!Next
    <2> QED BY <1>2, <2>1, <2>2, <2>3, <2>4, <2>5, <2>6 DEF Next
  <1> QED BY <1>1, <1>2

\* The book is an implementation of OrderLife: whatever is placed, matched,
\* cancelled or stopped, each order it records keeps its terms, fills only while
\* open and within its size, and ends once, split into filled and cancelled.
THEOREM BookImplementsOrderLife == Spec => BookKeepsOrderLife
  <1>1. Init => BookLife!Init BY DEF Init, BookLife!Init
  <1>2. IInv /\ IInv' /\ [Next]_bookVars => [BookLife!Next]_Lives
    BY BookStepLives DEF Lives
  <1>3. [][BookLife!Next]_Lives /\ BookLife!Init => BookKeepsOrderLife
    BY DEF BookKeepsOrderLife, BookLife!Spec, Lives
  <1> QED BY <1>1, <1>2, <1>3, InvariantHolds, PTL DEF Spec
-----------------------------------------------------------------------------
(* SumFunctionOnSet, the sum the accounts and the trader's target are stated with, is
   a fold that takes the elements of a finite set in an order nobody knows.  These
   lemmas say that the order does not matter and what happens to a sum when one term
   changes, appears or goes.  Induction over the finite set is by a least
   counterexample. *)

\* A family of subsets of a finite set has a least one.
LEMMA LeastSubset ==
    ASSUME NEW S, IsFiniteSet(S), NEW B, B \subseteq SUBSET S, B # {}
    PROVE  \E T \in B : \A U \in B : U \subseteq T => U = T
  <1>1. \A T \in B : IsFiniteSet(T) BY FS_Subset
  <1>2. B \subseteq FiniteSubsetsOf(S) BY <1>1 DEF FiniteSubsetsOf
  <1>3. IsWellFoundedOn(StrictSubsetOrdering(S), FiniteSubsetsOf(S))
    BY FS_StrictSubsetOrderingWellFounded
  <1>4. PICK T \in B : \A U \in B : <<U, T>> \notin StrictSubsetOrdering(S)
    BY <1>2, <1>3, WFMin
  <1>5. \A U \in B : U \subseteq T => U = T
    BY <1>4 DEF StrictSubsetOrdering
  <1> QED BY <1>5

-----------------------------------------------------------------------------
(* Sums: the recursive function inside the fold *)

\* The element the fold takes next.
First(s) == CHOOSE x \in s : TRUE

\* g is that function, for the terms f and the subsets of S.
Iterates(f, S, g) ==
    g = [s \in SUBSET S |-> IF s = {} THEN 0 ELSE f[First(s)] + g[s \ {First(s)}]]

LEMMA SumIsIterated ==
    ASSUME NEW f, NEW S
    PROVE  SumFunctionOnSet(f, S) = (CHOOSE g : Iterates(f, S, g))[S]
  BY DEF SumFunctionOnSet, FoldFunctionOnSet, MapThenFoldSet, Iterates, First

LEMMA FirstIn ==
    ASSUME NEW s, s # {}
    PROVE  First(s) \in s
  BY DEF First

\* There is at most one such function: two agree on every subset.
LEMMA IteratesAgree ==
    ASSUME NEW f, NEW S, IsFiniteSet(S), NEW T \in SUBSET S, NEW g, NEW h,
           Iterates(f, S, g), Iterates(f, T, h)
    PROVE  \A s \in SUBSET T : g[s] = h[s]
  <1> DEFINE B == {s \in SUBSET T : g[s] # h[s]}
  <1> SUFFICES ASSUME B # {} PROVE FALSE OBVIOUS
  <1>1. IsFiniteSet(T) BY FS_Subset
  <1>0. B \subseteq SUBSET T OBVIOUS
  <1>2. PICK s \in B : \A U \in B : U \subseteq s => U = s
    <2> HIDE DEF B
    <2> QED BY <1>0, <1>1, LeastSubset
  <1>3. s \in SUBSET T /\ s \in SUBSET S /\ g[s] # h[s] OBVIOUS
  <1>4. g[s] = IF s = {} THEN 0 ELSE f[First(s)] + g[s \ {First(s)}]
    BY <1>3 DEF Iterates
  <1>5. h[s] = IF s = {} THEN 0 ELSE f[First(s)] + h[s \ {First(s)}]
    BY <1>3 DEF Iterates
  <1>6. s # {} BY <1>3, <1>4, <1>5
  <1>7. s \ {First(s)} \notin B BY <1>2, <1>6, FirstIn
  <1>8. g[s \ {First(s)}] = h[s \ {First(s)}] BY <1>3, <1>7
  <1> QED BY <1>3, <1>4, <1>5, <1>8

\* The function of a set is that of its subsets, restricted.
LEMMA IteratesBelow ==
    ASSUME NEW f, NEW S, NEW T \in SUBSET S, NEW g, Iterates(f, S, g)
    PROVE  Iterates(f, T, [s \in SUBSET T |-> g[s]])
  <1> DEFINE h == [s \in SUBSET T |-> g[s]]
  <1>1. ASSUME NEW s \in SUBSET T
        PROVE  h[s] = IF s = {} THEN 0 ELSE f[First(s)] + h[s \ {First(s)}]
    <2>1. s \in SUBSET S /\ s \ {First(s)} \in SUBSET T OBVIOUS
    <2>2. g[s] = IF s = {} THEN 0 ELSE f[First(s)] + g[s \ {First(s)}]
      BY <2>1 DEF Iterates
    <2> QED BY <2>1, <2>2
  <1>2. h = [s \in SUBSET T |-> h[s]] OBVIOUS
  <1> HIDE DEF h
  <1>3. h = [s \in SUBSET T |->
               IF s = {} THEN 0 ELSE f[First(s)] + h[s \ {First(s)}]]
    BY <1>1, <1>2
  <1> QED BY <1>3 DEF Iterates, h

\* A finite set has one.
LEMMA IteratesExists ==
    ASSUME NEW f, NEW S, IsFiniteSet(S)
    PROVE  \E g : Iterates(f, S, g)
  <1> DEFINE B == {T \in SUBSET S : ~ \E g : Iterates(f, T, g)}
  <1> SUFFICES ASSUME B # {} PROVE FALSE OBVIOUS
  <1>0. B \subseteq SUBSET S OBVIOUS
  <1>1. PICK T \in B : \A U \in B : U \subseteq T => U = T
    <2> HIDE DEF B
    <2> QED BY <1>0, LeastSubset
  <1>2. IsFiniteSet(T) BY FS_Subset
  <1> DEFINE It(U) == CHOOSE g : Iterates(f, U, g)
             Value(U) == It(U)[U]
             h == [s \in SUBSET T |->
                     IF s = {} THEN 0 ELSE f[First(s)] + Value(s \ {First(s)})]
  <1>3. ASSUME NEW U \in SUBSET T, U # T
        PROVE  Iterates(f, U, It(U))
    <2>1. U \notin B BY <1>1, <1>3
    <2>2. \E g : Iterates(f, U, g) BY <2>1
    <2> QED BY <2>2
  <1>4. ASSUME NEW U \in SUBSET T, U # T
        PROVE  h[U] = Value(U)
    <2>1. It(U)[U] = IF U = {} THEN 0 ELSE f[First(U)] + It(U)[U \ {First(U)}]
      <3>1. Iterates(f, U, It(U)) /\ U \in SUBSET U BY <1>3, <1>4
      <3> HIDE DEF It
      <3> QED BY <3>1 DEF Iterates
    <2>2. CASE U = {} BY <2>1, <2>2
    <2>3. CASE U # {}
      <3> DEFINE V == U \ {First(U)}
      <3>1. V \in SUBSET U /\ V \in SUBSET T /\ V # T BY <2>3, FirstIn
      <3>2. Iterates(f, V, It(V)) BY <1>3, <3>1
      <3>3. IsFiniteSet(U) BY <1>2, FS_Subset
      <3>4. It(U)[V] = It(V)[V]
        <4>1. Iterates(f, U, It(U)) BY <1>3, <1>4
        <4>2. \A s \in SUBSET V : It(U)[s] = It(V)[s]
          <5> HIDE DEF V, It
          <5> QED BY <3>1, <3>2, <3>3, <4>1, IteratesAgree
        <4> QED BY <4>2
      <3> QED BY <2>1, <2>3, <3>4
    <2> QED BY <2>2, <2>3
  <1>5. ASSUME NEW s \in SUBSET T, s # {}
        PROVE  h[s \ {First(s)}] = Value(s \ {First(s)})
    <2>1. s \ {First(s)} \in SUBSET T /\ s \ {First(s)} # T BY <1>5, FirstIn
    <2> QED BY <1>4, <2>1
  <1>6. h = [s \in SUBSET T |-> IF s = {} THEN 0 ELSE f[First(s)] + h[s \ {First(s)}]]
    <2>1. ASSUME NEW s \in SUBSET T
          PROVE  h[s] = IF s = {} THEN 0 ELSE f[First(s)] + h[s \ {First(s)}]
      <3>1. h[s] = IF s = {} THEN 0 ELSE f[First(s)] + Value(s \ {First(s)})
        OBVIOUS
      <3> HIDE DEF h, Value
      <3> QED BY <1>5, <3>1
    <2>2. h = [s \in SUBSET T |-> h[s]] OBVIOUS
    <2> HIDE DEF h
    <2> QED BY <2>1, <2>2
  <1>7. Iterates(f, T, h) BY <1>6 DEF Iterates
  <1> QED BY <1>7

-----------------------------------------------------------------------------
(* Sums *)

LEMMA SumIterates ==
    ASSUME NEW f, NEW S, IsFiniteSet(S)
    PROVE  \E g : Iterates(f, S, g) /\ SumFunctionOnSet(f, S) = g[S]
  BY SumIsIterated, IteratesExists

LEMMA SumEmpty ==
    ASSUME NEW f
    PROVE  SumFunctionOnSet(f, {}) = 0
  <1>1. PICK g : Iterates(f, {}, g) /\ SumFunctionOnSet(f, {}) = g[{}]
    BY SumIterates, FS_EmptySet
  <1> QED BY <1>1 DEF Iterates

\* One step of the fold.
LEMMA SumFirst ==
    ASSUME NEW f, NEW S, IsFiniteSet(S), S # {}
    PROVE  SumFunctionOnSet(f, S) = f[First(S)] + SumFunctionOnSet(f, S \ {First(S)})
  <1> DEFINE T == S \ {First(S)}
  <1>1. PICK g : Iterates(f, S, g) /\ SumFunctionOnSet(f, S) = g[S] BY SumIterates
  <1>2. IsFiniteSet(T) BY FS_RemoveElement
  <1>3. PICK h : Iterates(f, T, h) /\ SumFunctionOnSet(f, T) = h[T]
    <2> HIDE DEF T
    <2> QED BY <1>2, SumIterates
  <1>4. T \in SUBSET S OBVIOUS
  <1>5. g[S] = f[First(S)] + g[T] BY <1>1 DEF Iterates
  <1>6. \A s \in SUBSET T : g[s] = h[s]
    <2> HIDE DEF T
    <2> QED BY <1>1, <1>3, <1>4, IteratesAgree
  <1>7. g[T] = h[T] BY <1>6
  <1> QED BY <1>1, <1>3, <1>5, <1>7

\* A sum of integers is an integer.
LEMMA SumInt ==
    ASSUME NEW f, NEW S, IsFiniteSet(S), \A x \in S : f[x] \in Int
    PROVE  SumFunctionOnSet(f, S) \in Int
  <1> DEFINE B == {T \in SUBSET S : SumFunctionOnSet(f, T) \notin Int}
  <1> SUFFICES ASSUME B # {} PROVE FALSE OBVIOUS
  <1>0. B \subseteq SUBSET S OBVIOUS
  <1>1. PICK T \in B : \A U \in B : U \subseteq T => U = T
    <2> HIDE DEF B
    <2> QED BY <1>0, LeastSubset
  <1>2. T # {} BY SumEmpty
  <1>3. IsFiniteSet(T) /\ First(T) \in T BY <1>2, FS_Subset, FirstIn
  <1>4. T \ {First(T)} \notin B BY <1>1, <1>3
  <1>5. SumFunctionOnSet(f, T \ {First(T)}) \in Int BY <1>4
  <1>6. f[First(T)] \in Int BY <1>3
  <1>7. SumFunctionOnSet(f, T) = f[First(T)] + SumFunctionOnSet(f, T \ {First(T)})
    BY <1>2, <1>3, SumFirst
  <1>8. SumFunctionOnSet(f, T) \in Int BY <1>5, <1>6, <1>7
  <1> QED BY <1>8

\* A sum depends on its terms only.
LEMMA SumSame ==
    ASSUME NEW f, NEW g, NEW S, IsFiniteSet(S), \A x \in S : f[x] = g[x]
    PROVE  SumFunctionOnSet(f, S) = SumFunctionOnSet(g, S)
  <1> DEFINE B == {T \in SUBSET S : SumFunctionOnSet(f, T) # SumFunctionOnSet(g, T)}
  <1> SUFFICES ASSUME B # {} PROVE FALSE OBVIOUS
  <1>0. B \subseteq SUBSET S OBVIOUS
  <1>1. PICK T \in B : \A U \in B : U \subseteq T => U = T
    <2> HIDE DEF B
    <2> QED BY <1>0, LeastSubset
  <1>2. T # {} BY SumEmpty
  <1>3. IsFiniteSet(T) /\ First(T) \in T BY <1>2, FS_Subset, FirstIn
  <1>4. T \ {First(T)} \notin B BY <1>1, <1>3
  <1>5. SumFunctionOnSet(f, T \ {First(T)}) = SumFunctionOnSet(g, T \ {First(T)})
    BY <1>4
  <1>6. f[First(T)] = g[First(T)] BY <1>3
  <1>7. /\ SumFunctionOnSet(f, T) = f[First(T)] + SumFunctionOnSet(f, T \ {First(T)})
        /\ SumFunctionOnSet(g, T) = g[First(T)] + SumFunctionOnSet(g, T \ {First(T)})
    BY <1>2, <1>3, SumFirst
  <1> QED BY <1>5, <1>6, <1>7

\* Any term can be taken out, not only the one the fold takes first.
LEMMA SumOut ==
    ASSUME NEW f, NEW S, IsFiniteSet(S), \A x \in S : f[x] \in Int
    PROVE  \A x \in S : SumFunctionOnSet(f, S) = f[x] + SumFunctionOnSet(f, S \ {x})
  <1> DEFINE B == {T \in SUBSET S :
                     \E x \in T : SumFunctionOnSet(f, T)
                                    # f[x] + SumFunctionOnSet(f, T \ {x})}
  <1> SUFFICES ASSUME B # {} PROVE FALSE OBVIOUS
  <1>0. B \subseteq SUBSET S OBVIOUS
  <1>1. PICK T \in B : \A U \in B : U \subseteq T => U = T
    <2> HIDE DEF B
    <2> QED BY <1>0, LeastSubset
  <1>2. PICK x \in T : SumFunctionOnSet(f, T) # f[x] + SumFunctionOnSet(f, T \ {x})
    OBVIOUS
  <1> DEFINE y == First(T)
  <1>3. IsFiniteSet(T) /\ y \in T BY <1>2, FS_Subset, FirstIn
  <1>4. SumFunctionOnSet(f, T) = f[y] + SumFunctionOnSet(f, T \ {y})
    BY <1>2, <1>3, SumFirst
  <1> HIDE DEF y
  <1>5. x # y BY <1>2, <1>4
  <1>6. T \ {x} \notin B /\ T \ {y} \notin B BY <1>1, <1>2, <1>3
  <1>7. SumFunctionOnSet(f, T \ {x}) = f[y] + SumFunctionOnSet(f, (T \ {x}) \ {y})
    BY <1>3, <1>5, <1>6
  <1>8. SumFunctionOnSet(f, T \ {y}) = f[x] + SumFunctionOnSet(f, (T \ {y}) \ {x})
    BY <1>2, <1>5, <1>6
  <1>9. SumFunctionOnSet(f, (T \ {x}) \ {y}) = SumFunctionOnSet(f, (T \ {y}) \ {x})
    <2>1. (T \ {x}) \ {y} = (T \ {y}) \ {x} OBVIOUS
    <2> QED BY <2>1, Zenon
  <1>10. SumFunctionOnSet(f, (T \ {y}) \ {x}) \in Int
    <2>1. IsFiniteSet((T \ {y}) \ {x}) BY <1>3, FS_RemoveElement
    <2> QED BY <2>1, SumInt
  <1>11. f[x] \in Int /\ f[y] \in Int BY <1>2, <1>3
  <1> QED BY <1>2, <1>4, <1>7, <1>8, <1>9, <1>10, <1>11

\* A term appears.
LEMMA SumGrows ==
    ASSUME NEW f, NEW g, NEW S, IsFiniteSet(S), NEW x, x \notin S,
           \A y \in S : f[y] \in Int /\ g[y] = f[y], g[x] \in Int
    PROVE  SumFunctionOnSet(g, S \cup {x}) = SumFunctionOnSet(f, S) + g[x]
  <1>1. IsFiniteSet(S \cup {x}) BY FS_AddElement
  <1>2. \A y \in S \cup {x} : g[y] \in Int OBVIOUS
  <1>3. SumFunctionOnSet(g, S \cup {x})
          = g[x] + SumFunctionOnSet(g, (S \cup {x}) \ {x})
    BY <1>1, <1>2, SumOut
  <1>4. (S \cup {x}) \ {x} = S OBVIOUS
  <1>5. SumFunctionOnSet(g, (S \cup {x}) \ {x}) = SumFunctionOnSet(f, S)
    <2>1. SumFunctionOnSet(g, S) = SumFunctionOnSet(f, S) BY SumSame
    <2> QED BY <1>4, <2>1, Zenon
  <1>6. SumFunctionOnSet(f, S) \in Int BY SumInt
  <1> QED BY <1>3, <1>5, <1>6

\* A term changes.
LEMMA SumMoves ==
    ASSUME NEW f, NEW g, NEW S, IsFiniteSet(S), NEW x \in S,
           \A y \in S : f[y] \in Int, g[x] \in Int,
           \A y \in S \ {x} : g[y] = f[y]
    PROVE  SumFunctionOnSet(g, S) = SumFunctionOnSet(f, S) + (g[x] - f[x])
  <1> DEFINE T == S \ {x}
  <1>1. IsFiniteSet(T) BY FS_RemoveElement
  <1>2. SumFunctionOnSet(f, S) = f[x] + SumFunctionOnSet(f, T) BY SumOut
  <1>3. \A y \in S : g[y] \in Int OBVIOUS
  <1>4. SumFunctionOnSet(g, S) = g[x] + SumFunctionOnSet(g, T) BY <1>3, SumOut
  <1>5. SumFunctionOnSet(g, T) = SumFunctionOnSet(f, T) BY <1>1, SumSame
  <1>6. SumFunctionOnSet(f, T) \in Int BY <1>1, SumInt
  <1>7. f[x] \in Int OBVIOUS
  <1> QED BY <1>2, <1>4, <1>5, <1>6, <1>7

\* A sum of terms none of which is negative is not negative.
LEMMA SumNat ==
    ASSUME NEW f, NEW S, IsFiniteSet(S), \A x \in S : f[x] \in Nat
    PROVE  SumFunctionOnSet(f, S) \in Nat
  <1> DEFINE B == {T \in SUBSET S : SumFunctionOnSet(f, T) \notin Nat}
  <1> SUFFICES ASSUME B # {} PROVE FALSE OBVIOUS
  <1>0. B \subseteq SUBSET S OBVIOUS
  <1>1. PICK T \in B : \A U \in B : U \subseteq T => U = T
    <2> HIDE DEF B
    <2> QED BY <1>0, LeastSubset
  <1>2. T # {} BY SumEmpty
  <1>3. IsFiniteSet(T) /\ First(T) \in T BY <1>2, FS_Subset, FirstIn
  <1>4. T \ {First(T)} \notin B BY <1>1, <1>3
  <1>5. SumFunctionOnSet(f, T \ {First(T)}) \in Nat BY <1>4
  <1>6. f[First(T)] \in Nat BY <1>3
  <1>7. SumFunctionOnSet(f, T) = f[First(T)] + SumFunctionOnSet(f, T \ {First(T)})
    BY <1>2, <1>3, SumFirst
  <1>8. SumFunctionOnSet(f, T) \in Nat BY <1>5, <1>6, <1>7
  <1> QED BY <1>8

\* A term that is 0 appears.
LEMMA SumGrowsByNothing ==
    ASSUME NEW f, NEW g, NEW S, IsFiniteSet(S), NEW x, x \notin S,
           \A y \in S : f[y] \in Int /\ g[y] = f[y], g[x] = 0
    PROVE  SumFunctionOnSet(g, S \cup {x}) = SumFunctionOnSet(f, S)
  <1>1. SumFunctionOnSet(f, S) \in Int BY SumInt
  <1> QED BY <1>1, SumGrows

-----------------------------------------------------------------------------
(* Sums over the places of a queue *)

\* One more place.
LEMMA SumNext ==
    ASSUME NEW n \in Nat, NEW f, \A i \in 1..(n + 1) : f[i] \in Int
    PROVE  SumFunctionOnSet(f, 1..(n + 1)) = SumFunctionOnSet(f, 1..n) + f[n + 1]
  <1> DEFINE S == 1..n
             x == n + 1
  <1>1. IsFiniteSet(S) BY FS_Interval
  <1>2. x \notin S /\ (\A i \in S : f[i] \in Int) /\ f[x] \in Int OBVIOUS
  <1>3. 1..(n + 1) = S \cup {x} OBVIOUS
  <1>4. SumFunctionOnSet(f, S \cup {x}) = SumFunctionOnSet(f, S) + f[x]
    <2> HIDE DEF S, x
    <2> QED BY <1>1, <1>2, SumGrows
  <1>5. SumFunctionOnSet(f, 1..(n + 1)) = SumFunctionOnSet(f, S \cup {x})
    <2> HIDE DEF S, x
    <2> QED BY <1>3, Zenon
  <1> QED BY <1>4, <1>5

LEMMA SumNowhere ==
    ASSUME NEW f
    PROVE  SumFunctionOnSet(f, 1..0) = 0
  <1>1. 1..0 = {} OBVIOUS
  <1> QED BY <1>1, SumEmpty, Zenon

\* The sum over 1..n is the first term and the sum of the others, moved up.
LEMMA SumShift ==
    ASSUME NEW n \in Nat, NEW f, \A i \in 1..(n + 1) : f[i] \in Int,
           NEW g, \A i \in 1..n : g[i] = f[i + 1]
    PROVE  SumFunctionOnSet(f, 1..(n + 1)) = f[1] + SumFunctionOnSet(g, 1..n)
  <1> DEFINE Holds(m) == SumFunctionOnSet(f, 1..(m + 1))
                           = f[1] + SumFunctionOnSet(g, 1..m)
             B == {1..m : m \in {k \in 0..n : ~Holds(k)}}
             N == 1..n
  <1>1. SUFFICES ASSUME ~Holds(n) PROVE FALSE OBVIOUS
  <1>2. IsFiniteSet(N) BY FS_Interval
  <1>3. B \subseteq SUBSET N
    <2> HIDE DEF Holds
    <2> QED OBVIOUS
  <1>4. B # {}
    <2>1. n \in {k \in 0..n : ~Holds(k)}
      <3> HIDE DEF Holds
      <3> QED BY <1>1
    <2> HIDE DEF Holds
    <2> QED BY <2>1
  <1>5. PICK T \in B : \A U \in B : U \subseteq T => U = T
    <2> HIDE DEF B, N
    <2> QED BY <1>2, <1>3, <1>4, LeastSubset
  <1>6. PICK m \in 0..n : T = 1..m /\ ~Holds(m)
    <2> HIDE DEF Holds
    <2> QED OBVIOUS
  <1>7. f[1] \in Int OBVIOUS
  <1>8. Holds(0)
    <2> SUFFICES ASSUME NEW z \in Nat, z = 0 PROVE Holds(z) OBVIOUS
    <2>1. \A i \in 1..(z + 1) : f[i] \in Int OBVIOUS
    <2>2. SumFunctionOnSet(f, 1..(z + 1)) = SumFunctionOnSet(f, 1..z) + f[z + 1]
      BY <2>1, SumNext
    <2>3. SumFunctionOnSet(f, 1..z) = 0 /\ SumFunctionOnSet(g, 1..z) = 0
      BY SumNowhere
    <2> QED BY <1>7, <2>2, <2>3
  <1>9. ASSUME m # 0 PROVE Holds(m)
    <2> DEFINE k == m - 1
    <2>1. k \in 0..n /\ k \in Nat /\ k + 1 = m /\ m \in 1..n /\ m \in Nat BY <1>9
    <2>2. Holds(k)
      <3>1. 1..k \subseteq 1..m /\ 1..k # 1..m
        <4>1. m \notin 1..k /\ m \in 1..m BY <2>1
        <4> QED BY <2>1, <4>1
      <3> HIDE DEF Holds, k
      <3>2. 1..k \notin B BY <1>5, <1>6, <3>1
      <3> QED BY <2>1, <3>2
    <2> HIDE DEF k
    <2>3. SumFunctionOnSet(f, 1..m) = f[1] + SumFunctionOnSet(g, 1..k)
      <3>1. SumFunctionOnSet(f, 1..(k + 1)) = f[1] + SumFunctionOnSet(g, 1..k)
        BY <2>2
      <3> QED BY <2>1, <3>1
    <2>4. SumFunctionOnSet(f, 1..(m + 1)) = SumFunctionOnSet(f, 1..m) + f[m + 1]
      <3>1. \A i \in 1..(m + 1) : f[i] \in Int BY <2>1
      <3> QED BY <2>1, <3>1, SumNext
    <2>5. SumFunctionOnSet(g, 1..m) = SumFunctionOnSet(g, 1..k) + g[m]
      <3>1. \A i \in 1..(k + 1) : g[i] \in Int BY <2>1
      <3>2. SumFunctionOnSet(g, 1..(k + 1)) = SumFunctionOnSet(g, 1..k) + g[k + 1]
        BY <2>1, <3>1, SumNext
      <3> QED BY <2>1, <3>2
    <2>6. g[m] = f[m + 1] /\ g[m] \in Int /\ f[1] \in Int BY <2>1
    <2>7. SumFunctionOnSet(g, 1..k) \in Int
      <3>1. \A i \in 1..k : g[i] \in Int BY <2>1
      <3> DEFINE S == 1..k
      <3>2. IsFiniteSet(S) BY <2>1, FS_Interval
      <3> HIDE DEF S
      <3>3. SumFunctionOnSet(g, S) \in Int BY <3>1, <3>2, SumInt DEF S
      <3> QED BY <3>3 DEF S
    <2> QED BY <2>3, <2>4, <2>5, <2>6, <2>7
  <1> HIDE DEF Holds
  <1> QED BY <1>6, <1>8, <1>9

-----------------------------------------------------------------------------
(* The accounts balance: every sum over the orders changes by what the step
   moves in the account. *)

Balanced ==
    /\ account.cash = TotalOf([id \in DOMAIN orders |-> MoneyOf(orders[id])])
    /\ \A s \in Symbols :
         account.currentQty[s] - account.enabledQty[s]
             = TotalOf([id \in DOMAIN orders |-> HeldOf(orders[id], s)])

\* What AccountsBalance needs of the market and the traders: a quote of every
\* symbol from the start, and no order without a limit price.
PricedAndQuoted ==
    /\ 0 \notin Prices
    /\ OpeningQuote \in [Symbols -> Quotes]

BalanceInv ==
    /\ IInv
    /\ IsFiniteSet(DOMAIN orders)
    /\ running => \A s \in Symbols : mds[s] # NoQuote
    /\ running => Balanced

\* An update leaves the terms of its order alone.
SameTerms(o, p) ==
    /\ p.symbol = o.symbol /\ p.buy = o.buy
    /\ p.price = o.price /\ p.orderQty = o.orderQty

LEMMA UnfrozenMoney ==
    ASSUME NEW p \in Int, NEW q \in Int, NEW a \in Int, NEW b \in Int
    PROVE  /\ -(p * (q - a)) - (-(p * (q - b))) = (a - b) * p
           /\ p * (q - a) \in Int /\ (a - b) * p \in Int
           /\ p * (q - 0) = p * q /\ p * q \in Int
  OBVIOUS

LEMMA MoneyTypes ==
    ASSUME NEW o \in Order, NEW s
    PROVE  MoneyOf(o) \in Int /\ HeldOf(o, s) \in Int
  <1>1. /\ o.price \in Int /\ o.orderQty \in Int /\ o.cancelQty \in Int
        /\ o.filledQty \in Int /\ o.filledAmt \in Int
    BY OrderNumbers
  <1>2. o.price * (o.orderQty - o.cancelQty) \in Int BY <1>1, UnfrozenMoney
  <1> QED BY <1>1, <1>2 DEF MoneyOf, HeldOf

\* Settling an update moves in the account what it moves in the sums.
LEMMA SettledMoves ==
    ASSUME NEW acc \in Account, NEW pre \in Order, NEW post \in Order,
           SameTerms(pre, post), post.status # REJECTED, NEW t \in Symbols
    PROVE  LET new == Settled(acc, post, pre)
           IN  /\ new.cash = acc.cash + (MoneyOf(post) - MoneyOf(pre))
               /\ new.currentQty[t] - new.enabledQty[t]
                    = (acc.currentQty[t] - acc.enabledQty[t])
                        + (HeldOf(post, t) - HeldOf(pre, t))
  <1> DEFINE s      == post.symbol
             filled == post.filledQty - pre.filledQty
             amount == post.filledAmt - pre.filledAmt
             cancel == post.cancelQty - pre.cancelQty
             new    == Settled(acc, post, pre)
  <1>1. /\ post.price \in Int /\ post.orderQty \in Int /\ post.cancelQty \in Int
        /\ post.filledQty \in Int /\ post.filledAmt \in Int /\ s \in Symbols
        /\ pre.price \in Int /\ pre.orderQty \in Int /\ pre.cancelQty \in Int
        /\ pre.filledQty \in Int /\ pre.filledAmt \in Int /\ post.buy \in BOOLEAN
    BY OrderNumbers
  <1>2. /\ acc.cash \in Int
        /\ acc.enabledQty \in [Symbols -> Int] /\ acc.currentQty \in [Symbols -> Int]
    BY DEF Account
  <1>3. acc.enabledQty[t] \in Int /\ acc.currentQty[t] \in Int BY <1>2
  <1>4. CASE post.buy
    <2>1. new = [acc EXCEPT !.enabledQty[s] = @ + filled, !.currentQty[s] = @ + filled,
                            !.cash = @ + cancel * post.price]
      BY <1>4 DEF Settled
    <2>2. cancel * post.price = MoneyOf(post) - MoneyOf(pre)
      <3>1. MoneyOf(post) = -(post.price * (post.orderQty - post.cancelQty))
        BY <1>4 DEF MoneyOf
      <3>2. MoneyOf(pre) = -(post.price * (post.orderQty - pre.cancelQty))
        BY <1>4 DEF MoneyOf, SameTerms
      <3> QED BY <1>1, <3>1, <3>2, UnfrozenMoney
    <2>3. HeldOf(post, t) = 0 /\ HeldOf(pre, t) = 0
      BY <1>4 DEF HeldOf, SameTerms
    <2>4. new.cash = acc.cash + cancel * post.price
      BY <2>1 DEF Account
    <2>5. /\ new.currentQty[t] = acc.currentQty[t] + (IF t = s THEN filled ELSE 0)
          /\ new.enabledQty[t] = acc.enabledQty[t] + (IF t = s THEN filled ELSE 0)
      <3> HIDE DEF s, filled, cancel
      <3> QED BY <1>1, <1>2, <1>3, <2>1 DEF Account
    <2>6. (IF t = s THEN filled ELSE 0) \in Int BY <1>1
    <2> HIDE DEF new, filled, cancel, s
    <2>7. new.currentQty[t] - new.enabledQty[t] = acc.currentQty[t] - acc.enabledQty[t]
      BY <1>3, <2>5, <2>6
    <2>8. acc.currentQty[t] - acc.enabledQty[t] \in Int BY <1>3
    <2>9. new.cash = acc.cash + (MoneyOf(post) - MoneyOf(pre)) BY <2>2, <2>4
    <2>10. new.currentQty[t] - new.enabledQty[t]
             = (acc.currentQty[t] - acc.enabledQty[t])
                 + (HeldOf(post, t) - HeldOf(pre, t))
      BY <2>3, <2>7, <2>8
    <2> QED BY <2>9, <2>10 DEF new
  <1>5. CASE ~post.buy
    <2>1. new = [acc EXCEPT !.cash = @ + amount, !.enabledQty[s] = @ + cancel,
                            !.currentQty[s] = @ - filled]
      BY <1>5 DEF Settled
    <2>2. amount = MoneyOf(post) - MoneyOf(pre)
      BY <1>5 DEF MoneyOf, SameTerms
    <2>3. HeldOf(post, t) - HeldOf(pre, t) = IF t = s THEN -filled - cancel ELSE 0
      BY <1>1, <1>5 DEF HeldOf, SameTerms
    <2>4. new.cash = acc.cash + amount
      BY <2>1 DEF Account
    <2>5. /\ new.currentQty[t] = IF t = s THEN acc.currentQty[t] - filled
                                 ELSE acc.currentQty[t]
          /\ new.enabledQty[t] = IF t = s THEN acc.enabledQty[t] + cancel
                                 ELSE acc.enabledQty[t]
      <3> HIDE DEF s, filled, cancel, amount
      <3> QED BY <1>1, <1>2, <1>3, <2>1 DEF Account
    <2>6. filled \in Int /\ cancel \in Int BY <1>1
    <2> HIDE DEF new, filled, cancel, amount, s
    <2>7. new.cash = acc.cash + (MoneyOf(post) - MoneyOf(pre)) BY <2>2, <2>4
    <2>8. new.currentQty[t] - new.enabledQty[t]
             = (acc.currentQty[t] - acc.enabledQty[t])
                 + (HeldOf(post, t) - HeldOf(pre, t))
      BY <1>3, <2>3, <2>5, <2>6
    <2> QED BY <2>7, <2>8 DEF new
  <1> QED BY <1>1, <1>4, <1>5

\* Freezing a new order with a price moves what the order adds to the sums.
LEMMA FrozenMoves ==
    ASSUME NEW acc \in Account, NEW o \in Order, NEW md, NEW t \in Symbols,
           o.price # 0, o.filledQty = 0, o.filledAmt = 0, o.cancelQty = 0
    PROVE  LET new == Frozen(acc, o, md)
           IN  /\ new.cash = acc.cash + MoneyOf(o)
               /\ new.currentQty[t] - new.enabledQty[t]
                    = (acc.currentQty[t] - acc.enabledQty[t]) + HeldOf(o, t)
  <1> DEFINE new == Frozen(acc, o, md)
  <1>1. /\ o.price \in Nat /\ o.orderQty \in Nat /\ o.symbol \in Symbols
        /\ o.buy \in BOOLEAN
    BY OrderNumbers
  <1>2. o.price > 0 BY <1>1
  <1>3. new = IF o.buy THEN [acc EXCEPT !.cash = @ - o.price * o.orderQty]
                       ELSE [acc EXCEPT !.enabledQty[o.symbol] = @ - o.orderQty]
    BY <1>2 DEF Frozen
  <1>4. /\ acc.cash \in Int
        /\ acc.enabledQty \in [Symbols -> Int] /\ acc.currentQty \in [Symbols -> Int]
        /\ acc.enabledQty[t] \in Int /\ acc.currentQty[t] \in Int
    BY DEF Account
  <1>5. CASE o.buy
    <2>1. MoneyOf(o) = -(o.price * o.orderQty)
      <3>1. MoneyOf(o) = -(o.price * (o.orderQty - 0)) BY <1>5 DEF MoneyOf
      <3> QED BY <1>1, <3>1, UnfrozenMoney
    <2>2. new.cash = acc.cash - o.price * o.orderQty
      BY <1>3, <1>5 DEF Account
    <2>3. o.price * o.orderQty \in Int BY <1>1, UnfrozenMoney
    <2>4. /\ new.currentQty = acc.currentQty /\ new.enabledQty = acc.enabledQty
      BY <1>3, <1>5 DEF Account
    <2>5. HeldOf(o, t) = 0 BY <1>5 DEF HeldOf
    <2> HIDE DEF new
    <2>6. new.cash = acc.cash + MoneyOf(o) BY <1>4, <2>1, <2>2, <2>3
    <2>7. new.currentQty[t] - new.enabledQty[t]
            = (acc.currentQty[t] - acc.enabledQty[t]) + HeldOf(o, t)
      BY <1>4, <2>4, <2>5
    <2> QED BY <2>6, <2>7 DEF new
  <1>6. CASE ~o.buy
    <2>1. MoneyOf(o) = 0 BY <1>6 DEF MoneyOf
    <2>2. new.cash = acc.cash /\ new.currentQty = acc.currentQty
      BY <1>3, <1>6 DEF Account
    <2>3. new.enabledQty[t] = IF t = o.symbol THEN acc.enabledQty[t] - o.orderQty
                              ELSE acc.enabledQty[t]
      BY <1>1, <1>3, <1>4, <1>6 DEF Account
    <2>4. HeldOf(o, t) = IF t = o.symbol THEN o.orderQty ELSE 0
      BY <1>1, <1>6 DEF HeldOf
    <2> HIDE DEF new
    <2>5. new.cash = acc.cash + MoneyOf(o) BY <1>4, <2>1, <2>2
    <2>6. new.currentQty[t] - new.enabledQty[t]
            = (acc.currentQty[t] - acc.enabledQty[t]) + HeldOf(o, t)
      BY <1>1, <1>4, <2>2, <2>3, <2>4
    <2> QED BY <2>5, <2>6 DEF new
  <1> QED BY <1>1, <1>5, <1>6

-----------------------------------------------------------------------------

\* An order of the book is settled.
LEMMA SettledBalances ==
    ASSUME BalanceInv, IInv', running, NEW id \in DOMAIN orders,
           DOMAIN orders' = DOMAIN orders,
           \A i \in DOMAIN orders : i # id => orders'[i] = orders[i],
           SameTerms(orders[id], orders'[id]), orders'[id].status # REJECTED,
           account' = Settled(account, orders'[id], orders[id])
    PROVE  Balanced'
  <1> DEFINE D == DOMAIN orders
             m == [i \in D |-> MoneyOf(orders[i])]
             n == [i \in D |-> MoneyOf(orders'[i])]
             h(s) == [i \in D |-> HeldOf(orders[i], s)]
             k(s) == [i \in D |-> HeldOf(orders'[i], s)]
  <1>1. /\ IsFiniteSet(D) /\ Balanced /\ account \in Account
        /\ \A i \in D : orders[i] \in Order /\ orders'[i] \in Order
    BY DEF BalanceInv, IInv, TypeOK
  <1>2. account.cash = SumFunctionOnSet(m, D)
    BY <1>1 DEF Balanced, TotalOf
  <1>3. SumFunctionOnSet(n, D) = SumFunctionOnSet(m, D) + (n[id] - m[id])
    <2>1. \A i \in D : m[i] \in Int /\ n[i] \in Int BY <1>1, MoneyTypes
    <2>2. \A i \in D \ {id} : n[i] = m[i] OBVIOUS
    <2> HIDE DEF m, n, D
    <2> QED BY <1>1, <2>1, <2>2, SumMoves DEF D
  <1>4. account'.cash = account.cash + (MoneyOf(orders'[id]) - MoneyOf(orders[id]))
    <2>1. \E t \in Symbols : TRUE BY <1>1, OrderNumbers
    <2> QED BY <1>1, <2>1, SettledMoves
  <1>5. account'.cash = TotalOf([i \in DOMAIN orders' |-> MoneyOf(orders'[i])])
    <2>1. n[id] = MoneyOf(orders'[id]) /\ m[id] = MoneyOf(orders[id]) OBVIOUS
    <2>2. TotalOf([i \in DOMAIN orders' |-> MoneyOf(orders'[i])])
            = SumFunctionOnSet(n, D)
      BY DEF TotalOf
    <2> HIDE DEF m, n, D
    <2> QED BY <1>2, <1>3, <1>4, <2>1, <2>2
  <1>6. ASSUME NEW s \in Symbols
        PROVE  account'.currentQty[s] - account'.enabledQty[s]
                 = TotalOf([i \in DOMAIN orders' |-> HeldOf(orders'[i], s)])
    <2>1. account.currentQty[s] - account.enabledQty[s] = SumFunctionOnSet(h(s), D)
      BY <1>1 DEF Balanced, TotalOf
    <2>2. SumFunctionOnSet(k(s), D) = SumFunctionOnSet(h(s), D) + (k(s)[id] - h(s)[id])
      <3>1. \A i \in D : h(s)[i] \in Int /\ k(s)[i] \in Int BY <1>1, MoneyTypes
      <3>2. \A i \in D \ {id} : k(s)[i] = h(s)[i] OBVIOUS
      <3> HIDE DEF h, k, D
      <3> QED BY <1>1, <3>1, <3>2, SumMoves DEF D
    <2>3. account'.currentQty[s] - account'.enabledQty[s]
            = (account.currentQty[s] - account.enabledQty[s])
                + (HeldOf(orders'[id], s) - HeldOf(orders[id], s))
      BY <1>1, SettledMoves
    <2>4. k(s)[id] = HeldOf(orders'[id], s) /\ h(s)[id] = HeldOf(orders[id], s) OBVIOUS
    <2>5. TotalOf([i \in DOMAIN orders' |-> HeldOf(orders'[i], s)])
            = SumFunctionOnSet(k(s), D)
      BY DEF TotalOf
    <2> HIDE DEF h, k, D
    <2> QED BY <2>1, <2>2, <2>3, <2>4, <2>5
  <1> QED BY <1>5, <1>6 DEF Balanced

\* A new order is frozen and its first match settled.
LEMMA PlacedBalances ==
    ASSUME BalanceInv, IInv', running, NEW id \in OrderIds, NEW o \in Order, NEW md,
           id \notin DOMAIN orders, DOMAIN orders' = DOMAIN orders \cup {id},
           \A i \in DOMAIN orders : orders'[i] = orders[i],
           Frozen(account, o, md) \in Account,
           o.price # 0, o.filledQty = 0, o.filledAmt = 0, o.cancelQty = 0,
           SameTerms(o, orders'[id]), orders'[id].status # REJECTED,
           account' = Settled(Frozen(account, o, md), orders'[id], o)
    PROVE  Balanced'
  <1> DEFINE D == DOMAIN orders
             m == [i \in D |-> MoneyOf(orders[i])]
             n == [i \in D \cup {id} |-> MoneyOf(orders'[i])]
             h(s) == [i \in D |-> HeldOf(orders[i], s)]
             k(s) == [i \in D \cup {id} |-> HeldOf(orders'[i], s)]
             frozen == Frozen(account, o, md)
  <1>1. /\ IsFiniteSet(D) /\ Balanced /\ account \in Account /\ orders'[id] \in Order
        /\ \A i \in D : orders[i] \in Order
    BY DEF BalanceInv, IInv, TypeOK
  <1>2. MoneyOf(o) \in Int /\ MoneyOf(orders'[id]) \in Int /\ account.cash \in Int
    BY <1>1, MoneyTypes DEF Account
  <1>3. SumFunctionOnSet(n, D \cup {id}) = SumFunctionOnSet(m, D) + n[id]
    <2>1. \A i \in D : m[i] \in Int /\ n[i] = m[i] BY <1>1, MoneyTypes
    <2>2. n[id] \in Int /\ id \notin D BY <1>2
    <2> HIDE DEF m, n, D
    <2> QED BY <1>1, <2>1, <2>2, SumGrows DEF D
  <1>4. account'.cash = account.cash + MoneyOf(orders'[id])
    <2>1. \E t \in Symbols : TRUE BY OrderNumbers
    <2>2. frozen.cash = account.cash + MoneyOf(o) BY <1>1, <2>1, FrozenMoves
    <2>3. account'.cash = frozen.cash + (MoneyOf(orders'[id]) - MoneyOf(o))
      BY <1>1, <2>1, SettledMoves
    <2> HIDE DEF frozen
    <2> QED BY <1>2, <2>2, <2>3
  <1>5. account'.cash = TotalOf([i \in DOMAIN orders' |-> MoneyOf(orders'[i])])
    <2>1. n[id] = MoneyOf(orders'[id]) OBVIOUS
    <2>2. TotalOf([i \in DOMAIN orders' |-> MoneyOf(orders'[i])])
            = SumFunctionOnSet(n, D \cup {id})
      BY DEF TotalOf
    <2>3. account.cash = SumFunctionOnSet(m, D) BY <1>1 DEF Balanced, TotalOf
    <2> HIDE DEF m, n, D
    <2> QED BY <1>3, <1>4, <2>1, <2>2, <2>3
  <1>6. ASSUME NEW s \in Symbols
        PROVE  account'.currentQty[s] - account'.enabledQty[s]
                 = TotalOf([i \in DOMAIN orders' |-> HeldOf(orders'[i], s)])
    <2>1. account.currentQty[s] - account.enabledQty[s] = SumFunctionOnSet(h(s), D)
      BY <1>1 DEF Balanced, TotalOf
    <2>2. /\ HeldOf(o, s) \in Int /\ HeldOf(orders'[id], s) \in Int
          /\ account.currentQty[s] - account.enabledQty[s] \in Int
      <3>1. account.currentQty[s] \in Int /\ account.enabledQty[s] \in Int
        BY <1>1 DEF Account
      <3> QED BY <1>1, <3>1, MoneyTypes
    <2>3. SumFunctionOnSet(k(s), D \cup {id}) = SumFunctionOnSet(h(s), D) + k(s)[id]
      <3>1. \A i \in D : h(s)[i] \in Int /\ k(s)[i] = h(s)[i] BY <1>1, MoneyTypes
      <3>2. k(s)[id] \in Int /\ id \notin D BY <2>2
      <3> HIDE DEF h, k, D
      <3> QED BY <1>1, <3>1, <3>2, SumGrows DEF D
    <2>4. account'.currentQty[s] - account'.enabledQty[s]
            = (account.currentQty[s] - account.enabledQty[s]) + HeldOf(orders'[id], s)
      <3>1. frozen.currentQty[s] - frozen.enabledQty[s]
              = (account.currentQty[s] - account.enabledQty[s]) + HeldOf(o, s)
        BY <1>1, FrozenMoves
      <3>2. account'.currentQty[s] - account'.enabledQty[s]
              = (frozen.currentQty[s] - frozen.enabledQty[s])
                  + (HeldOf(orders'[id], s) - HeldOf(o, s))
        BY <1>1, SettledMoves
      <3> HIDE DEF frozen
      <3> QED BY <2>2, <3>1, <3>2
    <2>5. k(s)[id] = HeldOf(orders'[id], s) OBVIOUS
    <2>6. TotalOf([i \in DOMAIN orders' |-> HeldOf(orders'[i], s)])
            = SumFunctionOnSet(k(s), D \cup {id})
      BY DEF TotalOf
    <2> HIDE DEF h, k, D
    <2> QED BY <2>1, <2>3, <2>4, <2>5, <2>6
  <1> QED BY <1>5, <1>6 DEF Balanced

\* A step that moves neither money nor shares.
LEMMA StillBalanced ==
    ASSUME Balanced, account' = account, DOMAIN orders' = DOMAIN orders,
           \A i \in DOMAIN orders : MoneyOf(orders'[i]) = MoneyOf(orders[i]),
           \A i \in DOMAIN orders : \A s \in Symbols :
               HeldOf(orders'[i], s) = HeldOf(orders[i], s)
    PROVE  Balanced'
  <1>1. [i \in DOMAIN orders' |-> MoneyOf(orders'[i])]
          = [i \in DOMAIN orders |-> MoneyOf(orders[i])]
    OBVIOUS
  <1>2. \A s \in Symbols : [i \in DOMAIN orders' |-> HeldOf(orders'[i], s)]
                             = [i \in DOMAIN orders |-> HeldOf(orders[i], s)]
    OBVIOUS
  <1>3. account'.cash = TotalOf([i \in DOMAIN orders' |-> MoneyOf(orders'[i])])
    BY <1>1 DEF Balanced
  <1>4. ASSUME NEW s \in Symbols
        PROVE  account'.currentQty[s] - account'.enabledQty[s]
                 = TotalOf([i \in DOMAIN orders' |-> HeldOf(orders'[i], s)])
    BY <1>2 DEF Balanced
  <1> QED BY <1>3, <1>4 DEF Balanced

\* The operations, one by one, on a book that is running.
LEMMA PlaceQuotedBalances ==
    ASSUME BalanceInv, IInv', 0 \notin Prices, running, NEW id \in OrderIds,
           NEW r \in Requests, PlaceQuoted(OrderOf(id, r))
    PROVE  Balanced'
  <1> DEFINE o == OrderOf(id, r)
             md == mds[o.symbol]
             m == Match(o, Unmeasured, md)
  <1>1. /\ Matchable(o) /\ Consistent(o) /\ o.id = id BY NewIsMatchable
  <1>2. /\ o \in Order /\ o.cancelQty = 0 /\ o.filledQty = 0 /\ o.filledAmt = 0
        /\ o.status \in OpenStatus
    BY <1>1 DEF Consistent, Matchable, OrderOf, NewOrder
  <1>3. /\ id \notin DOMAIN orders /\ md # NoQuote
        /\ orders' = With(orders, id, m.order)
        /\ account' = Settled(Frozen(account, o, md), m.order, o)
    BY <1>1 DEF PlaceQuoted
  <1>4. IInv /\ account \in Account BY DEF BalanceInv, IInv, TypeOK
  <1>5. md \in MarketDepth
    <2>1. o.symbol \in Symbols BY <1>2, OrderNumbers
    <2> HIDE DEF o
    <2> QED BY <1>3, <1>4, <2>1, QuoteType DEF IInv
  <1>6. Extends(o, m.order)
    <2>1. Unmeasured \in Int BY DEF Unmeasured
    <2> HIDE DEF o, md
    <2> QED BY <1>1, <1>2, <1>5, <2>1, MatchedIsConsistent
  <1>7. o.price # 0 BY <1>2 DEF Order
  <1>8. m.order.status # REJECTED
    <2> HIDE DEF o, md
    <2> QED BY <1>2, <1>7, MatchAnswers
  <1> HIDE DEF o, md, m
  <1>9. /\ DOMAIN orders' = DOMAIN orders \cup {id} /\ orders'[id] = m.order
        /\ \A i \in DOMAIN orders : orders'[i] = orders[i]
    BY <1>3 DEF With
  <1>10. SameTerms(o, m.order) BY <1>6 DEF SameTerms, Extends
  <1>11. Frozen(account, o, md) \in Account BY <1>2, <1>4, <1>5, FrozenType
  <1> QED BY <1>2, <1>3, <1>7, <1>8, <1>9, <1>10, <1>11, PlacedBalances

LEMMA CancelMarkBalances ==
    ASSUME BalanceInv, running, NEW id \in OrderIds, CancelMark(id)
    PROVE  Balanced'
  <1> DEFINE status == IF orders[id].filledQty = 0 THEN CANCELED ELSE PARTIALCANCEL
             marked == [orders[id] EXCEPT !.status = status]
  <1>1. /\ id \in DOMAIN orders /\ orders' = [orders EXCEPT ![id] = marked]
        /\ account' = account
    BY DEF CancelMark, Cancelable
  <1>2. orders[id] \in Order BY <1>1 DEF BalanceInv, IInv, TypeOK
  <1>3. /\ marked.buy = orders[id].buy /\ marked.symbol = orders[id].symbol
        /\ marked.price = orders[id].price /\ marked.orderQty = orders[id].orderQty
        /\ marked.cancelQty = orders[id].cancelQty
        /\ marked.filledQty = orders[id].filledQty
        /\ marked.filledAmt = orders[id].filledAmt
    BY <1>2 DEF Order
  <1> HIDE DEF marked
  <1>4. MoneyOf(marked) = MoneyOf(orders[id]) BY <1>3 DEF MoneyOf
  <1>5. \A s \in Symbols : HeldOf(marked, s) = HeldOf(orders[id], s)
    BY <1>3 DEF HeldOf
  <1> QED BY <1>1, <1>4, <1>5, StillBalanced DEF BalanceInv

LEMMA CancelFinishBalances ==
    ASSUME BalanceInv, IInv', running, CancelFinish
    PROVE  Balanced'
  <1> DEFINE marked == orders[canceling]
             done   == [marked EXCEPT !.cancelQty = marked.orderQty - marked.filledQty]
  <1>1. /\ canceling \in DOMAIN orders /\ marked \in Order
        /\ marked.status \in {CANCELED, PARTIALCANCEL}
        /\ orders' = [orders EXCEPT ![canceling] = done]
        /\ account' = Settled(account, done, marked)
    BY DEF CancelFinish, BalanceInv, IInv, TypeOK, StrandInv
  <1>2. SameTerms(marked, done) /\ done.status = marked.status
    BY <1>1 DEF Order, SameTerms
  <1> HIDE DEF done
  <1>3. orders'[canceling] = done BY <1>1
  <1>4. \A i \in DOMAIN orders : i # canceling => orders'[i] = orders[i] BY <1>1
  <1>5. done.status # REJECTED BY <1>1, <1>2 DEF CANCELED, PARTIALCANCEL, REJECTED
  <1>6. DOMAIN orders' = DOMAIN orders BY <1>1
  <1> QED BY <1>1, <1>2, <1>3, <1>4, <1>5, <1>6, SettledBalances

LEMMA MatchUpdatesBalances ==
    ASSUME BalanceInv, IInv', 0 \notin Prices, running, NEW id \in matching,
           MatchUpdates(id)
    PROVE  Balanced'
  <1> DEFINE m == Match(orders[id], queueVol[id], mds[orders[id].symbol])
  <1>1. /\ canceling = NoOrder /\ id \in DOMAIN orders /\ id \in DOMAIN queueVol
        /\ Extends(orders[id], m.order)
    BY MatchingFacts DEF BalanceInv
  <1>2. orders[id] \in Order /\ id \in OrderIds BY <1>1 DEF BalanceInv, IInv, TypeOK
  <1>3. orders[id].status \in OpenStatus
    <2>1. id # canceling BY <1>1, <1>2, NoOrderIsNone
    <2>2. IInv /\ id \in Unfinished BY <1>1 DEF BalanceInv, Unfinished
    <2>3. Matchable(orders[id]) BY <2>1, <2>2, RestingIsMatchable
    <2> QED BY <2>3 DEF Matchable
  <1>4. m.order.status # REJECTED
    <2>1. orders[id].price # 0 BY <1>2 DEF Order
    <2> QED BY <1>2, <1>3, <2>1, MatchAnswers
  <1>5. /\ orders' = [orders EXCEPT ![id] = m.order]
        /\ account' = Settled(account, m.order, orders[id])
    BY DEF MatchUpdates
  <1> HIDE DEF m
  <1>6. SameTerms(orders[id], m.order) BY <1>1 DEF SameTerms, Extends
  <1>7. /\ orders'[id] = m.order /\ DOMAIN orders' = DOMAIN orders
        /\ \A i \in DOMAIN orders : i # id => orders'[i] = orders[i]
    BY <1>1, <1>5
  <1> QED BY <1>1, <1>4, <1>5, <1>6, <1>7, SettledBalances

\* Which orders there are, and that they stay finitely many.
LEMMA OrdersStayFinite ==
    ASSUME IsFiniteSet(DOMAIN orders), [Next]_bookVars, IInv
    PROVE  IsFiniteSet(DOMAIN orders')
  <1>1. CASE DOMAIN orders' = DOMAIN orders BY <1>1
  <1>2. ASSUME NEW id, NEW o, orders' = With(orders, id, o)
        PROVE  IsFiniteSet(DOMAIN orders')
    <2>1. DOMAIN orders' = DOMAIN orders \cup {id} BY <1>2 DEF With
    <2> QED BY <2>1, FS_AddElement
  <1>3. CASE Stop
    <2>1. DOMAIN orders' = {} BY <1>3 DEF Stop
    <2> QED BY <2>1, FS_EmptySet
  <1>4. CASE UNCHANGED bookVars BY <1>1, <1>4 DEF bookVars
  <1>5. CASE Next
    <2>1. CASE Subscribe \/ Unsubscribe \/ Deliver
      BY <1>1, <2>1 DEF Subscribe, Unsubscribe, Deliver
    <2>2. ASSUME NEW o, Place(o) PROVE IsFiniteSet(DOMAIN orders')
      BY <1>1, <1>2, <2>2 DEF Place, PlaceUnquoted, PlaceQuoted, PlaceDuplicate
    <2>3. ASSUME NEW id \in OrderIds, CancelMark(id) PROVE IsFiniteSet(DOMAIN orders')
      BY <1>1, <2>3 DEF CancelMark
    <2>4. ASSUME NEW md \in Quotes, OnMarketDepth(md) PROVE IsFiniteSet(DOMAIN orders')
      BY <1>1, <2>4 DEF OnMarketDepth
    <2>5. CASE StrandStep
      BY <1>1, <2>5 DEF StrandStep, CancelFinish, MatchUpdates, MatchQueues
    <2> QED BY <1>3, <1>5, <2>1, <2>2, <2>3, <2>4, <2>5 DEF Next
  <1> QED BY <1>4, <1>5

LEMMA InitBalance ==
    ASSUME PricedAndQuoted, Init
    PROVE  BalanceInv
  <1> USE DEF Init
  <1>1. DOMAIN orders = {} OBVIOUS
  <1>2. ASSUME NEW f, DOMAIN f = {} PROVE TotalOf(f) = 0
    BY <1>2, SumEmpty DEF TotalOf
  <1>3. Balanced BY <1>1, <1>2 DEF Balanced
  <1>4. \A s \in Symbols : mds[s] # NoQuote
    BY BookAssumption DEF PricedAndQuoted
  <1>5. IInv BY InitIInv
  <1> QED BY <1>1, <1>3, <1>4, <1>5, FS_EmptySet DEF BalanceInv

LEMMA NextBalances ==
    ASSUME PricedAndQuoted, BalanceInv, [Next]_bookVars
    PROVE  BalanceInv'
  <1>1. IInv BY DEF BalanceInv
  <1>2. IInv' BY <1>1, NextKeeps
  <1>3. IsFiniteSet(DOMAIN orders') BY <1>1, OrdersStayFinite DEF BalanceInv
  <1>4. ASSUME UNCHANGED <<running, orders, mds, account>>
        PROVE  BalanceInv'
    <2>1. Balanced => Balanced' BY <1>4 DEF Balanced
    <2> QED BY <1>2, <1>3, <1>4, <2>1 DEF BalanceInv
  <1>5. ASSUME UNCHANGED <<running, mds>>, running => Balanced'
        PROVE  BalanceInv'
    BY <1>2, <1>3, <1>5 DEF BalanceInv
  <1>6. CASE UNCHANGED bookVars BY <1>4, <1>6 DEF bookVars
  <1>7. CASE Next
    <2>1. CASE Subscribe \/ Unsubscribe \/ Deliver
      BY <1>4, <2>1 DEF Subscribe, Unsubscribe, Deliver
    <2>2. ASSUME NEW id \in OrderIds, NEW r \in Requests, Place(OrderOf(id, r))
          PROVE  BalanceInv'
      <3>1. CASE PlaceDuplicate(OrderOf(id, r)) BY <1>4, <3>1 DEF PlaceDuplicate
      <3>2. CASE PlaceQuoted(OrderOf(id, r))
        <4>1. UNCHANGED <<running, mds>> /\ running BY <3>2 DEF PlaceQuoted
        <4> QED BY <1>2, <1>5, <3>2, <4>1, PlaceQuotedBalances DEF PricedAndQuoted
      <3>3. CASE PlaceUnquoted(OrderOf(id, r))
        <4>1. OrderOf(id, r).symbol \in Symbols
          BY NewIsMatchable, OrderNumbers DEF Matchable
        <4> QED BY <3>3, <4>1 DEF PlaceUnquoted, BalanceInv
      <3> QED BY <2>2, <3>1, <3>2, <3>3 DEF Place
    <2>3. ASSUME NEW id \in OrderIds, CancelMark(id) PROVE BalanceInv'
      <3>1. UNCHANGED <<running, mds>> BY <2>3 DEF CancelMark
      <3> QED BY <1>5, <2>3, <3>1, CancelMarkBalances
    <2>4. ASSUME NEW md \in Quotes, OnMarketDepth(md) PROVE BalanceInv'
      <3>1. /\ mds' = [mds EXCEPT ![md.symbol] = md] /\ md # NoQuote
            /\ UNCHANGED <<running, orders, account>>
        BY <2>4, BookAssumption DEF OnMarketDepth
      <3>2. mds \in [Symbols -> Quotes \cup {NoQuote}] BY <1>1 DEF IInv, TypeOK
      <3>3. running => \A s \in Symbols : mds'[s] # NoQuote
        BY <3>1, <3>2 DEF BalanceInv
      <3>4. Balanced => Balanced' BY <3>1 DEF Balanced
      <3> QED BY <1>2, <1>3, <3>1, <3>3, <3>4 DEF BalanceInv
    <2>5. CASE CancelFinish
      <3>1. UNCHANGED <<running, mds>> BY <2>5 DEF CancelFinish
      <3> QED BY <1>2, <1>5, <2>5, <3>1, CancelFinishBalances
    <2>6. ASSUME NEW id \in matching, MatchUpdates(id) PROVE BalanceInv'
      <3>1. UNCHANGED <<running, mds>> BY <2>6 DEF MatchUpdates
      <3> QED BY <1>2, <1>5, <2>6, <3>1, MatchUpdatesBalances DEF PricedAndQuoted
    <2>7. ASSUME NEW id \in matching, MatchQueues(id) PROVE BalanceInv'
      BY <1>4, <2>7 DEF MatchQueues
    <2>8. CASE Stop
      <3>1. ~running' BY <2>8 DEF Stop
      <3> QED BY <1>2, <1>3, <3>1 DEF BalanceInv
    <2> QED BY <1>7, <2>1, <2>2, <2>3, <2>4, <2>5, <2>6, <2>7, <2>8
        DEF Next, StrandStep
  <1> QED BY <1>6, <1>7

\* Money and shares are frozen, moved and given back exactly once: in every state
\* of a running book the account is what its orders add up to, for any number of
\* orders, symbols and prices, if every order has a limit price and a quote.
THEOREM AccountsAlwaysBalance ==
    ASSUME PricedAndQuoted
    PROVE  Spec => []AccountsBalance
  <1>1. BalanceInv => AccountsBalance BY DEF BalanceInv, Balanced, AccountsBalance
  <1>2. Init => BalanceInv BY InitBalance
  <1>3. BalanceInv /\ [Next]_bookVars => BalanceInv' BY NextBalances
  <1> QED BY <1>1, <1>2, <1>3, PTL DEF Spec

-----------------------------------------------------------------------------
(* The place in the queue.  Volumes are in whole lots: with an odd one the mark of
   an order that has not been measured could be a volume as well. *)

Lots == {n \in Int : n % 100 = 0}

WholeLots == \A md \in Quotes :
    /\ md.deltaVolume \in Lots
    /\ \A k \in Levels : md.ask[k].vol \in Lots /\ md.bid[k].vol \in Lots

\* No volume in lots is the mark.
LEMMA LotFacts ==
    /\ 0 \in Lots /\ Lots \subseteq Int /\ Unmeasured \notin Lots
    /\ \A a, b \in Lots : a - b \in Lots
    /\ \A a \in Lots : Unmeasured - a < -PegSlack \/ a <= 0
  <1>1. 0 \in Lots /\ Lots \subseteq Int BY DEF Lots
  <1>2. ASSUME NEW a \in Lots, NEW b \in Lots PROVE a - b \in Lots
    <2>1. a \in Int /\ a % 100 = 0 /\ b \in Int /\ b % 100 = 0 BY DEF Lots
    <2>2. (a - b) % 100 = 0 BY <2>1
    <2> QED BY <2>1, <2>2 DEF Lots
  <1>3. ASSUME NEW a \in Lots PROVE a # Unmeasured /\ (Unmeasured - a < -PegSlack \/ a <= 0)
    BY DEF Lots, Unmeasured, PegSlack
  <1> QED BY <1>1, <1>2, <1>3

\* A price is quoted in lots.
LEMMA QuotedInLots ==
    ASSUME WholeLots, NEW md \in Quotes, NEW price
    PROVE  PriceVol(md, price) \in Lots
  <1> DEFINE At(side) == {k \in Levels : side[k].price = price}
             Lowest(S) == CHOOSE k \in S : \A j \in S : k <= j
  <1>1. ASSUME NEW side, At(side) # {} PROVE Lowest(At(side)) \in Levels
    <2>1. At(side) \in SUBSET (1..5) BY DEF Levels
    <2>2. \E k \in At(side) : \A j \in At(side) : k <= j BY <1>1, <2>1, LevelExtremes
    <2> QED BY <2>2
  <1>2. PriceVol(md, price) = IF At(md.bid) # {} THEN md.bid[Lowest(At(md.bid))].vol
                              ELSE IF At(md.ask) # {} THEN md.ask[Lowest(At(md.ask))].vol
                              ELSE 0
    BY DEF PriceVol
  <1> HIDE DEF At, Lowest
  <1> QED BY <1>1, <1>2, LotFacts DEF WholeLots

\* What a quote does to a place in the queue.  An order that is not measured and is
\* overtaken by a trade is filled, so that its queue is 0, or the trade was none.
LEMMA MatchKeepsPlace ==
    ASSUME WholeLots, NEW md \in Quotes, NEW o, NEW q \in Lots \cup {Unmeasured}
    PROVE  LET v == Match(o, q, md).queueVol
           IN  /\ v \in Lots \cup {Unmeasured}
               /\ q \in Lots => v \in Lots /\ (v <= q \/ v = 0)
  <1> DEFINE a == [o EXCEPT !.status = Accepted(o)]
             p == PriceVol(md, o.price)
             r == Measured(o, q, md)
             Fine(w, v) == /\ v \in Lots \cup {Unmeasured}
                           /\ w \in Lots => v \in Lots /\ (v <= w \/ v = 0)
  <1>1. \A x : PriceVol(md, x) \in Lots BY QuotedInLots
  <1>2. md.deltaVolume \in Lots /\ md.deltaVolume \in Nat
    BY BookAssumption DEF WholeLots, MarketDepth
  <1>3. r \in Lots \cup {Unmeasured} /\ (q \in Lots => r = q)
    BY <1>1, LotFacts DEF Measured
  <1>4. \A b, w, v : Fine(w, v) => Fine(w, Capped(b, v, md))
    <2> SUFFICES ASSUME NEW b, NEW w, NEW v, Fine(w, v) PROVE Fine(w, Capped(b, v, md))
      OBVIOUS
    <2> DEFINE x == PriceVol(md, b.price)
    <2>1. x \in Lots /\ x \in Int BY <1>1, LotFacts
    <2>2. Capped(b, v, md) = IF v > 0 /\ x > 0 /\ x < v THEN x ELSE v BY DEF Capped
    <2> HIDE DEF x
    <2>3. CASE v \in Lots
      <3>1. v \in Int BY <2>3, LotFacts
      <3>2. Capped(b, v, md) \in Lots /\ (Capped(b, v, md) = v \/ (Capped(b, v, md) < v /\ v > 0))
        BY <2>1, <2>2, <2>3
      <3>3. Capped(b, v, md) \in Int BY <3>2, LotFacts
      <3>4. ASSUME w \in Lots PROVE Capped(b, v, md) <= w \/ Capped(b, v, md) = 0
        <4>1. w \in Int BY <3>4, LotFacts
        <4>2. v <= w \/ v = 0 BY <3>4
        <4> QED BY <3>1, <3>2, <3>3, <4>1, <4>2
      <3> QED BY <3>2, <3>4
    <2>4. CASE v = Unmeasured
      <3>1. Capped(b, v, md) = v BY <2>2, <2>4 DEF Unmeasured
      <3> QED BY <3>1
    <2> QED BY <2>3, <2>4
  <1>5. Fine(r, r)
    <2>1. r \in Lots => r \in Int BY LotFacts
    <2> QED BY <1>3, <2>1
  <1> HIDE DEF a, r
  <1>6. Fine(r, AggressMatch(a, r, md).queueVol)
    <2>1. AggressMatch(a, r, md).queueVol = Capped(a, r, md) BY DEF AggressMatch
    <2> QED BY <1>4, <1>5, <2>1
  <1>7. Fine(r, PegMatch(a, r, md).queueVol)
    <2> DEFINE left == r - md.deltaVolume
    <2>1. PegMatch(a, r, md).queueVol = IF left < -PegSlack THEN 0 ELSE Capped(a, left, md)
      BY DEF PegMatch
    <2>2. CASE left < -PegSlack BY <2>1, <2>2, LotFacts
    <2>3. CASE ~(left < -PegSlack) /\ r \in Lots
      <3>1. left \in Lots /\ r \in Int BY <1>2, <2>3, LotFacts
      <3>2. left <= r BY <1>2, <3>1
      <3> HIDE DEF left
      <3>3. Fine(r, left) BY <3>1, <3>2
      <3> QED BY <1>4, <2>1, <2>3, <3>3
    <2>4. CASE ~(left < -PegSlack) /\ r = Unmeasured
      <3>1. md.deltaVolume <= 0 BY <1>2, <2>4, LotFacts
      <3>2. left = Unmeasured BY <1>2, <2>4, <3>1 DEF Unmeasured
      <3> HIDE DEF left
      <3>3. Fine(r, left) BY <2>4, <3>2, LotFacts
      <3> QED BY <1>4, <2>1, <2>4, <3>3
    <2> QED BY <1>3, <2>2, <2>3, <2>4
  <1>8. Fine(r, Match(o, q, md).queueVol)
    <2>1. Match(o, q, md) = IF Aggressive(a, md) THEN AggressMatch(a, r, md)
                            ELSE IF Pegged(a, md) THEN PegMatch(a, r, md)
                            ELSE [order |-> a, queueVol |-> Capped(a, r, md)]
      BY DEF Match, a, r
    <2>2. Fine(r, Capped(a, r, md)) BY <1>4, <1>5
    <2> HIDE DEF Fine
    <2> QED BY <1>6, <1>7, <2>1, <2>2
  <1> QED BY <1>3, <1>8

\* A volume ahead is in lots, or the mark.
QueueInv ==
    /\ IInv
    /\ \A id \in DOMAIN queueVol : queueVol[id] \in Lots \cup {Unmeasured}

\* What PlaceInQueueKept says of one step.
PlacesStep ==
    \A id \in DOMAIN queueVol \cap DOMAIN queueVol' :
        queueVol[id] # Unmeasured =>
            /\ queueVol'[id] # Unmeasured
            /\ queueVol'[id] <= queueVol[id] \/ queueVol'[id] = 0

\* A step that moves at most the place of one order, as a match does.
LEMMA PlacesMove ==
    ASSUME QueueInv, NEW d,
           \A id \in DOMAIN queueVol' : id # d =>
               \/ id \in DOMAIN queueVol /\ queueVol'[id] = queueVol[id]
               \/ id \notin DOMAIN queueVol /\ queueVol'[id] = Unmeasured,
           d \in DOMAIN queueVol' =>
               /\ queueVol'[d] \in Lots \cup {Unmeasured}
               /\ (d \in DOMAIN queueVol /\ queueVol[d] \in Lots) =>
                      queueVol'[d] \in Lots /\ (queueVol'[d] <= queueVol[d] \/ queueVol'[d] = 0)
    PROVE  PlacesStep /\ \A id \in DOMAIN queueVol' : queueVol'[id] \in Lots \cup {Unmeasured}
  <1>1. \A id \in DOMAIN queueVol' : queueVol'[id] \in Lots \cup {Unmeasured} BY DEF QueueInv
  <1>2. PlacesStep
    <2> SUFFICES ASSUME NEW id \in DOMAIN queueVol, id \in DOMAIN queueVol',
                        queueVol[id] # Unmeasured
                 PROVE  /\ queueVol'[id] # Unmeasured
                        /\ queueVol'[id] <= queueVol[id] \/ queueVol'[id] = 0
      BY DEF PlacesStep
    <2>1. queueVol[id] \in Lots /\ queueVol[id] \in Int BY LotFacts DEF QueueInv
    <2>2. CASE id = d BY <2>1, <2>2, LotFacts
    <2>3. CASE id # d
      <3>1. queueVol'[id] = queueVol[id] BY <2>3
      <3> QED BY <2>1, <3>1
    <2> QED BY <2>2, <2>3
  <1> QED BY <1>1, <1>2

LEMMA NextKeepsPlaces ==
    ASSUME WholeLots, QueueInv, [Next]_bookVars
    PROVE  QueueInv' /\ PlacesStep
  <1>1. IInv /\ TypeOK /\ DOMAIN queueVol \subseteq DOMAIN orders BY DEF QueueInv, IInv, TypeOK
  <1>2. IInv' BY <1>1, NextKeeps
  <1> SUFFICES PlacesStep /\ \A id \in DOMAIN queueVol' : queueVol'[id] \in Lots \cup {Unmeasured}
    BY <1>2 DEF QueueInv
  <1>3. CASE UNCHANGED queueVol
    <2>1. \A i \in DOMAIN queueVol : queueVol[i] \in Int BY <1>1 DEF TypeOK
    <2> QED BY <1>3, <2>1 DEF QueueInv, PlacesStep
  <1>4. CASE Stop
    <2>1. DOMAIN queueVol' = {} BY <1>4 DEF Stop
    <2> QED BY <2>1 DEF PlacesStep
  <1>6. ASSUME NEW id \in OrderIds, NEW r \in Requests, Place(OrderOf(id, r))
        PROVE  PlacesStep /\ \A i \in DOMAIN queueVol' : queueVol'[i] \in Lots \cup {Unmeasured}
    <2> DEFINE o == OrderOf(id, r)
    <2>1. o.id = id /\ o.symbol \in Symbols
      <3>1. o.id = id /\ o \in Order BY NewIsMatchable DEF Matchable
      <3> HIDE DEF o
      <3> QED BY <3>1, OrderNumbers
    <2> HIDE DEF o
    <2>2. CASE PlaceUnquoted(o)
      <3>1. id \notin DOMAIN queueVol /\ queueVol' = With(queueVol, id, Unmeasured)
        BY <1>1, <2>1, <2>2 DEF PlaceUnquoted
      <3>2. \A i \in DOMAIN queueVol' : i # id => i \in DOMAIN queueVol /\ queueVol'[i] = queueVol[i]
        BY <3>1 DEF With
      <3>3. queueVol'[id] = Unmeasured BY <3>1 DEF With
      <3> QED BY <3>1, <3>2, <3>3, PlacesMove
    <2>3. CASE PlaceQuoted(o)
      <3> DEFINE m == Match(o, Unmeasured, mds[o.symbol])
      <3>1. /\ id \notin DOMAIN queueVol
            /\ queueVol' = IF IsFinal(m.order) THEN queueVol ELSE With(queueVol, id, m.queueVol)
        BY <1>1, <2>1, <2>3 DEF PlaceQuoted
      <3>2. mds[o.symbol] \in Quotes BY <1>1, <2>1, <2>3 DEF PlaceQuoted, TypeOK
      <3>3. m.queueVol \in Lots \cup {Unmeasured} BY <3>2, MatchKeepsPlace
      <3> HIDE DEF m
      <3>4. /\ \A i \in DOMAIN queueVol' : i # id =>
                 i \in DOMAIN queueVol /\ queueVol'[i] = queueVol[i]
            /\ id \in DOMAIN queueVol' => queueVol'[id] = m.queueVol
        BY <3>1 DEF With
      <3> QED BY <3>1, <3>3, <3>4, PlacesMove
    <2>4. CASE PlaceDuplicate(o) BY <1>3, <2>4 DEF PlaceDuplicate
    <2> QED BY <1>6, <2>2, <2>3, <2>4 DEF Place, o
  <1>7. CASE CancelFinish
    <2>1. queueVol' = Without(queueVol, canceling) BY <1>7 DEF CancelFinish
    <2>2. /\ canceling \notin DOMAIN queueVol'
          /\ \A i \in DOMAIN queueVol' : i \in DOMAIN queueVol /\ queueVol'[i] = queueVol[i]
      BY <2>1 DEF Without
    <2> QED BY <2>2, PlacesMove
  <1>8. ASSUME NEW id \in matching, MatchUpdates(id) \/ MatchQueues(id)
        PROVE  PlacesStep /\ \A i \in DOMAIN queueVol' : queueVol'[i] \in Lots \cup {Unmeasured}
    <2> DEFINE m == Match(orders[id], queueVol[id], mds[orders[id].symbol])
    <2>1. /\ id \in DOMAIN queueVol /\ orders[id].symbol \in Symbols
          /\ mds[orders[id].symbol] \in MarketDepth
      BY <1>1, MatchingFacts
    <2>2. mds[orders[id].symbol] \in Quotes BY <1>1, <2>1, BookAssumption DEF TypeOK
    <2>3. queueVol[id] \in Lots \cup {Unmeasured} BY <2>1 DEF QueueInv
    <2>4. /\ m.queueVol \in Lots \cup {Unmeasured}
          /\ queueVol[id] \in Lots =>
               m.queueVol \in Lots /\ (m.queueVol <= queueVol[id] \/ m.queueVol = 0)
      BY <2>2, <2>3, MatchKeepsPlace
    <2>5. \/ queueVol' = Without(queueVol, id)
          \/ queueVol' = [queueVol EXCEPT ![id] = m.queueVol]
      BY <1>8 DEF MatchUpdates, MatchQueues
    <2> HIDE DEF m
    <2>6. /\ \A i \in DOMAIN queueVol' : i # id =>
               i \in DOMAIN queueVol /\ queueVol'[i] = queueVol[i]
          /\ id \in DOMAIN queueVol' => queueVol'[id] = m.queueVol
      BY <2>1, <2>5 DEF Without
    <2> QED BY <2>4, <2>6, PlacesMove
  <1>9. ASSUME NEW id \in OrderIds, CancelMark(id) PROVE UNCHANGED queueVol
    BY <1>9 DEF CancelMark
  <1>10. ASSUME NEW md \in Quotes, OnMarketDepth(md) PROVE UNCHANGED queueVol
    BY <1>10 DEF OnMarketDepth
  <1>11. CASE Subscribe \/ Unsubscribe \/ Deliver
    BY <1>3, <1>11 DEF Subscribe, Unsubscribe, Deliver
  <1>12. CASE UNCHANGED bookVars BY <1>3, <1>12 DEF bookVars
  <1> QED BY <1>3, <1>4, <1>6, <1>7, <1>8, <1>9, <1>10, <1>11, <1>12 DEF Next, StrandStep

\* An order's place in the queue is measured once and only ever improves until its
\* turn comes, for any quotes in whole lots and over every interleaving of matching,
\* placing and cancelling.
THEOREM PlacesAreKept ==
    ASSUME WholeLots
    PROVE  Spec => PlaceInQueueKept
  <1>1. Init => QueueInv BY InitIInv DEF Init, QueueInv
  <1>2. QueueInv /\ [Next]_bookVars => QueueInv' /\ [PlacesStep]_bookVars BY NextKeepsPlaces
  <1>3. [][PlacesStep]_bookVars => PlaceInQueueKept
    BY PTL DEF PlacesStep, PlaceInQueueKept
  <1> QED BY <1>1, <1>2, <1>3, PTL DEF Spec
=============================================================================
