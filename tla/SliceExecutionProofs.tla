------------------------ MODULE SliceExecutionProofs ------------------------
(***************************************************************************)
(* What the slices of an algo order add up to, and when they end, for      *)
(* every target, lot size, number of slices and of rounds, duration, plan  *)
(* and participation limit.                                                *)
(***************************************************************************)
EXTENDS SliceExecution, TLAPS

-----------------------------------------------------------------------------
(* The helpers *)

\* A division by a positive number does not enlarge.
LEMMA DivSmall ==
    ASSUME NEW a \in Nat, NEW b \in Nat \ {0}
    PROVE  /\ a \div b \in Nat /\ a \div b <= a
           /\ a \div 1 = a
  OBVIOUS

\* The source's division of integers gives an integer.
LEMMA DivType ==
    ASSUME NEW a \in Int, NEW b \in Nat \ {0}
    PROVE  Div(a, b) \in Int
  BY DEF Div

\* A product of integers is one.
LEMMA TimesInt ==
    ASSUME NEW a \in Int, NEW b \in Int
    PROVE  a * b \in Int
  OBVIOUS

\* Slices of the same duration begin at its multiples.
LEMMA TimesNext ==
    ASSUME NEW i \in Nat, NEW d \in Nat
    PROVE  /\ i * d \in Nat
           /\ (i + 1) * d = i * d + d
  OBVIOUS

\* A later slice begins later.
LEMMA TimesLater ==
    ASSUME NEW i \in Nat, NEW k \in Nat, NEW d \in Nat, i <= k
    PROVE  i * d <= k * d
  <1>1. PICK e \in Nat : k = i + e
    <2>1. k - i \in Nat /\ k = i + (k - i) OBVIOUS
    <2> QED BY <2>1
  <1>2. k * d = i * d + e * d BY <1>1
  <1>3. e * d \in Nat /\ i * d \in Nat BY TimesNext
  <1> QED BY <1>2, <1>3

\* A smaller summand keeps a sum within its limit.
LEMMA SumLower ==
    ASSUME NEW a \in Nat, NEW b \in Nat, NEW c \in Nat, NEW d \in Nat, d <= b,
           NEW limit \in Nat
    PROVE  /\ a + b + c <= limit => a + d + c <= limit
           /\ a + c + b <= limit => a + c + d <= limit
  OBVIOUS

\* What fits the lot size is a part of what was asked, and leaves less than an order.
LEMMA FloorFits ==
    ASSUME NEW q \in Int
    PROVE  /\ Floor2FitLotSize(q) \in Nat
           /\ q >= 0 => Floor2FitLotSize(q) <= q
           /\ q < 0 => Floor2FitLotSize(q) = 0
           /\ q - Floor2FitLotSize(q) < orderInitQtySize
  <1>1. CASE q < orderInitQtySize
    BY <1>1, SliceAssumption DEF Floor2FitLotSize
  <1>2. CASE q >= orderInitQtySize
    <2> DEFINE r == q - orderInitQtySize
               lots == r \div lotSize
    <2>1. r \in Nat /\ lotSize \in Nat \ {0} /\ orderInitQtySize \in Nat \ {0}
          /\ lotSize <= orderInitQtySize
      BY <1>2, SliceAssumption
    <2>2. lots \in Nat /\ r = lots * lotSize + (r % lotSize) /\ r % lotSize \in 0..lotSize - 1
      BY <2>1
    <2>3. PICK added \in Nat : added = lots * lotSize
      BY <2>1, <2>2, TimesNext
    <2>4. Floor2FitLotSize(q) = orderInitQtySize + added
      BY <1>2, <2>1, <2>3 DEF Floor2FitLotSize
    <2>5. added <= r /\ r - added < lotSize
      <3> HIDE DEF r, lots
      <3> QED BY <2>1, <2>2, <2>3
    <2> HIDE DEF lots
    <2> QED BY <1>2, <2>1, <2>4, <2>5
  <1> QED BY <1>1, <1>2, SliceAssumption

\* The limit of the market's volume only lowers what is taken.
LEMMA ShinkFits ==
    ASSUME NEW q \in Int, NEW impact \in Impacts
    PROVE  /\ ShinkImpact(q, impact) \in Nat
           /\ q >= 0 => ShinkImpact(q, impact) <= q
           /\ q < 0 => ShinkImpact(q, impact) = 0
  <1> DEFINE w == IF q - impact >= orderInitQtySize THEN Least(q, impact) ELSE q
  <1>1. impact \in Nat /\ orderInitQtySize \in Nat BY SliceAssumption
  <1>2. w \in Int /\ w <= q /\ (q >= 0 => w >= 0) BY <1>1 DEF Least
  <1>3. ShinkImpact(q, impact) = Floor2FitLotSize(w) BY DEF ShinkImpact
  <1> HIDE DEF w
  <1> QED BY <1>2, <1>3, FloorFits

\* A slice has at least one round, and never more than it is allowed.
LEMMA RoundsFit ==
    ASSUME NEW make \in Int, NEW take \in Int, NEW lot \in Nat \ {0}
    PROVE  Rounds(make, take, lot) \in 1..roundsPerSlicer
  <1>1. Div(make, lot) \in Int /\ Div(take, lot) \in Int
    BY DivType
  <1> QED BY <1>1, SliceAssumption DEF Rounds, Least, Most

\* An order is placed whole or skipped.
LEMMA PlacedWhole ==
    ASSUME NEW q \in Int, NEW n \in Placed(q)
    PROVE  n \in Nat /\ (n = 0 \/ n = q)
  BY DEF Placed

\* A fill or an answer is about a part of the order.
LEMMA LotsFit ==
    ASSUME NEW q \in Nat, NEW n \in Lots(q)
    PROVE  n \in Nat /\ n <= q /\ n > 0
  BY SliceAssumption DEF Lots

-----------------------------------------------------------------------------
(* The inductive invariant *)

\* When the last slice ends, but for the waits for answers.  It is given a second.
EndTime == (numOfSlicers - 1) * durationPerSlicer + Most(remainTime, 10)

\* Which slice it is in; nothing is ordered before the first one begins.
Placement ==
    /\ Len(cumQtyOfSlicers) = numOfSlicers
    /\ at = "round" => index < numOfSlicers
    /\ at \in {"plan", "last", "final", "pending", "done"} => index = numOfSlicers
    /\ at = "slice" /\ index = 1 => resting = 0

\* What each wait leaves of the slice's duration.
Timed ==
    /\ at = "slice" => /\ clock = (index - 1) * durationPerSlicer
                       /\ duration_remain = IF index = numOfSlicers
                                            THEN remainTime ELSE durationPerSlicer
    /\ at = "round" => clock + duration_remain = index * durationPerSlicer
    /\ at \in {"plan", "last"} => clock + duration_remain <= EndTime
    /\ at = "final" => clock + duration_remain <= EndTime + 61
    /\ at = "pending" => clock <= EndTime + 61
    /\ at = "done" => clock <= EndTime + 161

\* Once the final order is placed nothing is being cancelled and nothing is missing.
Reached ==
    at \in {"pending", "done"} /\ ~excused => asked = 0 /\ qtyTarget - qty < orderInitQtySize

SliceInv == TypeOK /\ Placement /\ Timed /\ NeverBeyondTarget /\ Reached

\* The numbers a step computes with.
LEMMA Numbers ==
    ASSUME TypeOK
    PROVE  /\ cap \in Nat /\ qty \in Nat /\ cumQty \in Int
           /\ remainTime \in Nat \ {0} /\ beforLastUpper \in Int
           /\ \A atLimit \in AtLimitPrice : atLimit \in Nat
  BY SliceAssumption
  DEF TypeOK, NoCap, qty, cumQty, beforLastUpper, AtLimitPrice

\* A part of the remainder leaves the target out of reach.
LEMMA PartFits ==
    ASSUME TypeOK, NEW remain \in Int
    PROVE  Part(remain) \in Int /\ Part(remain) <= qtyTarget - qty
  <1>1. Div(remain, round) \in Int
    <2>1. round \in Nat \ {0} BY SliceAssumption DEF TypeOK
    <2> QED BY <2>1, DivType
  <1> QED BY <1>1, Numbers, SliceAssumption DEF Part, Least

\* A round waits for a part of what is left, the last one for all of it.
LEMMA RoundTimeFits ==
    ASSUME TypeOK
    PROVE  /\ RoundTime \in Nat /\ RoundTime <= duration_remain
           /\ round = 1 => RoundTime = duration_remain
  <1>1. duration_remain \in Nat /\ round \in Nat \ {0}
    BY SliceAssumption DEF TypeOK
  <1> QED BY <1>1, DivSmall DEF RoundTime

\* No slice but the last is due to begin after the last one is.
LEMMA EndIsLast ==
    ASSUME TypeOK
    PROVE  /\ EndTime \in Nat /\ (numOfSlicers - 1) * durationPerSlicer \in Nat
           /\ EndTime = (numOfSlicers - 1) * durationPerSlicer + Most(remainTime, 10)
           /\ \A i \in Nat : i < numOfSlicers =>
                 /\ i * durationPerSlicer \in Nat
                 /\ i * durationPerSlicer <= (numOfSlicers - 1) * durationPerSlicer
  <1>1. numOfSlicers - 1 \in Nat /\ durationPerSlicer \in Nat BY SliceAssumption
  <1>2. (numOfSlicers - 1) * durationPerSlicer \in Nat BY <1>1, TimesNext
  <1>3. ASSUME NEW i \in Nat, i < numOfSlicers
        PROVE  /\ i * durationPerSlicer \in Nat
               /\ i * durationPerSlicer <= (numOfSlicers - 1) * durationPerSlicer
    <2>1. i <= numOfSlicers - 1 BY <1>3, SliceAssumption
    <2> QED BY <1>1, <2>1, TimesLater, TimesNext
  <1>4. Most(remainTime, 10) \in Nat BY Numbers DEF Most
  <1> QED BY <1>2, <1>3, <1>4 DEF EndTime

\* The first slice begins at time 0, with nothing ordered.
LEMMA SliceInit == Init => SliceInv
<1> SUFFICES ASSUME Init PROVE SliceInv
  OBVIOUS
<1>1. cumQtyOfSlicers \in Seq(Int) /\ Len(cumQtyOfSlicers) = numOfSlicers
  BY PlanAssumption DEF Init
<1>2. 1 \in 1..Len(cumQtyOfSlicers) BY <1>1, SliceAssumption
<1>3. remainTime \in Nat /\ duration_remain \in Nat BY SliceAssumption DEF Init
<1>4. TypeOK
  <2>1. awaits \in BOOLEAN /\ excused \in BOOLEAN BY DEF Init
  <2>2. index \in 1..Len(cumQtyOfSlicers) BY <1>2 DEF Init
  <2>3. round \in 1..roundsPerSlicer BY SliceAssumption DEF Init
  <2> QED BY <1>1, <1>3, <2>1, <2>2, <2>3 DEF Init, TypeOK
<1>5. Placement BY <1>1 DEF Init, Placement
<1>6. Timed
  <2>1. (1 - 1) * durationPerSlicer = 0 BY SliceAssumption
  <2>2. duration_remain = IF 1 = numOfSlicers THEN remainTime ELSE durationPerSlicer
    BY <1>1 DEF Init
  <2> QED BY <2>1, <2>2 DEF Init, Timed
<1>7. NeverBeyondTarget /\ Reached
  BY SliceAssumption DEF Init, NeverBeyondTarget, Reached, qty
<1> QED BY <1>4, <1>5, <1>6, <1>7 DEF SliceInv

-----------------------------------------------------------------------------
(* The slices before the last *)

\* What a slice may make and take are numbers, whatever the bias and the limits.
LEMMA StartSliceKeeps ==
    ASSUME SliceInv, StartSlice
    PROVE  SliceInv'
<1> USE DEF SliceInv
<1>1. PICK atLimit \in AtLimitPrice :
        LET upper == Least(Least(Div(cumQty * (100 + biasPercent), 100), beforLastUpper), cap)
            lower == Least(Least(Div(cumQty * (100 - biasPercent), 100), beforLastUpper), cap)
        IN  /\ qty2make_remain' = ToMake(upper, atLimit)
            /\ qty2take_remain' = ToTake(lower)
  BY DEF StartSlice
<1>2. /\ Div(cumQty * (100 + biasPercent), 100) \in Int
      /\ Div(cumQty * (100 - biasPercent), 100) \in Int
  <2>1. 100 + biasPercent \in Int /\ 100 - biasPercent \in Int BY SliceAssumption
  <2>2. /\ cumQty * (100 + biasPercent) \in Int
        /\ cumQty * (100 - biasPercent) \in Int
    BY <2>1, Numbers, TimesInt
  <2> QED BY <2>2, DivType
<1>3. qty2make_remain' \in Int /\ qty2take_remain' \in Int
  <2>0. /\ filled \in Nat /\ atLimit \in Nat /\ qty \in Nat
        /\ beforLastUpper \in Int /\ cap \in Nat
    BY Numbers DEF TypeOK
  <2>1. ASSUME NEW upper \in Int PROVE ToMake(upper, atLimit) \in Int
    BY <2>0 DEF ToMake, Least
  <2>2. ASSUME NEW lower \in Int PROVE ToTake(lower) \in Int
    BY <2>0 DEF ToTake, Least, Most
  <2>3. ASSUME NEW a \in Int PROVE Least(Least(a, beforLastUpper), cap) \in Int
    BY <2>0 DEF Least
  <2> QED BY <1>1, <1>2, <2>1, <2>2, <2>3
<1>4. round' \in 1..roundsPerSlicer
  <2>1. amountLot \in Nat \ {0} BY SliceAssumption
  <2>2. round' = Rounds(qty2make_remain', qty2take_remain', amountLot) BY DEF StartSlice
  <2> QED BY <1>3, <2>1, <2>2, RoundsFit
<1>5. TypeOK' BY <1>3, <1>4 DEF StartSlice, TypeOK, plan, perf
<1>6. Placement' BY SliceAssumption DEF StartSlice, TypeOK, Placement, isLast, plan
<1>7. Timed'
  <2>1. index - 1 \in Nat /\ (index - 1) + 1 = index BY SliceAssumption DEF TypeOK, Placement
  <2>2. index * durationPerSlicer = (index - 1) * durationPerSlicer + durationPerSlicer
    BY <2>1, TimesNext, SliceAssumption
  <2>3. clock + duration_remain = index * durationPerSlicer
    BY <2>2 DEF StartSlice, Timed, Placement, isLast
  <2> QED BY <2>3 DEF StartSlice, Timed
<1>8. NeverBeyondTarget' /\ Reached'
  BY DEF StartSlice, NeverBeyondTarget, Reached, qty, perf
<1> QED BY <1>5, <1>6, <1>7, <1>8

\* A round that makes and takes stays within the target: it only does both when
\* both parts fit.
LEMMA RoundStaysWithin ==
    ASSUME TypeOK, NeverBeyondTarget, SliceRound
    PROVE  /\ resting' \in Nat /\ filled + resting' + asked <= qtyTarget
           /\ qty2make_remain' \in Int /\ qty2take_remain' \in Int
<1> DEFINE make(allow2Take) == IF AllowMake(allow2Take)
                               THEN Floor2FitLotSize(Part(qty2make_remain)) ELSE 0
           take(allow2Take, impact) ==
               IF allow2Take THEN ShinkImpact(Part(qty2take_remain), impact) ELSE 0
<1>1. PICK allow2Take \in BOOLEAN, impact \in Impacts :
        /\ \E m \in Placed(make(allow2Take)), t \in Placed(take(allow2Take, impact)) :
              resting' = resting + m + t
        /\ qty2make_remain' = qty2make_remain - make(allow2Take)
        /\ qty2take_remain' = qty2take_remain - take(allow2Take, impact)
  BY DEF SliceRound
<1> DEFINE a == make(allow2Take)
           b == take(allow2Take, impact)
           free == qtyTarget - qty
<1>2. PICK m \in Placed(a), t \in Placed(b) : resting' = resting + m + t
  BY <1>1
<1>3. free \in Nat /\ qtyTarget \in Nat /\ qty \in Nat
  BY Numbers, SliceAssumption DEF NeverBeyondTarget
<1>4. /\ Part(qty2make_remain) \in Int /\ Part(qty2make_remain) <= free
      /\ Part(qty2take_remain) \in Int /\ Part(qty2take_remain) <= free
  BY PartFits DEF TypeOK
<1>5. a \in Nat /\ a <= free /\ (a > 0 => a <= Part(qty2make_remain))
  <2>1. CASE AllowMake(allow2Take)
    <3>1. a = Floor2FitLotSize(Part(qty2make_remain)) BY <2>1
    <3> HIDE DEF a, free
    <3> QED BY <3>1, <1>3, <1>4, FloorFits
  <2>2. CASE ~AllowMake(allow2Take)
    <3>1. a = 0 BY <2>2
    <3> QED BY <3>1, <1>3
  <2> QED BY <2>1, <2>2
<1>6. b \in Nat /\ b <= free /\ (b > 0 => b <= Part(qty2take_remain))
  BY <1>3, <1>4, ShinkFits
<1>7. a + b <= free
  <2>1. CASE a = 0 \/ b = 0 BY <2>1, <1>3, <1>5, <1>6
  <2>2. CASE a > 0 /\ b > 0
    <3>1. qty + Part(qty2take_remain) + Part(qty2make_remain) < qtyTarget
      BY <2>2 DEF AllowMake
    <3> HIDE DEF a, b
    <3> QED BY <2>2, <3>1, <1>3, <1>4, <1>5, <1>6
  <2> QED BY <2>1, <2>2, <1>5, <1>6
<1>8. m \in Nat /\ t \in Nat /\ m <= a /\ t <= b
  <2> HIDE DEF a, b
  <2> QED BY <1>2, <1>5, <1>6, PlacedWhole
<1>9. qty2make_remain' = qty2make_remain - a /\ qty2take_remain' = qty2take_remain - b
  BY <1>1
<1> HIDE DEF a, b
<1> QED BY <1>2, <1>3, <1>5, <1>6, <1>7, <1>8, <1>9 DEF TypeOK, qty

\* A round spends its part of the time, the last one all that is left.
LEMMA SliceRoundKeeps ==
    ASSUME SliceInv, SliceRound
    PROVE  SliceInv'
<1> USE DEF SliceInv
<1>1. /\ resting' \in Nat /\ filled + resting' + asked <= qtyTarget
      /\ qty2make_remain' \in Int /\ qty2take_remain' \in Int
  BY RoundStaysWithin
<1>2. index \in Nat \ {0} /\ index < numOfSlicers /\ numOfSlicers \in Nat
      /\ Len(cumQtyOfSlicers) = numOfSlicers
  BY SliceAssumption DEF TypeOK, Placement, SliceRound
<1>3. RoundTime \in Nat /\ RoundTime <= duration_remain
      /\ (round = 1 => RoundTime = duration_remain)
  BY RoundTimeFits
<1>4. CASE round > 1
  <2>1. /\ round' = round - 1 /\ duration_remain' = duration_remain - RoundTime
        /\ clock' = clock + RoundTime /\ index' = index /\ at' = at /\ at = "round"
        /\ awaits' = TRUE
    BY <1>4 DEF SliceRound, WaitRound
  <2>2. TypeOK'
    <3>1. duration_remain' \in Nat /\ clock' \in Nat /\ round' \in 1..roundsPerSlicer
      BY <1>3, <1>4, <2>1, SliceAssumption DEF TypeOK
    <3>2. awaits' \in BOOLEAN BY <2>1
    <3> QED BY <1>1, <2>1, <3>1, <3>2 DEF TypeOK, SliceRound, plan
  <2>3. Placement' BY <2>1 DEF Placement, SliceRound, plan
  <2>4. Timed'
    <3>1. clock' + duration_remain' = clock + duration_remain
      BY <1>3, <2>1 DEF TypeOK
    <3> QED BY <2>1, <3>1 DEF Timed
  <2>5. NeverBeyondTarget' /\ Reached'
    BY <1>1, <2>1 DEF NeverBeyondTarget, Reached, qty, SliceRound
  <2> QED BY <2>2, <2>3, <2>4, <2>5
<1>5. CASE round = 1
  <2>1. /\ index' = index + 1 /\ at' = "slice" /\ round' = roundsPerSlicer
        /\ duration_remain' = IF index + 1 = numOfSlicers THEN remainTime ELSE durationPerSlicer
        /\ clock' = clock + duration_remain /\ at = "round" /\ awaits' = TRUE
    BY <1>2, <1>3, <1>5 DEF SliceRound, WaitRound
  <2>2. TypeOK'
    <3>1. index' \in 1..Len(cumQtyOfSlicers) BY <1>2, <2>1
    <3>2. duration_remain' \in Nat /\ clock' \in Nat /\ round' \in 1..roundsPerSlicer
      BY <2>1, Numbers, SliceAssumption DEF TypeOK
    <3>3. awaits' \in BOOLEAN BY <2>1
    <3> QED BY <1>1, <2>1, <3>1, <3>2, <3>3 DEF TypeOK, SliceRound, plan
  <2>3. Placement' BY <1>2, <2>1 DEF Placement, SliceRound, plan
  <2>4. Timed'
    <3>1. clock' = index * durationPerSlicer BY <2>1 DEF Timed
    <3>2. index' - 1 = index BY <1>2, <2>1
    <3>3. remainTime' = remainTime BY DEF SliceRound, plan
    <3> QED BY <2>1, <3>1, <3>2, <3>3 DEF Timed
  <2>5. NeverBeyondTarget' /\ Reached'
    BY <1>1, <2>1 DEF NeverBeyondTarget, Reached, qty, SliceRound
  <2> QED BY <2>2, <2>3, <2>4, <2>5
<1>6. round = 1 \/ round > 1 BY SliceAssumption DEF TypeOK
<1> QED BY <1>4, <1>5, <1>6

-----------------------------------------------------------------------------
(* The last slice *)

\* The plan of the last slice consists of numbers and at least one round.
LEMMA PlanFits ==
    ASSUME TypeOK, Plan
    PROVE  /\ qty2make_remain' \in Int /\ qty2take_remain' \in Int
           /\ round' \in 1..roundsPerSlicer
           /\ at' = "last" /\ awaits' \in BOOLEAN
<1>1. PICK makes \in BOOLEAN :
        LET upTo == Least(cumQty, cap)
        IN  PlanOf(IF makes THEN upTo - filled ELSE 0, upTo - qty)
  BY DEF Plan
<1>2. Least(cumQty, cap) \in Int /\ filled \in Nat /\ qty \in Nat
  BY Numbers DEF Least, TypeOK
<1>3. qty2make_remain' \in Int /\ qty2take_remain' \in Int
  BY <1>1, <1>2 DEF PlanOf
<1>4. round' = Rounds(qty2make_remain', qty2take_remain', orderInitQtySize)
  BY <1>1 DEF PlanOf
<1>5. awaits' \in BOOLEAN /\ at' = "last" BY <1>1 DEF PlanOf
<1> QED BY <1>3, <1>4, <1>5, RoundsFit, SliceAssumption

\* The last slice begins with its whole duration left, or what the wait for its
\* first cancellations left of it.
LEMMA PlanKeeps ==
    ASSUME SliceInv, StartLast \/ PlanLast
    PROVE  SliceInv'
<1> USE DEF SliceInv
<1>1. Plan BY DEF StartLast, PlanLast
<1>2. UNCHANGED <<cumQtyOfSlicers, remainTime, index, duration_remain, clock,
                  filled, resting, asked, cap, excused>>
  BY DEF StartLast, PlanLast, plan, perf
<1>3. /\ qty2make_remain' \in Int /\ qty2take_remain' \in Int
      /\ round' \in 1..roundsPerSlicer
      /\ at' = "last" /\ awaits' \in BOOLEAN
  BY <1>1, PlanFits
<1>4. index = numOfSlicers BY DEF StartLast, PlanLast, isLast, Placement
<1>5. TypeOK' BY <1>2, <1>3 DEF TypeOK
<1>6. Placement' BY <1>2, <1>3, <1>4 DEF Placement
<1>7. Timed'
  <2>1. CASE StartLast
    <3>1. at = "slice" BY <2>1 DEF StartLast
    <3>2. clock = (numOfSlicers - 1) * durationPerSlicer /\ duration_remain = remainTime
      BY <1>4, <3>1 DEF Timed
    <3>3. clock + duration_remain <= EndTime
      BY <3>2, Numbers, EndIsLast DEF EndTime, Most
    <3> QED BY <1>2, <1>3, <3>3 DEF Timed, EndTime
  <2>2. CASE PlanLast
    <3>1. at = "plan" BY <2>2 DEF PlanLast
    <3>2. clock + duration_remain <= EndTime BY <3>1 DEF Timed
    <3> QED BY <1>2, <1>3, <3>2 DEF Timed, EndTime
  <2> QED BY <2>1, <2>2
<1>8. NeverBeyondTarget' /\ Reached'
  BY <1>2, <1>3 DEF NeverBeyondTarget, Reached, qty
<1> QED BY <1>5, <1>6, <1>7, <1>8

\* A wait that is negative does not turn the time back beyond its beginning: there
\* is nothing to cancel before the second slice.
LEMMA CancelOutOfBestKeeps ==
    ASSUME SliceInv, CancelOutOfBest
    PROVE  SliceInv'
<1> USE DEF SliceInv
<1>1. PICK n \in {resting, resting \div 2} \ {0} :
        asked' = asked + n /\ resting' = resting - n
  BY DEF CancelOutOfBest
<1>2. /\ at = "slice" /\ index = numOfSlicers /\ at' = "plan" /\ awaits' \in BOOLEAN
      /\ duration_remain' = Most(duration_remain - 30, 10)
      /\ LET wait == duration_remain - duration_remain'
         IN  clock' \in {clock + wait, clock + Most(wait, 0)}
      /\ UNCHANGED <<cumQtyOfSlicers, remainTime, index, round, qty2make_remain,
                     qty2take_remain, filled, cap, excused>>
  BY DEF CancelOutOfBest, isLast, Placement, plan
<1>3. resting \in Nat /\ asked \in Nat /\ filled \in Nat BY DEF TypeOK
<1>4. n \in Nat /\ n <= resting /\ resting # 0
  <2>1. resting \div 2 \in Nat /\ resting \div 2 <= resting BY <1>3, DivSmall
  <2> QED BY <1>3, <2>1
<1>5. /\ asked' \in Nat /\ resting' \in Nat
      /\ filled + resting' + asked' = filled + resting + asked
  BY <1>1, <1>3, <1>4
<1>6. /\ clock = (numOfSlicers - 1) * durationPerSlicer
      /\ duration_remain = remainTime
  BY <1>2 DEF Timed
<1>7. clock \in Nat /\ clock >= 10
  <2>1. numOfSlicers - 1 \in Nat /\ 1 <= numOfSlicers - 1
    BY <1>2, <1>4, SliceAssumption DEF Placement
  <2>2. 1 * durationPerSlicer <= (numOfSlicers - 1) * durationPerSlicer
    BY <2>1, TimesLater, SliceAssumption
  <2>3. 1 * durationPerSlicer = durationPerSlicer BY SliceAssumption
  <2>4. durationPerSlicer \in Nat /\ durationPerSlicer >= 10 BY SliceAssumption
  <2>5. clock \in Nat BY DEF TypeOK
  <2>6. durationPerSlicer <= clock BY <1>6, <2>2, <2>3
  <2> QED BY <2>4, <2>5, <2>6
<1>8. /\ duration_remain' \in Nat /\ clock' \in Nat
      /\ clock' + duration_remain' <= clock + Most(duration_remain, 10)
  <2>1. remainTime \in Nat \ {0} BY Numbers
  <2> QED BY <1>2, <1>6, <1>7, <2>1 DEF Most
<1>9. TypeOK' BY <1>2, <1>5, <1>8 DEF TypeOK
<1>10. Placement' BY <1>2 DEF Placement
<1>11. Timed'
  <2>1. clock + Most(duration_remain, 10) = EndTime BY <1>6 DEF EndTime
  <2>2. clock' + duration_remain' <= EndTime BY <1>8, <2>1
  <2> QED BY <1>2, <2>2 DEF Timed, EndTime
<1>12. NeverBeyondTarget' /\ Reached'
  <2>0. filled' = filled BY <1>2
  <2>1. qty' = qty BY <2>0, <1>5 DEF qty
  <2> QED BY <1>2, <2>1 DEF NeverBeyondTarget, Reached
<1> QED BY <1>9, <1>10, <1>11, <1>12

\* A round of the last slice makes or else takes, within the target.
LEMMA LastRoundKeeps ==
    ASSUME SliceInv, LastRound
    PROVE  SliceInv'
<1> USE DEF SliceInv
<1> DEFINE make(allow2Make) == IF allow2Make
                               THEN Floor2FitLotSize(Part(qty2make_remain)) ELSE 0
           take(allow2Make, impact) ==
               IF make(allow2Make) > 0 THEN 0 ELSE ShinkImpact(Part(qty2take_remain), impact)
           free == qtyTarget - qty
<1>1. PICK allow2Make \in BOOLEAN, impact \in Impacts :
        /\ \E n \in Placed(make(allow2Make) + take(allow2Make, impact)) :
              resting' = resting + n
        /\ qty2make_remain' = qty2make_remain - make(allow2Make)
        /\ qty2take_remain' = qty2take_remain - take(allow2Make, impact)
  BY DEF LastRound
<1> DEFINE a == make(allow2Make)
           b == take(allow2Make, impact)
<1>2. PICK n \in Placed(a + b) : resting' = resting + n
  BY <1>1
<1>3. free \in Nat /\ qtyTarget \in Nat /\ qty \in Nat
  BY Numbers, SliceAssumption DEF NeverBeyondTarget
<1>4. /\ Part(qty2make_remain) \in Int /\ Part(qty2make_remain) <= free
      /\ Part(qty2take_remain) \in Int /\ Part(qty2take_remain) <= free
  BY PartFits DEF TypeOK
<1>5. a \in Nat /\ a <= free
  <2>1. CASE allow2Make
    <3>1. a = Floor2FitLotSize(Part(qty2make_remain)) BY <2>1
    <3> HIDE DEF a, free
    <3> QED BY <3>1, <1>3, <1>4, FloorFits
  <2>2. CASE ~allow2Make
    <3>1. a = 0 BY <2>2
    <3> QED BY <3>1, <1>3
  <2> QED BY <2>1, <2>2
<1>6. b \in Nat /\ b <= free /\ (a > 0 => b = 0)
  <2>1. CASE a > 0
    <3>1. b = 0 BY <2>1
    <3> QED BY <3>1, <1>3
  <2>2. CASE ~(a > 0)
    <3>1. b = ShinkImpact(Part(qty2take_remain), impact) BY <2>2
    <3> HIDE DEF a, b, free
    <3> QED BY <2>2, <3>1, <1>3, <1>4, ShinkFits
  <2> QED BY <2>1, <2>2
<1>7. qty2make_remain' = qty2make_remain - a /\ qty2take_remain' = qty2take_remain - b
  BY <1>1
<1> HIDE DEF a, b
<1>8. n \in Nat /\ n <= free
  BY <1>2, <1>3, <1>5, <1>6, PlacedWhole
<1>9. /\ at = "last" /\ at' = "last" /\ round > 1 /\ round' = round - 1
      /\ awaits' \in BOOLEAN
      /\ clock' = clock + RoundTime /\ duration_remain' = duration_remain - RoundTime
      /\ UNCHANGED <<cumQtyOfSlicers, remainTime, index, filled, asked, cap, excused>>
  BY DEF LastRound, plan
<1>10. /\ duration_remain' \in Nat /\ clock' \in Nat
       /\ clock' + duration_remain' = clock + duration_remain
  <2>1. RoundTime \in Nat /\ RoundTime <= duration_remain BY RoundTimeFits
  <2>2. duration_remain \in Nat /\ clock \in Nat BY DEF TypeOK
  <2> QED BY <1>9, <2>1, <2>2
<1>11. TypeOK'
  <2>1. /\ qty2make_remain' \in Int /\ qty2take_remain' \in Int
        /\ resting' \in Nat /\ round' \in 1..roundsPerSlicer
    BY <1>2, <1>5, <1>6, <1>7, <1>8, <1>9, SliceAssumption DEF TypeOK
  <2> QED BY <1>9, <1>10, <2>1 DEF TypeOK
<1>12. Placement' BY <1>9 DEF Placement
<1>13. Timed'
  <2>1. clock + duration_remain <= EndTime BY <1>9 DEF Timed
  <2> QED BY <1>9, <1>10, <2>1 DEF Timed, EndTime
<1>14. NeverBeyondTarget' /\ Reached'
  BY <1>2, <1>3, <1>8, <1>9 DEF NeverBeyondTarget, Reached, qty, TypeOK
<1> QED BY <1>11, <1>12, <1>13, <1>14

\* The wait for the answers to all cancellations runs a minute over at most.
LEMMA CancelAllKeeps ==
    ASSUME SliceInv, CancelAll
    PROVE  SliceInv'
<1> USE DEF SliceInv
<1>1. /\ at = "last" /\ at' = "final" /\ awaits' \in BOOLEAN
      /\ asked' = asked + resting /\ resting' = 0
      /\ duration_remain' = Most(duration_remain - 31, 30)
      /\ clock' = clock + 31
      /\ UNCHANGED <<cumQtyOfSlicers, remainTime, index, round, qty2make_remain,
                     qty2take_remain, filled, cap, excused>>
  BY DEF CancelAll, plan
<1>2. /\ resting \in Nat /\ asked \in Nat /\ filled \in Nat
      /\ duration_remain \in Nat /\ clock \in Nat
  BY DEF TypeOK
<1>3. /\ asked' \in Nat /\ resting' \in Nat
      /\ duration_remain' \in Nat /\ clock' \in Nat
  BY <1>1, <1>2 DEF Most
<1>4. clock' + duration_remain' <= EndTime + 61
  <2>1. clock + duration_remain <= EndTime BY <1>1 DEF Timed
  <2>2. EndTime \in Nat BY EndIsLast
  <2> QED BY <1>1, <1>2, <2>1, <2>2 DEF Most
<1>5. TypeOK' BY <1>1, <1>3 DEF TypeOK
<1>6. Placement' BY <1>1 DEF Placement
<1>7. Timed' BY <1>1, <1>4 DEF Timed, EndTime
<1>8. NeverBeyondTarget' /\ Reached'
  <2>1. filled' = filled BY <1>1
  <2>2. qty' = qty BY <2>1, <1>1, <1>2 DEF qty
  <2> QED BY <1>1, <2>2 DEF NeverBeyondTarget, Reached
<1> QED BY <1>5, <1>6, <1>7, <1>8

\* The final order leaves less than an order of the target, unless something excuses it.
LEMMA FinalOrderKeeps ==
    ASSUME SliceInv, FinalOrder
    PROVE  SliceInv'
<1> USE DEF SliceInv
<1> DEFINE total == IF isBuy THEN Floor2FitLotSize(Remainder) ELSE Remainder
           free == qtyTarget - qty
<1>1. PICK n \in Placed(total) :
        /\ resting' = resting + n
        /\ excused' = (excused \/ asked > 0 \/ n < total \/ cap + 200 < qtyTarget)
  BY DEF FinalOrder
<1>2. /\ at \in {"last", "final"} /\ at' = "pending" /\ awaits' \in BOOLEAN
      /\ clock' = clock + duration_remain
      /\ UNCHANGED <<cumQtyOfSlicers, remainTime, index, round, qty2make_remain,
                     qty2take_remain, duration_remain, filled, asked, cap>>
  BY DEF FinalOrder, plan
<1>3. /\ resting \in Nat /\ asked \in Nat /\ filled \in Nat
      /\ duration_remain \in Nat /\ clock \in Nat
  BY DEF TypeOK
<1>4. free \in Nat /\ qty \in Nat /\ cap \in Nat /\ qtyTarget \in Nat
  BY Numbers, SliceAssumption DEF NeverBeyondTarget
<1>5. /\ Remainder \in Int /\ Remainder <= free
      /\ (cap + 200 >= qtyTarget => Remainder = free)
  BY <1>4 DEF Remainder, Least
<1>6. /\ total \in Int /\ total <= free
      /\ (cap + 200 >= qtyTarget => total \in Nat /\ free - total < orderInitQtySize)
  <2>1. CASE isBuy
    <3>1. total = Floor2FitLotSize(Remainder) BY <2>1
    <3> HIDE DEF total, free
    <3> QED BY <3>1, <1>4, <1>5, FloorFits
  <2>2. CASE ~isBuy
    <3>1. total = Remainder BY <2>2
    <3> HIDE DEF total, free
    <3> QED BY <3>1, <1>4, <1>5, SliceAssumption
  <2> QED BY <2>1, <2>2
<1> HIDE DEF total
<1>7. n \in Nat /\ n <= free /\ (n = 0 \/ n = total)
  BY <1>1, <1>4, <1>6, PlacedWhole
<1>8. excused' \in BOOLEAN BY <1>1
<1>9. TypeOK'
  <2>1. resting' \in Nat /\ clock' \in Nat BY <1>1, <1>2, <1>3, <1>7
  <2> QED BY <1>2, <1>8, <2>1 DEF TypeOK
<1>10. Placement' BY <1>2 DEF Placement
<1>11. Timed'
  <2>1. clock + duration_remain <= EndTime + 61
    <3>1. EndTime \in Nat BY EndIsLast
    <3> QED BY <1>2, <1>3, <3>1 DEF Timed
  <2> QED BY <1>2, <2>1 DEF Timed, EndTime
<1>12. qty' = qty + n
  <2>1. filled' = filled /\ asked' = asked BY <1>2
  <2> QED BY <1>1, <1>3, <1>7, <2>1 DEF qty
<1>13. NeverBeyondTarget'
  BY <1>4, <1>7, <1>12 DEF NeverBeyondTarget
<1>14. Reached'
  <2> SUFFICES ASSUME ~excused' PROVE asked' = 0 /\ qtyTarget - qty' < orderInitQtySize
    BY DEF Reached
  <2>1. ~(asked > 0) /\ ~(n < total) /\ ~(cap + 200 < qtyTarget) BY <1>1
  <2>2. asked' = 0 BY <1>2, <1>3, <2>1
  <2>3. free - total < orderInitQtySize /\ total \in Nat BY <1>4, <1>6, <2>1
  <2>4. n = total BY <1>7, <2>1, <2>3
  <2> QED BY <1>4, <1>12, <2>2, <2>3, <2>4, SliceAssumption
<1> QED BY <1>9, <1>10, <1>11, <1>13, <1>14

\* The strategy waits once more, for late updates.
LEMMA AwaitPendingKeeps ==
    ASSUME SliceInv, AwaitPending
    PROVE  SliceInv'
<1> USE DEF SliceInv
<1>1. /\ at = "pending" /\ at' = "done" /\ awaits' \in BOOLEAN
      /\ UNCHANGED <<cumQtyOfSlicers, remainTime, index, round, qty2make_remain,
                     qty2take_remain, duration_remain, filled, resting, asked, cap, excused>>
  BY DEF AwaitPending, plan, perf
<1>2. clock' \in Nat /\ clock' <= EndTime + 161
  <2>1. clock \in Nat BY DEF TypeOK
  <2>2. clock <= EndTime + 61 BY <1>1 DEF Timed
  <2>3. EndTime \in Nat BY EndIsLast
  <2> QED BY <2>1, <2>2, <2>3 DEF AwaitPending
<1>3. TypeOK' BY <1>1, <1>2 DEF TypeOK
<1>4. Placement' BY <1>1 DEF Placement
<1>5. Timed' BY <1>1, <1>2 DEF Timed, EndTime
<1>6. NeverBeyondTarget' /\ Reached' BY <1>1 DEF NeverBeyondTarget, Reached, qty
<1> QED BY <1>3, <1>4, <1>5, <1>6

-----------------------------------------------------------------------------
(* What happens while it waits *)

\* Where it is and what remains to be done is left alone.
Aside == UNCHANGED <<plan, slicer, awaits>>

\* An update of the counters leaves the position and the times alone.
LEMMA AsideKeeps ==
    ASSUME SliceInv, Aside,
           filled' \in Nat, resting' \in Nat, asked' \in Nat, resting' <= resting,
           excused' \in BOOLEAN, cap' \in Caps \cup {NoCap}
    PROVE  TypeOK' /\ Placement' /\ Timed'
<1> USE DEF SliceInv
<1>1. UNCHANGED <<cumQtyOfSlicers, remainTime, index, at, round, qty2make_remain,
                  qty2take_remain, duration_remain, clock, awaits>>
  BY DEF Aside, plan, slicer
<1>2. TypeOK' BY <1>1 DEF TypeOK
<1>3. Placement'
  <2>1. resting \in Nat BY DEF TypeOK
  <2> QED BY <1>1, <2>1 DEF Placement
<1>4. Timed' BY <1>1 DEF Timed, EndTime
<1> QED BY <1>2, <1>3, <1>4

\* A fill moves shares from pending to filled; answers and rejections only lower
\* the total, after the final order only with an excuse.
LEMMA OutsideKeeps ==
    ASSUME SliceInv, Outside
    PROVE  SliceInv'
<1> USE DEF SliceInv
<1>0. /\ resting \in Nat /\ asked \in Nat /\ filled \in Nat /\ qtyTarget \in Nat
      /\ filled + resting + asked <= qtyTarget
  BY SliceAssumption DEF TypeOK, NeverBeyondTarget, qty
<1>1. /\ resting \in Nat /\ asked \in Nat /\ filled \in Nat /\ qty \in Nat
      /\ excused \in BOOLEAN /\ cap \in Caps \cup {NoCap}
      /\ qtyTarget \in Nat /\ qty <= qtyTarget
  BY Numbers, SliceAssumption DEF TypeOK, NeverBeyondTarget
<1>2. CASE Fill
  <2>1. Aside /\ excused' = excused /\ cap' = cap /\ at' = at
    BY <1>2 DEF Fill, Aside, slicer
  <2>2. /\ filled' \in Nat /\ resting' \in Nat /\ asked' \in Nat
        /\ resting' <= resting /\ asked' <= asked
        /\ filled' + resting' + asked' = filled + resting + asked
    <3>1. CASE \E n \in Lots(resting) :
                 filled' = filled + n /\ resting' = resting - n /\ asked' = asked
      BY <1>1, <3>1, LotsFit
    <3>2. CASE \E n \in Lots(asked) :
                 filled' = filled + n /\ asked' = asked - n /\ resting' = resting
      BY <1>1, <3>2, LotsFit
    <3> QED BY <1>2, <3>1, <3>2 DEF Fill
  <2>3. qty' = qty BY <2>2 DEF qty
  <2>4. TypeOK' /\ Placement' /\ Timed' BY <1>1, <2>1, <2>2, AsideKeeps
  <2>5. NeverBeyondTarget' BY <2>3 DEF NeverBeyondTarget
  <2>6. Reached' BY <1>1, <2>1, <2>2, <2>3 DEF Reached
  <2> QED BY <2>4, <2>5, <2>6
<1>3. CASE Reject
  <2>1. Aside /\ filled' = filled /\ asked' = asked /\ cap' = cap /\ at' = at
    BY <1>3 DEF Reject, Aside, slicer
  <2>2. resting' \in Nat /\ resting' <= resting
    BY <1>1, <1>3, LotsFit DEF Reject
  <2>3. excused' = (excused \/ at \in {"pending", "done"}) /\ excused' \in BOOLEAN
    BY <1>3 DEF Reject
  <2>4. TypeOK' /\ Placement' /\ Timed' BY <1>1, <2>1, <2>2, <2>3, AsideKeeps
  <2>5. NeverBeyondTarget'
    <3>1. filled + resting' + asked <= qtyTarget BY <1>0, <2>2, SumLower
    <3> QED BY <2>1, <3>1 DEF NeverBeyondTarget, qty
  <2>6. Reached' BY <2>1, <2>3 DEF Reached
  <2> QED BY <2>4, <2>5, <2>6
<1>4. CASE Canceled
  <2>1. Aside /\ filled' = filled /\ resting' = resting /\ cap' = cap /\ at' = at
        /\ excused' = excused
    BY <1>4 DEF Canceled, Aside, slicer
  <2>2. asked' \in Nat /\ asked' < asked /\ asked' <= asked
    BY <1>1, <1>4, LotsFit DEF Canceled
  <2>3. TypeOK' /\ Placement' /\ Timed' BY <1>1, <2>1, <2>2, AsideKeeps
  <2>4. NeverBeyondTarget'
    <3>1. filled + resting + asked' <= qtyTarget BY <1>0, <2>2, SumLower
    <3> QED BY <2>1, <3>1 DEF NeverBeyondTarget, qty
  <2>5. Reached' BY <1>1, <2>1, <2>2 DEF Reached
  <2> QED BY <2>3, <2>4, <2>5
<1>5. CASE Volume
  <2>1. Aside /\ at' = at /\ excused' = excused
        /\ filled' = filled /\ resting' = resting /\ asked' = asked
    BY <1>5 DEF Volume, Aside, slicer, perf
  <2>2. cap' \in Caps \cup {NoCap} BY <1>5 DEF Volume
  <2>3. TypeOK' /\ Placement' /\ Timed' BY <1>1, <2>1, <2>2, AsideKeeps
  <2>4. NeverBeyondTarget' /\ Reached' BY <2>1 DEF NeverBeyondTarget, Reached, qty
  <2> QED BY <2>3, <2>4
<1> QED BY <1>2, <1>3, <1>4, <1>5 DEF Outside

-----------------------------------------------------------------------------
(* The theorems *)

\* Every step of an algo keeps the invariant.
LEMMA SliceStep == SliceInv /\ [Next]_vars => SliceInv'
<1> SUFFICES ASSUME SliceInv, [Next]_vars PROVE SliceInv'
  OBVIOUS
<1>1. CASE UNCHANGED vars
  <2>1. UNCHANGED <<cumQtyOfSlicers, remainTime, index, at, round, qty2make_remain,
                    qty2take_remain, duration_remain, clock, filled, resting, asked,
                    awaits, cap, excused>>
    BY <1>1 DEF vars, plan, slicer, perf
  <2> QED BY <2>1 DEF SliceInv, TypeOK, Placement, Timed, EndTime, NeverBeyondTarget, Reached, qty
<1>2. CASE Next
  BY <1>2, StartSliceKeeps, SliceRoundKeeps, PlanKeeps, CancelOutOfBestKeeps, LastRoundKeeps,
     CancelAllKeeps, FinalOrderKeeps, AwaitPendingKeeps, OutsideKeeps DEF Next
<1> QED BY <1>1, <1>2

\* The invariant holds of every run of schedual.
LEMMA SliceAlways == Spec => []SliceInv
<1> QED BY SliceInit, SliceStep, PTL DEF Spec

\* The variables of a slice keep their types: the divisions by round and by the
\* order size never meet a zero, and no time or quantity becomes negative.
THEOREM SliceTyped == Spec => []TypeOK
<1>1. SliceInv => TypeOK BY DEF SliceInv
<1> QED BY <1>1, SliceAlways, PTL

\* An algo never orders more than its target, whatever the plan, the market and the
\* answers of the book (placeOrder as slicePolicy and lastSlicePolicy call it).
THEOREM SliceStaysWithinTarget == Spec => []NeverBeyondTarget
<1>1. SliceInv => NeverBeyondTarget BY DEF SliceInv
<1> QED BY <1>1, SliceAlways, PTL

\* Every slice begins on time and the strategy ends with its last one (schedual).
THEOREM SliceOnSchedule == Spec => []OnSchedule
<1>1. SliceInv => OnSchedule
  <2> SUFFICES ASSUME SliceInv PROVE OnSchedule
    OBVIOUS
  <2> USE DEF SliceInv
  <2>1. clock \in Nat /\ duration_remain \in Nat /\ index \in Nat \ {0}
        /\ remainTime \in Nat /\ numOfSlicers \in Nat \ {0}
        /\ index <= numOfSlicers /\ Len(cumQtyOfSlicers) = numOfSlicers
    BY Numbers, SliceAssumption DEF TypeOK, Placement
  <2>2. PICK lastBegin \in Nat : lastBegin = (numOfSlicers - 1) * durationPerSlicer
    BY EndIsLast
  <2>3. EndTime = lastBegin + Most(remainTime, 10) /\ Most(remainTime, 10) \in Nat
    BY <2>1, <2>2, EndIsLast DEF Most
  <2>4. at = "slice" => clock <= lastBegin
    <3>1. index - 1 \in Nat /\ index - 1 < numOfSlicers BY <2>1
    <3>2. (index - 1) * durationPerSlicer <= lastBegin BY <2>2, <3>1, EndIsLast
    <3> QED BY <3>2 DEF Timed
  <2>5. at = "round" => clock <= lastBegin
    <3> SUFFICES ASSUME at = "round" PROVE clock <= lastBegin
      OBVIOUS
    <3>1. index < numOfSlicers BY DEF Placement
    <3>2. PICK due \in Nat : due = index * durationPerSlicer /\ due <= lastBegin
      BY <2>1, <2>2, <3>1, EndIsLast
    <3>3. clock + duration_remain = due BY <3>2 DEF Timed
    <3> QED BY <2>1, <2>2, <3>2, <3>3
  <2>6. clock <= EndTime + 161
    <3>1. at \in {"plan", "last", "final", "pending", "done"} => clock <= EndTime + 161
      BY <2>1, <2>2, <2>3 DEF Timed
    <3>2. at \in {"slice", "round"} => clock <= EndTime + 161
      BY <2>1, <2>2, <2>3, <2>4, <2>5
    <3> QED BY <3>1, <3>2 DEF TypeOK
  <2>7. clock <= (Len(cumQtyOfSlicers) - 1) * durationPerSlicer + Most(remainTime, 10)
                   + 31 + 30 + 100
    <3>1. clock <= lastBegin + Most(remainTime, 10) + 31 + 30 + 100 BY <2>1, <2>2, <2>3, <2>6
    <3> QED BY <2>1, <2>2, <3>1
  <2>8. at = "slice" => clock = (index - 1) * durationPerSlicer BY DEF Timed
  <2> QED BY <2>7, <2>8 DEF OnSchedule
<1> QED BY <1>1, SliceAlways, PTL

\* A strategy that nothing hinders ends with its target ordered (lastSlicePolicy).
THEOREM SliceEndsOnTarget == Spec => []EndsOnTarget
<1>1. SliceInv => EndsOnTarget BY DEF SliceInv, Reached, EndsOnTarget
<1> QED BY <1>1, SliceAlways, PTL

=============================================================================
