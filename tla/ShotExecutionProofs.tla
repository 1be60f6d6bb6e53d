------------------------- MODULE ShotExecutionProofs -------------------------
(***************************************************************************)
(* The end of the intraday strategy, for every window, set of prices,      *)
(* number of fusion orders, sub-orders and workers: alone it leaves no     *)
(* AlgoTrader behind that still trades, the parent of a parallel backtest  *)
(* stops after the last of its sub-tasks, and a final report of a fusion   *)
(* order is the last one.                                                  *)
(***************************************************************************)
EXTENDS ShotExecution, FiniteSetTheorems, SequenceTheorems, WellFoundedInduction, TLAPS

AlgoStates == {"Running", "Expired", "Finished", "Error"}

\* A fusion order in every state it can be in: its trader reports while it runs.
Fusions == {Fusion(a, f, a = "Running") : a \in AlgoStates, f \in 0..OrderQty}

Watches == [queue : Seq(Quotes), low : Quotes \cup {NoMd}, high : Quotes \cup {NoMd}]

-----------------------------------------------------------------------------
(* The inductive invariant *)

Typed ==
    /\ parallel \in BOOLEAN
    /\ algoStatus \in {"Creating", "Running", "Canceling"} \cup FinalStatuses
    /\ signalCount \in Nat /\ clock \in 0..MaxTicks
    /\ watch \in Watches /\ Len(watch.queue) <= WindowSize
    /\ signals \in Seq(BOOLEAN) /\ orders \in Seq(Fusions)
    /\ orderId2algoContext \subseteq DOMAIN orders
    /\ subAlgoOrders \in Seq(Parts)
    /\ subTraders \subseteq Parts /\ merged \subseteq subSignals /\ subSignals \subseteq Parts
    /\ sub \in [Parts -> SubStates]

\* An AlgoTrader that runs is in the placer's map, which the strategy waits for.
RunningKnown == \A k \in DOMAIN orders : orders[k].algo = "Running" => k \in orderId2algoContext

\* The parent of a parallel backtest places no order, and so is stopped at once.
ParentTradesNothing == parallel => orders = <<>> /\ algoStatus # "Canceling"

\* Before the start there is no sub-task.
NoneStarted ==
    algoStatus = "Creating" =>
        /\ subTraders = {} /\ subAlgoOrders = <<>>
        /\ \A i \in Parts : sub[i] = "waiting"

\* The list holds the sub-orders that wait, from the first to the last, and the
\* parent has a sub-trader of each one that is neither there nor done.
EachSubInItsPlace ==
    (parallel /\ algoStatus \in {"Running", "Finished"}) =>
        /\ \A i \in DOMAIN subAlgoOrders : subAlgoOrders[i] = i
        /\ \A i \in Parts : sub[i] = "waiting" <=> i <= Len(subAlgoOrders)
        /\ subTraders = {i \in Parts : sub[i] \notin {"waiting", "merged"}}

\* The parent has taken over the signal of each sub-trader it has let go.
SignalsTaken == \A i \in Parts : sub[i] = "merged" => (i \in subSignals => i \in merged)

Alone == Typed /\ RunningKnown /\ UserStopIsComplete
Parent ==
    /\ ParentTradesNothing /\ NoneStarted /\ EachSubInItsPlace
    /\ SignalsTaken /\ SummarisedAfterAll

ShotInv == Alone /\ Parent

-----------------------------------------------------------------------------
(* The window *)

LEMMA Appended ==
    ASSUME NEW S, NEW s \in Seq(S), NEW e \in S
    PROVE  /\ Append(s, e) \in Seq(S) /\ Len(s) \in Nat
           /\ DOMAIN s = 1..Len(s) /\ DOMAIN Append(s, e) = 1..(Len(s) + 1)
           /\ \A i \in 1..Len(s) : Append(s, e)[i] = s[i]
           /\ Append(s, e)[Len(s) + 1] = e
  BY AppendProperties, LenProperties

\* A window of some quotes has a first one of the highest: the one with the fewest
\* better ones has none.
LEMMA HighestExists ==
    ASSUME NEW queue \in Seq(Quotes), queue # <<>>
    PROVE  \E i \in DOMAIN queue :
             /\ \A k \in DOMAIN queue : queue[k].price <= queue[i].price
             /\ \A k \in 1..(i - 1) : queue[k].price < queue[i].price
  <1> DEFINE D == DOMAIN queue
             Beats(k, i) == \/ queue[k].price > queue[i].price
                            \/ queue[k].price = queue[i].price /\ k < i
             Better(i) == {k \in D : Beats(k, i)}
             B == {Better(i) : i \in D}
  <1>1. Len(queue) \in Nat \ {0} /\ D = 1..Len(queue) BY EmptySeq, LenProperties
  <1>2. \A i \in D : queue[i].price \in Nat
    <2>1. \A i \in D : queue[i] \in Quotes BY LenProperties
    <2>2. Prices \subseteq Nat BY ShotAssumption
    <2> QED BY <2>1, <2>2 DEF Quotes
  <1>3. IsFiniteSet(D) BY <1>1, FS_Interval
  <1>4. B \subseteq FiniteSubsetsOf(D)
    <2> SUFFICES ASSUME NEW i \in D PROVE Better(i) \in FiniteSubsetsOf(D) OBVIOUS
    <2>1. Better(i) \subseteq D OBVIOUS
    <2> HIDE DEF Better
    <2>2. IsFiniteSet(Better(i)) BY <1>3, <2>1, FS_Subset
    <2> QED BY <2>1, <2>2 DEF FiniteSubsetsOf
  <1>5. B # {}
    <2>1. 1 \in D BY <1>1
    <2>2. Better(1) \in B BY <2>1
    <2> HIDE DEF B
    <2> QED BY <2>2
  <1>6. PICK T \in B : \A U \in B : <<U, T>> \notin StrictSubsetOrdering(D)
    <2> HIDE DEF B, D
    <2> QED BY <1>4, <1>5, FS_StrictSubsetOrderingWellFounded, WFMin
  <1>7. PICK i \in D : T = Better(i) OBVIOUS
  <1>8. ASSUME NEW j \in D, Beats(j, i) PROVE FALSE
    <2>1. \A k \in D : Beats(k, j) => Beats(k, i) BY <1>1, <1>2, <1>8
    <2>2. ~Beats(j, j) BY <1>1, <1>2
    <2>3. Better(j) \subseteq Better(i) /\ j \in Better(i) /\ j \notin Better(j)
      BY <1>8, <2>1, <2>2
    <2>4. Better(j) \in B /\ Better(i) \subseteq D OBVIOUS
    <2> HIDE DEF Better, B, D
    <2>5. <<Better(j), Better(i)>> \in StrictSubsetOrdering(D)
      BY <2>3, <2>4 DEF StrictSubsetOrdering
    <2> QED BY <1>6, <1>7, <2>4, <2>5
  <1>9. \A k \in D : queue[k].price <= queue[i].price BY <1>2, <1>8
  <1>10. \A k \in 1..(i - 1) : queue[k].price < queue[i].price
    <2> SUFFICES ASSUME NEW k \in 1..(i - 1) PROVE queue[k].price < queue[i].price
      OBVIOUS
    <2>1. k \in D /\ k < i BY <1>1
    <2> QED BY <1>2, <1>8, <2>1
  <1> QED BY <1>9, <1>10

LEMMA ResetLowType ==
    ASSUME NEW queue \in Seq(Quotes), queue # <<>>
    PROVE  ResetLow(queue) \in Quotes
  <1> DEFINE Best(i) == /\ \A k \in DOMAIN queue : queue[k].price <= queue[i].price
                        /\ \A k \in 1..(i - 1) : queue[k].price < queue[i].price
             best == CHOOSE i \in DOMAIN queue : Best(i)
  <1>1. \E i \in DOMAIN queue : Best(i) BY HighestExists
  <1>2. best \in DOMAIN queue
    <2> HIDE DEF Best
    <2> QED BY <1>1
  <1>3. \A i \in DOMAIN queue : queue[i] \in Quotes BY LenProperties
  <1>4. ResetLow(queue) = queue[best] BY DEF ResetLow
  <1> HIDE DEF best
  <1> QED BY <1>2, <1>3, <1>4

\* The window moves by one quote, and what triggerShotMinMax remembers is in it or
\* was.
LEMMA ShiftedType ==
    ASSUME NEW queue \in Seq(Quotes), Len(queue) <= WindowSize, NEW md \in Quotes
    PROVE  /\ Shifted(queue, md) \in Seq(Quotes) /\ Len(Shifted(queue, md)) <= WindowSize
           /\ Shifted(queue, md) # <<>>
  <1> DEFINE longer == Append(queue, md)
  <1>1. /\ longer \in Seq(Quotes) /\ longer # <<>> /\ Len(longer) = Len(queue) + 1
        /\ Len(queue) \in Nat
    BY AppendProperties, LenProperties
  <1>2. Tail(longer) \in Seq(Quotes) /\ Len(Tail(longer)) = Len(longer) - 1
    <2> HIDE DEF longer
    <2> QED BY <1>1, HeadTailProperties
  <1>3. WindowSize \in Nat \ {0} BY ShotAssumption
  <1>4. Len(longer) > WindowSize => Tail(longer) # <<>>
    <2> HIDE DEF longer
    <2>1. Len(longer) > WindowSize => Len(Tail(longer)) # 0 BY <1>1, <1>2, <1>3
    <2> QED BY <2>1
  <1>5. Shifted(queue, md) = IF Len(longer) > WindowSize THEN Tail(longer) ELSE longer
    BY DEF Shifted
  <1> HIDE DEF longer
  <1> QED BY <1>1, <1>2, <1>3, <1>4, <1>5

LEMMA TriggerType ==
    ASSUME NEW w \in Watches, w.queue # <<>>, NEW md \in Quotes
    PROVE  LET shot == TriggerShotMinMax(w, md)
           IN  shot.watch \in Watches /\ shot.watch.queue = w.queue
  <1>1. w.queue \in Seq(Quotes) /\ w.low \in Quotes \cup {NoMd} /\ w.high \in Quotes \cup {NoMd}
    BY DEF Watches
  <1>2. KeptLow(w) \in Quotes BY <1>1, ResetLowType DEF KeptLow
  <1>3. LowAfter(w, md) \in Quotes BY <1>2 DEF LowAfter
  <1>4. HighAfter(w, md) \in Quotes \cup {NoMd} BY <1>1 DEF HighAfter
  <1> DEFINE shot == TriggerShotMinMax(w, md)
  <1>5. /\ shot.watch.queue = w.queue
        /\ shot.watch.low \in Quotes \cup {NoMd} /\ shot.watch.high \in Quotes \cup {NoMd}
        /\ shot.watch = [queue |-> shot.watch.queue, low |-> shot.watch.low,
                         high |-> shot.watch.high]
    BY <1>3, <1>4, Zenon DEF TriggerShotMinMax
  <1> HIDE DEF shot
  <1> QED BY <1>1, <1>5 DEF Watches, shot

-----------------------------------------------------------------------------
(* The parts of a step *)

LEMMA CountedType ==
    ASSUME Typed, NEW sigs, NEW found \in SUBSET Parts
    PROVE  Counted(sigs, found) \in Nat
  <1>1. NumParts \in Nat BY ShotAssumption
  <1>2. IsFiniteSet(Parts) BY <1>1, FS_Interval DEF Parts
  <1>3. Cardinality(found) \in Nat BY <1>2, FS_Subset, FS_CardinalityType
  <1> QED BY <1>3 DEF Counted

\* A fusion order's status follows its trader, which reports only while it runs.
LEMMA FusionFacts ==
    ASSUME NEW o \in Fusions
    PROVE  /\ o.algo \in AlgoStates /\ o.filled \in 0..OrderQty
           /\ o.callback <=> o.algo = "Running"
           /\ o.status = "NEW" <=> o.algo = "Running"
           /\ o = Fusion(o.algo, o.filled, o.algo = "Running")
  <1>1. PICK a \in AlgoStates, f \in 0..OrderQty : o = Fusion(a, f, a = "Running")
    BY DEF Fusions
  <1>2. o.algo = a /\ o.filled = f /\ o.callback = (a = "Running")
        /\ o.status = FusionStatus(a, f)
    BY <1>1 DEF Fusion
  <1>3. FusionStatus(a, f) = "NEW" <=> a = "Running"
    BY DEF FusionStatus, AlgoStates
  <1> QED BY <1>1, <1>2, <1>3

\* A trader, or a parent, that stops has a summary.
LEMMA Stopping ==
    ASSUME ShotInv, NEW status \in FinalStatuses, Stop(status, merged),
           UNCHANGED <<parallel, clock, signals, orders, orderId2algoContext, subVars>>,
           status = "Terminated" => NonePending, parallel => status # "Finished"
    PROVE  ShotInv'
  <1> USE DEF ShotInv
  <1>1. merged \in SUBSET Parts BY DEF Alone, Typed
  <1>2. Counted(signals, merged) \in Nat BY <1>1, CountedType DEF Alone
  <1>3. EmptyWatch \in Watches /\ Len(EmptyWatch.queue) <= WindowSize
    BY ShotAssumption DEF EmptyWatch, Watches
  <1>4. Typed' BY <1>2, <1>3 DEF Alone, Typed, Stop, subVars
  <1>5. RunningKnown' BY DEF Alone, RunningKnown
  <1>6. UserStopIsComplete'
    BY DEF Alone, RunningKnown, NonePending, UserStopIsComplete, Stop, Counted, subVars
  <1>7. Parent'
    BY DEF Parent, ParentTradesNothing, NoneStarted, EachSubInItsPlace, SignalsTaken,
           SummarisedAfterAll, Stop, subVars, FinalStatuses
  <1> QED BY <1>4, <1>5, <1>6, <1>7 DEF Alone

\* What happens to a trader alone, and does not stop it, leaves the parent as it is.
LEMMA ParentUndisturbed ==
    ASSUME Parent, UNCHANGED <<parallel, algoStatus, signalCount, subVars>>,
           parallel => UNCHANGED orders
    PROVE  Parent'
  BY DEF Parent, ParentTradesNothing, NoneStarted, EachSubInItsPlace, SignalsTaken,
         SummarisedAfterAll, subVars

\* A sub-trader's own steps leave the trader alone as it is.
LEMMA AloneUndisturbed ==
    ASSUME Alone, UNCHANGED <<parallel, algoStatus, signalCount, aloneVars>>,
           subAlgoOrders' \in Seq(Parts), subTraders' \subseteq Parts,
           merged' \subseteq subSignals', subSignals' \subseteq Parts, sub' \in [Parts -> SubStates]
    PROVE  Alone'
  <1>1. Typed' BY DEF Alone, Typed, aloneVars
  <1>2. RunningKnown' BY DEF Alone, RunningKnown, aloneVars
  <1>3. UserStopIsComplete' BY DEF Alone, UserStopIsComplete, Counted, aloneVars
  <1> QED BY <1>1, <1>2, <1>3 DEF Alone

-----------------------------------------------------------------------------
(* The trader alone *)

LEMMA CancelKeeps ==
    ASSUME ShotInv, Cancel
    PROVE  ShotInv'
  <1>1. CASE orderId2algoContext = {}
    <2>1. Stop("Terminated", merged)
          /\ UNCHANGED <<parallel, clock, signals, orders, orderId2algoContext, subVars>>
      BY <1>1 DEF Cancel
    <2> QED BY <1>1, <2>1, Stopping DEF NonePending, FinalStatuses
  <1>2. CASE orderId2algoContext # {}
    <2>1. algoStatus' = "Canceling" /\ UNCHANGED <<signalCount, watch>>
          /\ UNCHANGED <<parallel, clock, signals, orders, orderId2algoContext, subVars>>
      BY <1>2 DEF Cancel
    <2>2. ~parallel BY <1>2 DEF ShotInv, Alone, Typed, Parent, ParentTradesNothing
    <2>3. Alone'
      BY <2>1 DEF ShotInv, Alone, Typed, RunningKnown, UserStopIsComplete, subVars
    <2>4. Parent'
      BY <2>1, <2>2 DEF ShotInv, Parent, ParentTradesNothing, NoneStarted, EachSubInItsPlace,
                        SignalsTaken, SummarisedAfterAll, subVars
    <2> QED BY <2>3, <2>4 DEF ShotInv
  <1> QED BY <1>1, <1>2

LEMMA StopsKeep ==
    ASSUME ShotInv, ShotLoop \/ StartRefused \/ QuoteAfterEnd
    PROVE  ShotInv'
  <1>1. CASE ShotLoop BY <1>1, Stopping DEF ShotLoop, FinalStatuses
  <1>2. CASE StartRefused BY <1>2, Stopping DEF StartRefused, FinalStatuses
  <1>3. CASE QuoteAfterEnd BY <1>3, Stopping DEF QuoteAfterEnd, FinalStatuses
  <1> QED BY <1>1, <1>2, <1>3

LEMMA StartAloneKeeps ==
    ASSUME ShotInv, StartAlone
    PROVE  ShotInv'
  <1> USE DEF ShotInv
  <1>1. Alone'
    BY DEF StartAlone, Alone, Typed, RunningKnown, UserStopIsComplete, aloneVars, subVars
  <1>2. Parent'
    BY DEF StartAlone, Parent, ParentTradesNothing, NoneStarted, EachSubInItsPlace,
           SignalsTaken, SummarisedAfterAll, aloneVars, subVars
  <1> QED BY <1>1, <1>2

\* A quote may place an order: it is in the map before its trader runs.
LEMMA QuoteKeeps ==
    ASSUME ShotInv, NEW p \in Prices, OnMarketDepth(p)
    PROVE  ShotInv'
  <1> DEFINE md == [time |-> clock + 1, price |-> p]
             appended == [watch EXCEPT !.queue = Shifted(@, md)]
             acts == /\ clock + 1 >= StartTime
                     /\ IsReady(appended) /\ algoStatus = "Running"
             shot == TriggerShotMinMax(appended, md)
             Signal == acts /\ shot.signal
  <1>1. /\ ~parallel /\ algoStatus \in {"Running", "Canceling"} /\ clock < MaxTicks
        /\ clock' = clock + 1 /\ UNCHANGED <<parallel, algoStatus, subVars>>
        /\ signalCount' = IF clock + 1 >= StartTime THEN Counted(signals', merged) ELSE signalCount
    BY DEF OnMarketDepth
  <1>2. IF Signal
        THEN \E o \in Placed :
               /\ watch' = shot.watch
               /\ signals' = Append(signals, FALSE)
               /\ orders' = Append(orders, o)
               /\ orderId2algoContext' = orderId2algoContext \cup {Len(orders) + 1}
        ELSE /\ watch' = IF acts THEN shot.watch ELSE appended
             /\ UNCHANGED <<signals, orders, orderId2algoContext>>
    BY Zenon DEF OnMarketDepth
  <1>3. Typed /\ RunningKnown /\ Parent BY DEF ShotInv, Alone
  <1>4. MaxTicks \in Nat /\ clock \in 0..MaxTicks BY <1>3, ShotAssumption DEF Typed
  <1>5. md \in Quotes BY <1>1, <1>4 DEF Quotes
  <1>6. /\ appended \in Watches /\ appended.queue # <<>>
        /\ Len(appended.queue) <= WindowSize
    <2> HIDE DEF md
    <2>1. watch \in Watches /\ watch.queue \in Seq(Quotes) /\ Len(watch.queue) <= WindowSize
      BY <1>3 DEF Typed, Watches
    <2>2. /\ Shifted(watch.queue, md) \in Seq(Quotes) /\ Shifted(watch.queue, md) # <<>>
          /\ Len(Shifted(watch.queue, md)) <= WindowSize
      BY <1>5, <2>1, ShiftedType
    <2> QED BY <2>1, <2>2 DEF Watches
  <1>7. shot.watch \in Watches /\ shot.watch.queue = appended.queue
    <2> HIDE DEF md, appended
    <2> QED BY <1>5, <1>6, TriggerType
  <1>8. watch' \in Watches /\ Len(watch'.queue) <= WindowSize
    <2> HIDE DEF md, appended, shot, acts
    <2> QED BY <1>2, <1>6, <1>7
  <1>9. /\ signals' \in Seq(BOOLEAN) /\ orders' \in Seq(Fusions)
        /\ orderId2algoContext' \subseteq DOMAIN orders' /\ RunningKnown'
    <2> HIDE DEF Signal
    <2>1. /\ signals \in Seq(BOOLEAN) /\ orders \in Seq(Fusions)
          /\ orderId2algoContext \subseteq DOMAIN orders
      BY <1>3 DEF Typed
    <2>2. CASE ~Signal
      <3>1. UNCHANGED <<signals, orders, orderId2algoContext>> BY <1>2, <2>2
      <3> QED BY <1>3, <2>1, <3>1 DEF RunningKnown
    <2>3. CASE Signal
      <3>1. PICK o \in Placed :
              /\ signals' = Append(signals, FALSE) /\ orders' = Append(orders, o)
              /\ orderId2algoContext' = orderId2algoContext \cup {Len(orders) + 1}
        BY <1>2, <2>3
      <3>2. o \in Fusions
        <4>1. 0 \in 0..OrderQty BY ShotAssumption
        <4>2. \A a \in AlgoStates : Fusion(a, 0, a = "Running") \in Fusions
          BY <4>1 DEF Fusions
        <4>3. Fusion("Running", 0, TRUE) \in Fusions
          <5>1. TRUE = ("Running" = "Running") OBVIOUS
          <5> QED BY <4>2, <5>1, Zenon DEF AlgoStates
        <4>4. Fusion("Error", 0, FALSE) \in Fusions
          <5>1. FALSE = ("Error" = "Running") OBVIOUS
          <5> QED BY <4>2, <5>1, Zenon DEF AlgoStates
        <4> QED BY <4>3, <4>4 DEF Placed
      <3>3. /\ orders' \in Seq(Fusions) /\ Len(orders) \in Nat
            /\ DOMAIN orders = 1..Len(orders) /\ DOMAIN orders' = 1..(Len(orders) + 1)
            /\ \A k \in 1..Len(orders) : orders'[k] = orders[k]
        BY <2>1, <3>1, <3>2, Appended
      <3>4. signals' \in Seq(BOOLEAN) BY <2>1, <3>1, AppendProperties
      <3>5. orderId2algoContext' \subseteq DOMAIN orders' BY <2>1, <3>1, <3>3
      <3>6. RunningKnown'
        <4> SUFFICES ASSUME NEW k \in DOMAIN orders', orders'[k].algo = "Running"
                     PROVE  k \in orderId2algoContext'
          BY DEF RunningKnown
        <4>1. CASE k = Len(orders) + 1 BY <3>1, <4>1
        <4>2. CASE k \in 1..Len(orders) BY <1>3, <3>1, <3>3, <4>2 DEF RunningKnown
        <4> QED BY <3>3, <4>1, <4>2
      <3> QED BY <3>3, <3>4, <3>5, <3>6
    <2> QED BY <2>2, <2>3
  <1>10. signalCount' \in Nat
    <2>1. merged \in SUBSET Parts /\ signalCount \in Nat BY <1>3 DEF Typed
    <2> QED BY <1>1, <1>3, <2>1, CountedType
  <1>11. Typed'
    <2>1. clock' \in 0..MaxTicks BY <1>1, <1>4
    <2> HIDE DEF md, appended, shot, acts, Signal
    <2> QED BY <1>1, <1>3, <1>8, <1>9, <1>10, <2>1 DEF Typed, subVars
  <1>12. UserStopIsComplete' BY <1>1 DEF UserStopIsComplete
  <1>13. Parent'
    BY <1>1, <1>3 DEF Parent, ParentTradesNothing, NoneStarted, EachSubInItsPlace,
                      SignalsTaken, SummarisedAfterAll, subVars
  <1> QED BY <1>9, <1>11, <1>12, <1>13 DEF ShotInv, Alone

\* A report changes one order, and whether its signal was bought.  The trader it is
\* for is one that ran.
LEMMA ReportKeeps ==
    ASSUME ShotInv, NEW k \in DOMAIN orders, NEW o \in Fusions, Report(k, o),
           orders[k].algo = "Running",
           UNCHANGED <<parallel, algoStatus, signalCount, clock, watch,
                       orderId2algoContext, subVars>>
    PROVE  ShotInv'
  <1>1. Typed /\ RunningKnown /\ UserStopIsComplete /\ Parent BY DEF ShotInv, Alone
  <1>2. orders \in Seq(Fusions) /\ signals \in Seq(BOOLEAN) BY <1>1 DEF Typed
  <1>3. orders' = [orders EXCEPT ![k] = o] /\ signals' = [signals EXCEPT ![k] = o.filled > 0]
    BY DEF Report
  <1>4. orders' \in Seq(Fusions) /\ DOMAIN orders' = DOMAIN orders
    BY <1>2, <1>3, ExceptSeq
  <1>5. signals' \in Seq(BOOLEAN)
    <2> DEFINE bought == o.filled > 0
    <2>1. bought \in BOOLEAN
      <3>1. o.filled \in 0..OrderQty BY FusionFacts
      <3> QED BY <3>1
    <2>2. signals' = [signals EXCEPT ![k] = bought] BY <1>3
    <2> HIDE DEF bought
    <2>3. k \in DOMAIN signals => signals' \in Seq(BOOLEAN)
      BY <1>2, <2>1, <2>2, ExceptSeq
    <2>4. k \notin DOMAIN signals => signals' = signals
      BY <1>2, <2>2, SeqDef
    <2> QED BY <1>2, <2>3, <2>4
  <1>6. Typed' BY <1>1, <1>4, <1>5 DEF Typed, subVars
  <1>7. RunningKnown' BY <1>1, <1>3, <1>4 DEF RunningKnown
  <1>8. UserStopIsComplete' BY <1>1 DEF UserStopIsComplete
  <1>9. ~parallel BY <1>1, EmptySeq DEF Parent, ParentTradesNothing
  <1>10. Parent' BY <1>1, <1>9, ParentUndisturbed
  <1> QED BY <1>6, <1>7, <1>8, <1>10 DEF ShotInv, Alone

LEMMA ExecutionKeeps ==
    ASSUME ShotInv, NEW k \in DOMAIN orders,
           AlgoUpdate(k) \/ AlgoStop(k) \/ AlgoInstanceFinished(k)
    PROVE  ShotInv'
  <1> DEFINE o == orders[k]
  <1>1. Typed /\ RunningKnown /\ UserStopIsComplete /\ Parent BY DEF ShotInv, Alone
  <1>2. o \in Fusions BY <1>1, LenProperties DEF Typed
  <1>3. OrderQty \in Nat \ {0} /\ o.filled \in 0..OrderQty /\ o.algo \in AlgoStates
        /\ (o.callback <=> o.algo = "Running")
    <2> HIDE DEF o
    <2> QED BY <1>2, FusionFacts, ShotAssumption
  <1>4. CASE AlgoUpdate(k)
    <2>1. /\ o.filled < OrderQty /\ o.callback
          /\ Report(k, Fusion(o.algo, o.filled + 1, TRUE))
          /\ UNCHANGED <<parallel, algoStatus, signalCount, clock, watch,
                         orderId2algoContext, subVars>>
      BY <1>4 DEF AlgoUpdate
    <2>2. o.algo = "Running" /\ o.filled + 1 \in 0..OrderQty BY <1>3, <2>1
    <2>3. Fusion(o.algo, o.filled + 1, TRUE) \in Fusions
      <3> HIDE DEF o
      <3>1. Fusion(o.algo, o.filled + 1, o.algo = "Running") \in Fusions
        BY <1>3, <2>2 DEF Fusions
      <3>2. TRUE = (o.algo = "Running") BY <2>2
      <3> QED BY <3>1, <3>2, Zenon
    <2> QED BY <2>1, <2>2, <2>3, ReportKeeps
  <1>5. CASE AlgoStop(k)
    <2>1. /\ o.algo = "Running" /\ Report(k, Ended(o.filled))
          /\ UNCHANGED <<parallel, algoStatus, signalCount, clock, watch,
                         orderId2algoContext, subVars>>
      BY <1>5 DEF AlgoStop
    <2>2. Ended(o.filled) \in Fusions
      <3> HIDE DEF o
      <3> DEFINE end == IF o.filled >= OrderQty THEN "Finished" ELSE "Expired"
      <3>1. end \in AlgoStates /\ end # "Running" BY DEF AlgoStates
      <3>2. Ended(o.filled) = Fusion(end, o.filled, FALSE) BY DEF Ended
      <3> HIDE DEF end
      <3>3. Fusion(end, o.filled, end = "Running") \in Fusions BY <1>3, <3>1 DEF Fusions
      <3>4. FALSE = (end = "Running") BY <3>1
      <3> QED BY <3>2, <3>3, <3>4, Zenon
    <2> QED BY <2>1, <2>2, ReportKeeps
  <1>6. CASE AlgoInstanceFinished(k)
    <2>1. /\ o.algo # "Running" /\ orderId2algoContext' = orderId2algoContext \ {k}
          /\ UNCHANGED <<parallel, algoStatus, signalCount, clock, watch, signals, orders, subVars>>
      BY <1>6 DEF AlgoInstanceFinished, Erased
    <2>2. Typed' BY <1>1, <2>1 DEF Typed, subVars
    <2>3. RunningKnown' BY <1>1, <2>1 DEF RunningKnown
    <2>4. UserStopIsComplete' BY <1>1, <2>1 DEF UserStopIsComplete, Counted, subVars
    <2>5. Parent' BY <1>1, <2>1, ParentUndisturbed
    <2> QED BY <2>2, <2>3, <2>4, <2>5 DEF ShotInv, Alone
  <1> QED BY <1>4, <1>5, <1>6

-----------------------------------------------------------------------------
(* The parent and its sub-traders *)

LEMMA StartParallelKeeps ==
    ASSUME ShotInv, StartParallel
    PROVE  ShotInv'
  <1> DEFINE rest == NumParts - Some(NumParts)
  <1>1. Alone /\ Typed /\ Parent BY DEF ShotInv, Alone
  <1>2. NumParts \in Nat \ {0} /\ rest \in Nat /\ rest <= NumParts
    BY ShotAssumption DEF Some
  <1>3. /\ parallel /\ algoStatus = "Creating" /\ algoStatus' = "Running"
        /\ subAlgoOrders' = [i \in 1..rest |-> i] /\ subTraders' = (rest + 1)..NumParts
        /\ sub' = [i \in Parts |-> IF i > rest THEN "spawned" ELSE sub[i]]
        /\ UNCHANGED <<parallel, signalCount, aloneVars, subSignals, merged>>
    BY DEF StartParallel
  <1>4. \A i \in Parts : sub[i] = "waiting"
    BY <1>1, <1>3 DEF Parent, NoneStarted
  <1> HIDE DEF rest
  <1>5. Len(subAlgoOrders') = rest /\ subAlgoOrders' \in Seq(Parts)
    BY <1>2, <1>3 DEF Parts
  <1>6. subTraders' \subseteq Parts BY <1>2, <1>3 DEF Parts
  <1>7. sub' \in [Parts -> SubStates] BY <1>3, <1>4 DEF SubStates
  <1>8. Typed' BY <1>1, <1>3, <1>5, <1>6, <1>7 DEF Typed, aloneVars
  <1>9. RunningKnown' /\ UserStopIsComplete'
    BY <1>1, <1>3 DEF Alone, RunningKnown, UserStopIsComplete, aloneVars
  <1>10. EachSubInItsPlace'
    <2>1. \A i \in DOMAIN subAlgoOrders' : subAlgoOrders'[i] = i BY <1>3
    <2>2. \A i \in Parts : sub'[i] = "waiting" <=> i <= Len(subAlgoOrders')
      BY <1>2, <1>3, <1>4, <1>5 DEF Parts
    <2>3. subTraders' = {i \in Parts : sub'[i] \notin {"waiting", "merged"}}
      BY <1>2, <1>3, <1>4 DEF Parts
    <2> QED BY <2>1, <2>2, <2>3 DEF EachSubInItsPlace
  <1>11. SignalsTaken' BY <1>3, <1>4 DEF SignalsTaken
  <1>12. Parent'
    BY <1>1, <1>3, <1>10, <1>11
       DEF Parent, ParentTradesNothing, NoneStarted, SummarisedAfterAll, aloneVars
  <1> QED BY <1>8, <1>9, <1>12 DEF ShotInv, Alone

\* A sub-trader moves on while the parent keeps it.
LEMMA SubMovesKeep ==
    ASSUME ShotInv, NEW i \in Parts, NEW from, NEW to,
           from \in {"spawned", "running", "stopped"}, to \in {"running", "stopped", "completed"},
           SubMoves(i, from, to),
           UNCHANGED <<parallel, algoStatus, signalCount, aloneVars, subAlgoOrders, subTraders,
                       subSignals, merged>>
    PROVE  ShotInv'
  <1>1. Alone /\ Typed /\ Parent BY DEF ShotInv, Alone
  <1>2. sub[i] = from /\ sub' = [sub EXCEPT ![i] = to] BY DEF SubMoves
  <1>3. sub' \in [Parts -> SubStates] BY <1>1, <1>2 DEF Typed, SubStates
  <1>4. Alone' BY <1>1, <1>3, AloneUndisturbed DEF Typed
  <1>5. algoStatus # "Creating" /\ (parallel => algoStatus # "Finished")
    BY <1>1, <1>2 DEF Parent, NoneStarted, SummarisedAfterAll
  <1>6. EachSubInItsPlace'
    BY <1>1, <1>2 DEF Typed, Parent, EachSubInItsPlace
  <1>7. SignalsTaken' BY <1>1, <1>2 DEF Typed, Parent, SignalsTaken
  <1>8. Parent'
    BY <1>1, <1>5, <1>6, <1>7
       DEF Parent, ParentTradesNothing, NoneStarted, SummarisedAfterAll, aloneVars
  <1> QED BY <1>4, <1>8 DEF ShotInv

LEMMA SubOwnKeeps ==
    ASSUME ShotInv, NEW i \in Parts, SubStart(i) \/ SubQuotesEnd(i) \/ SubLoop(i)
    PROVE  ShotInv'
  <1>1. CASE SubStart(i) BY <1>1, SubMovesKeep DEF SubStart
  <1>2. CASE SubQuotesEnd(i) BY <1>2, SubMovesKeep DEF SubQuotesEnd
  <1>3. CASE SubLoop(i) BY <1>3, SubMovesKeep DEF SubLoop
  <1> QED BY <1>1, <1>2, <1>3

LEMMA SubSignalKeeps ==
    ASSUME ShotInv, NEW i \in Parts, SubSignal(i)
    PROVE  ShotInv'
  <1>1. Alone /\ Typed /\ Parent BY DEF ShotInv, Alone
  <1>2. /\ sub[i] = "running" /\ subSignals' = subSignals \cup {i}
        /\ UNCHANGED <<parallel, algoStatus, signalCount, aloneVars, subAlgoOrders, subTraders,
                       sub, merged>>
    BY DEF SubSignal
  <1>3. Alone' BY <1>1, <1>2, AloneUndisturbed DEF Typed
  <1>4. parallel => algoStatus # "Finished"
    BY <1>1, <1>2 DEF Parent, SummarisedAfterAll
  <1>5. SignalsTaken' BY <1>1, <1>2 DEF Parent, SignalsTaken
  <1>6. Parent'
    BY <1>1, <1>2, <1>4, <1>5
       DEF Parent, ParentTradesNothing, NoneStarted, EachSubInItsPlace, SummarisedAfterAll,
           aloneVars
  <1> QED BY <1>3, <1>6 DEF ShotInv

\* The completion of a sub-trader: its signal is taken over, the last sub-order of
\* the list takes its place, and only without one the parent may be done.
LEMMA SubTaskBackTestDoneKeeps ==
    ASSUME ShotInv, NEW i \in Parts, SubTaskBackTestDone(i)
    PROVE  ShotInv'
  <1> DEFINE n == Len(subAlgoOrders)
             Stops == AllDone(subTraders', subAlgoOrders') /\ ~IsStopped
  <1>1. Alone /\ Typed /\ Parent BY DEF ShotInv, Alone
  <1>2. /\ sub[i] = "completed"
        /\ merged' = IF i \in subSignals THEN merged \cup {i} ELSE merged
        /\ UNCHANGED <<parallel, clock, signals, orders, orderId2algoContext, subSignals>>
    BY DEF SubTaskBackTestDone
  <1>3. /\ subAlgoOrders # <<>> =>
             /\ sub' = [sub EXCEPT ![i] = "merged", ![Last(subAlgoOrders)] = "spawned"]
             /\ subTraders' = (subTraders \cup {Last(subAlgoOrders)}) \ {i}
             /\ subAlgoOrders' = Front(subAlgoOrders)
        /\ subAlgoOrders = <<>> =>
             /\ sub' = [sub EXCEPT ![i] = "merged"]
             /\ subTraders' = subTraders \ {i}
             /\ UNCHANGED subAlgoOrders
    BY DEF SubTaskBackTestDone
  <1>4. /\ Stops => Stop("Finished", merged')
        /\ ~Stops => UNCHANGED <<algoStatus, signalCount, watch>>
    BY DEF SubTaskBackTestDone
  <1> HIDE DEF Stops
  <1>5. merged' \subseteq subSignals' /\ subSignals' \subseteq Parts
    BY <1>1, <1>2 DEF Typed
  <1>6. n \in Nat /\ DOMAIN subAlgoOrders = 1..n /\ subAlgoOrders \in Seq(Parts)
    BY <1>1, LenProperties DEF Typed
  <1>7. subAlgoOrders # <<>> =>
          /\ n \in Nat \ {0} /\ Last(subAlgoOrders) = subAlgoOrders[n]
          /\ Last(subAlgoOrders) \in Parts
          /\ Front(subAlgoOrders) \in Seq(Parts) /\ Len(Front(subAlgoOrders)) = n - 1
          /\ \A j \in 1..(n - 1) : Front(subAlgoOrders)[j] = subAlgoOrders[j]
    <2> SUFFICES ASSUME subAlgoOrders # <<>>
                 PROVE  /\ n \in Nat \ {0} /\ Last(subAlgoOrders) = subAlgoOrders[n]
                        /\ Last(subAlgoOrders) \in Parts
                        /\ Front(subAlgoOrders) \in Seq(Parts)
                        /\ Len(Front(subAlgoOrders)) = n - 1
                        /\ \A j \in 1..(n - 1) : Front(subAlgoOrders)[j] = subAlgoOrders[j]
      OBVIOUS
    <2>1. n # 0 BY <1>6, EmptySeq
    <2>2. Last(subAlgoOrders) = subAlgoOrders[n] BY DEF Last
    <2>3. subAlgoOrders[n] \in Parts BY <1>6, <2>1, ElementOfSeq
    <2>4. Front(subAlgoOrders) = SubSeq(subAlgoOrders, 1, n - 1) BY DEF Front
    <2> HIDE DEF n
    <2>5. \A j \in 1..(n - 1) : subAlgoOrders[j] \in Parts
      <3> SUFFICES ASSUME NEW j \in 1..(n - 1) PROVE subAlgoOrders[j] \in Parts
        OBVIOUS
      <3>1. j \in 1..n BY <1>6
      <3> QED BY <1>6, <3>1, ElementOfSeq DEF n
    <2>6. /\ SubSeq(subAlgoOrders, 1, n - 1) \in Seq(Parts)
          /\ Len(SubSeq(subAlgoOrders, 1, n - 1)) = n - 1
          /\ \A j \in 1..(n - 1) : SubSeq(subAlgoOrders, 1, n - 1)[j] = subAlgoOrders[j]
      BY <1>6, <2>1, <2>5, SubSeqProperties
    <2> QED BY <1>6, <2>1, <2>2, <2>3, <2>4, <2>6
  <1>8. Typed'
    <2>1. algoStatus' \in {"Creating", "Running", "Canceling"} \cup FinalStatuses
      BY <1>1, <1>4 DEF Typed, Stop, FinalStatuses
    <2>2. signalCount' \in Nat
      <3>1. merged' \in SUBSET Parts BY <1>5
      <3>2. Counted(signals, merged') \in Nat BY <1>1, <3>1, CountedType
      <3> QED BY <1>1, <1>4, <3>2 DEF Typed, Stop
    <2>3. watch' \in Watches /\ Len(watch'.queue) <= WindowSize
      <3>1. EmptyWatch \in Watches /\ Len(EmptyWatch.queue) <= WindowSize
        BY ShotAssumption DEF EmptyWatch, Watches
      <3> QED BY <1>1, <1>4, <3>1 DEF Typed, Stop
    <2>4. sub' \in [Parts -> SubStates] BY <1>1, <1>3, <1>7 DEF Typed, SubStates
    <2>5. subTraders' \subseteq Parts /\ subAlgoOrders' \in Seq(Parts)
      BY <1>1, <1>3, <1>7 DEF Typed
    <2> QED BY <1>1, <1>2, <1>5, <2>1, <2>2, <2>3, <2>4, <2>5 DEF Typed
  <1>9. RunningKnown' BY <1>1, <1>2 DEF Alone, RunningKnown
  <1>10. algoStatus # "Creating" /\ (parallel => algoStatus \notin {"Canceling", "Finished"})
    BY <1>1, <1>2 DEF Parent, ParentTradesNothing, NoneStarted, SummarisedAfterAll
  <1>11. algoStatus' # "Terminated" \/ UNCHANGED <<algoStatus, signalCount>>
    BY <1>4 DEF Stop
  <1>12. UserStopIsComplete'
    BY <1>1, <1>2, <1>11 DEF Alone, UserStopIsComplete, Counted
  <1>13. SignalsTaken'
    <2> SUFFICES ASSUME NEW j \in Parts, sub'[j] = "merged", j \in subSignals'
                 PROVE  j \in merged'
      BY DEF SignalsTaken
    <2>1. j = i \/ sub[j] = "merged" BY <1>1, <1>3, <1>7 DEF Typed
    <2> QED BY <1>1, <1>2, <2>1 DEF Parent, SignalsTaken
  <1>14. parallel /\ algoStatus' \in {"Running", "Finished"} => algoStatus = "Running"
    BY <1>1, <1>4, <1>10 DEF Typed, Stops, IsStopped, FinalStatuses
  \* Where the sub-orders are afterwards.
  <1>15. ASSUME parallel, algoStatus = "Running"
         PROVE  /\ \A j \in DOMAIN subAlgoOrders' : subAlgoOrders'[j] = j
                /\ \A j \in Parts : sub'[j] = "waiting" <=> j <= Len(subAlgoOrders')
                /\ subTraders' = {j \in Parts : sub'[j] \notin {"waiting", "merged"}}
                /\ subTraders' = {} => subAlgoOrders' = <<>>
    <2>1. /\ \A j \in DOMAIN subAlgoOrders : subAlgoOrders[j] = j
          /\ \A j \in Parts : sub[j] = "waiting" <=> j <= n
          /\ subTraders = {j \in Parts : sub[j] \notin {"waiting", "merged"}}
      BY <1>1, <1>15 DEF Parent, EachSubInItsPlace
    <2>2. sub \in [Parts -> SubStates] BY <1>1 DEF Typed
    <2>3. CASE subAlgoOrders = <<>>
      BY <1>2, <1>3, <2>1, <2>2, <2>3
    <2>4. CASE subAlgoOrders # <<>>
      <3>1. /\ n \in Nat \ {0} /\ n \in DOMAIN subAlgoOrders
            /\ Last(subAlgoOrders) = n /\ n \in Parts
        BY <1>6, <1>7, <2>1, <2>4
      <3> HIDE DEF n
      <3>2. n # i /\ sub[n] = "waiting" BY <1>2, <2>1, <3>1 DEF Parts
      <3>3. /\ sub' = [sub EXCEPT ![i] = "merged", ![n] = "spawned"]
            /\ subTraders' = (subTraders \cup {n}) \ {i}
            /\ subAlgoOrders' \in Seq(Parts) /\ Len(subAlgoOrders') = n - 1
            /\ \A j \in 1..(n - 1) : subAlgoOrders'[j] = subAlgoOrders[j]
        BY <1>3, <1>7, <2>4, <3>1
      <3>4. DOMAIN subAlgoOrders' = 1..(n - 1) BY <3>3, LenProperties
      <3>5. \A j \in DOMAIN subAlgoOrders' : subAlgoOrders'[j] = j
        BY <1>6, <2>1, <3>1, <3>3, <3>4
      <3>6. \A j \in Parts : sub'[j] = "waiting" <=> j <= Len(subAlgoOrders')
        BY <1>2, <2>1, <2>2, <3>1, <3>2, <3>3 DEF Parts
      <3>7. subTraders' = {j \in Parts : sub'[j] \notin {"waiting", "merged"}}
        BY <1>2, <2>1, <2>2, <3>1, <3>2, <3>3
      <3>8. n \in subTraders' BY <3>2, <3>3
      <3> QED BY <3>5, <3>6, <3>7, <3>8
    <2> QED BY <2>3, <2>4
  <1>16. EachSubInItsPlace' BY <1>2, <1>14, <1>15 DEF EachSubInItsPlace
  <1>17. SummarisedAfterAll'
    <2> SUFFICES ASSUME parallel', algoStatus' = "Finished"
                 PROVE  /\ \A j \in Parts : sub'[j] = "merged"
                        /\ subAlgoOrders' = <<>>
                        /\ signalCount' = Cardinality(subSignals')
      BY DEF SummarisedAfterAll
    <2>1. parallel /\ algoStatus = "Running" BY <1>2, <1>14
    <2>2. Stops BY <1>4, <2>1
    <2>3. subTraders' = {} BY <2>2 DEF Stops, AllDone
    <2>4. subAlgoOrders' = <<>> BY <1>15, <2>1, <2>3
    <2>5. \A j \in Parts : sub'[j] # "waiting" BY <1>15, <2>1, <2>4 DEF Parts
    <2>6. \A j \in Parts : sub'[j] = "merged" BY <1>15, <2>1, <2>3, <2>5
    <2>7. merged' = subSignals' BY <1>5, <1>13, <2>6 DEF SignalsTaken
    <2>8. signalCount' = Cardinality(merged') BY <1>4, <2>1, <2>2 DEF Stop, Counted
    <2> QED BY <2>4, <2>6, <2>7, <2>8
  <1>18. ParentTradesNothing' /\ NoneStarted'
    BY <1>1, <1>2, <1>4, <1>10 DEF Parent, ParentTradesNothing, NoneStarted, Stop
  <1> QED BY <1>8, <1>9, <1>12, <1>13, <1>16, <1>17, <1>18 DEF ShotInv, Alone, Parent

-----------------------------------------------------------------------------
(* The theorems *)

LEMMA InitShotInv == Init => ShotInv
  <1> SUFFICES ASSUME Init PROVE ShotInv
    OBVIOUS
  <1>1. EmptyWatch \in Watches /\ Len(EmptyWatch.queue) <= WindowSize
    BY ShotAssumption DEF EmptyWatch, Watches
  <1>2. MaxTicks \in Nat BY ShotAssumption
  <1>3. Typed BY <1>1, <1>2 DEF Init, Typed, FinalStatuses, SubStates
  <1>4. RunningKnown /\ UserStopIsComplete BY DEF Init, RunningKnown, UserStopIsComplete
  <1>5. Parent
    BY DEF Init, Parent, ParentTradesNothing, NoneStarted, EachSubInItsPlace, SignalsTaken,
           SummarisedAfterAll
  <1> QED BY <1>3, <1>4, <1>5 DEF ShotInv, Alone

LEMMA NextShotInv == ShotInv /\ [Next]_vars => ShotInv'
  <1> SUFFICES ASSUME ShotInv, [Next]_vars PROVE ShotInv'
    OBVIOUS
  <1>1. CASE Strategy
    BY <1>1, CancelKeeps, StopsKeep, StartAloneKeeps, StartParallelKeeps DEF Strategy
  <1>2. CASE Market BY <1>2, QuoteKeeps, StopsKeep DEF Market
  <1>3. CASE Execution BY <1>3, ExecutionKeeps DEF Execution
  <1>4. ASSUME NEW i \in Parts, SubTrader(i) PROVE ShotInv'
    BY <1>4, SubOwnKeeps, SubSignalKeeps, SubTaskBackTestDoneKeeps DEF SubTrader
  <1>5. CASE UNCHANGED vars
    <2>1. UNCHANGED <<parallel, algoStatus, signalCount, clock, watch, signals, orders,
                      orderId2algoContext, subAlgoOrders, subTraders, sub, subSignals, merged>>
      BY <1>5 DEF vars, aloneVars, subVars
    <2>2. Typed' BY <2>1 DEF ShotInv, Alone, Typed
    <2>3. RunningKnown' /\ UserStopIsComplete'
      BY <2>1 DEF ShotInv, Alone, RunningKnown, UserStopIsComplete, Counted
    <2>4. Parent' BY <2>1, ParentUndisturbed DEF ShotInv, subVars
    <2> QED BY <2>2, <2>3, <2>4 DEF ShotInv, Alone
  <1> QED BY <1>1, <1>2, <1>3, <1>4, <1>5 DEF Next

\* The inductive invariant: what the trader alone and the parent of a parallel backtest
\* know of their orders and sub-tasks, in every reachable state of ShotTrader.
THEOREM ShotSafety == Spec => []ShotInv
  BY InitShotInv, NextShotInv, PTL DEF Spec

\* Every variable of the strategy has its type, whatever the numbers of prices,
\* sub-orders and workers.
THEOREM ShotTyped == Spec => []TypeOK
  <1>1. ShotInv => TypeOK
    <2> SUFFICES ASSUME Typed PROVE TypeOK
      BY DEF ShotInv, Alone
    <2>1. \A k \in DOMAIN orders :
            orders[k] \in {Fusion(a, f, c) : a \in {"Running", "Expired", "Finished", "Error"},
                                             f \in 0..OrderQty, c \in BOOLEAN}
      <3> SUFFICES ASSUME NEW k \in DOMAIN orders
                   PROVE  \E a \in {"Running", "Expired", "Finished", "Error"},
                             f \in 0..OrderQty, c \in BOOLEAN : orders[k] = Fusion(a, f, c)
        OBVIOUS
      <3>1. orders[k] \in Fusions BY LenProperties DEF Typed
      <3>2. PICK a \in AlgoStates, f \in 0..OrderQty : orders[k] = Fusion(a, f, a = "Running")
        BY <3>1 DEF Fusions
      <3>3. (a = "Running") \in BOOLEAN OBVIOUS
      <3> QED BY <3>2, <3>3, Zenon DEF AlgoStates
    <2>2. watch.queue \in Seq(Quotes) /\ {watch.low, watch.high} \subseteq Quotes \cup {NoMd}
      BY DEF Typed, Watches
    <2> QED BY <2>1, <2>2 DEF Typed, TypeOK
  <1> QED BY <1>1, ShotSafety, PTL

\* ShotTrader::cancel and start's loop: a trader the user has stopped leaves no
\* AlgoTrader of a fusion order running, and its summary counts what was bought.
THEOREM UserStopComplete == Spec => []UserStopIsComplete
  <1>1. ShotInv => UserStopIsComplete BY DEF ShotInv, Alone
  <1> QED BY <1>1, ShotSafety, PTL

\* ShotTrader::onSubTaskBackTestDone: a parallel backtest that has finished has
\* carried out every sub-order and counts the signals of all, in whatever order the
\* sub-traders end.
THEOREM ParallelSummaryComplete == Spec => []SummarisedAfterAll
  <1>1. ShotInv => SummarisedAfterAll BY DEF ShotInv, Parent
  <1> QED BY <1>1, ShotSafety, PTL

\* AlgoPlacer::onAlgoPerformanceUpdate: no fill an AlgoTrader receives after its end
\* changes the final report the strategy has of the order.
THEOREM FinalReportLast == Spec => FinalReportIsLast
  <1> DEFINE Kept == \A k \in DOMAIN orders : orders[k].status # "NEW" => orders'[k] = orders[k]
  <1>1. ShotInv /\ [Next]_vars => [Kept]_vars
    <2> SUFFICES ASSUME ShotInv, Next, NEW k \in DOMAIN orders, orders[k].status # "NEW"
                 PROVE  orders'[k] = orders[k]
      OBVIOUS
    <2>1. orders \in Seq(Fusions) BY DEF ShotInv, Alone, Typed
    <2>2. orders[k] \in Fusions BY <2>1, LenProperties
    <2>3. orders[k].algo # "Running" /\ ~orders[k].callback BY <2>2, FusionFacts
    <2>4. CASE \E p \in Prices : OnMarketDepth(p)
      <3>1. \/ UNCHANGED orders
            \/ \E o \in Placed : orders' = Append(orders, o)
        BY <2>4, Zenon DEF OnMarketDepth
      <3>2. ASSUME NEW o \in Placed, orders' = Append(orders, o) PROVE orders'[k] = orders[k]
        <4>1. k \in 1..Len(orders) BY <2>1, LenProperties
        <4> QED BY <2>1, <3>2, <4>1, AppendProperties
      <3> QED BY <3>1, <3>2
    <2>5. CASE Execution
      <3>1. PICK j \in DOMAIN orders : AlgoUpdate(j) \/ AlgoStop(j) \/ AlgoInstanceFinished(j)
        BY <2>5 DEF Execution
      <3>2. CASE j = k
        BY <2>3, <3>1, <3>2 DEF AlgoUpdate, AlgoStop, AlgoInstanceFinished
      <3>3. CASE j # k
        BY <3>1, <3>3 DEF AlgoUpdate, AlgoStop, AlgoInstanceFinished, Report
      <3> QED BY <3>2, <3>3
    <2>6. CASE Strategy \/ QuoteAfterEnd \/ \E i \in Parts : SubTrader(i)
      <3>1. UNCHANGED orders
        BY <2>6 DEF Strategy, StartRefused, StartAlone, StartParallel, ShotLoop, Cancel,
                    QuoteAfterEnd, SubTrader, SubStart, SubSignal, SubQuotesEnd, SubLoop,
                    SubTaskBackTestDone, aloneVars
      <3> QED BY <3>1
    <2> QED BY <2>4, <2>5, <2>6 DEF Next, Market
  <1>2. Spec => [][Kept]_vars BY <1>1, ShotSafety, PTL DEF Spec
  <1> QED BY <1>2 DEF FinalReportIsLast
=============================================================================
