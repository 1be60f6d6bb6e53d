------------------------- MODULE AlgoExecutionProofs -------------------------
(***************************************************************************)
(* The algo trader on the simulated book, for every set of orders,         *)
(* symbols, prices, quotes and requests, and every target: its type        *)
(* invariant, what it believes of its orders (ViewNeverAhead, and that its *)
(* copies implement OrderLife), its counters, and that it never asks the   *)
(* market for more than its target.  What makes them inductive is a chain: *)
(* of one order, the copy the trader has, the updates on their way to it,  *)
(* in their order in the queue, and the order of the book each follow from *)
(* the one before (Follows).                                               *)
(***************************************************************************)
EXTENDS AlgoExecution, OrderBookSimProofs

-----------------------------------------------------------------------------
(* The inductive invariant *)

\* An order as anyone may have seen it, half-written cancellations included.
WellFormed(o) ==
    /\ o \in Order
    /\ o.filledQty <= o.orderQty
    /\ o.filledQty = o.orderQty <=> o.status = FILLED
    /\ o.status = REJECTED => o.filledQty = 0
    /\ o.status \in {CANCELED, PARTIALCANCEL} =>
           o.cancelQty \in {0, o.orderQty - o.filledQty}
    /\ o.status \notin {CANCELED, PARTIALCANCEL} => o.cancelQty = 0

\* q is what the order o may have become: an order that has not ended, has been
\* answered and has no more fills is still the same object, value for value.
Follows(o, q) ==
    /\ SameTerms(o, q)
    /\ o.filledQty <= q.filledQty
    /\ IsFinal(o) => (IsFinal(q) /\ q.filledQty = o.filledQty)
    /\ q.status = UNSENT => o.status = UNSENT
    /\ (~IsFinal(q) /\ q.filledQty = o.filledQty /\ o.status # UNSENT) => q = o

\* The orders that wait on the book's strand.
PlaceTasks == {i \in DOMAIN requests : requests[i].op = "place"}

TraderTyped ==
    /\ algoStatus \in {Running, Canceling, Crashed} \cup AlgoFinal
    /\ DOMAIN view \subseteq OrderIds
    /\ \A id \in DOMAIN view : view[id].id = id /\ WellFormed(view[id])
    /\ perf \in Counters
    /\ connected \in BOOLEAN
    /\ requests \in Seq(Task)
    /\ lastId \in Nat
    /\ cancelTask \in BOOLEAN

\* Every number in use has been handed out, and until the trader stops it has a
\* copy of each of its orders.
NumbersKnown ==
    /\ DOMAIN orders \subseteq 1..lastId
    /\ DOMAIN view \subseteq 1..lastId
    /\ connected => DOMAIN view = 1..lastId
    /\ \A i \in DOMAIN callbacks : callbacks[i].id \in 1..lastId

\* A waiting order is new to the book and as the trader sent it; it waits once.
TasksWait ==
    \A i \in PlaceTasks : LET o == requests[i].order IN
        /\ o.id \in OrderIds /\ o.id \in 1..lastId
        /\ \E r \in Requests : o = OrderOf(o.id, r)
        /\ o.id \notin DOMAIN orders
        /\ o.id \in DOMAIN view => view[o.id] = o
        /\ \A j \in DOMAIN callbacks : callbacks[j].id # o.id
        /\ \A k \in PlaceTasks : requests[k].order.id = o.id => k = i

\* The chain.
UpdatesFollow ==
    /\ \A i \in DOMAIN callbacks :
         WellFormed(callbacks[i]) /\ callbacks[i].status \notin {UNSENT, REPORTING}
    /\ \A i, j \in DOMAIN callbacks :
         (i < j /\ callbacks[i].id = callbacks[j].id) => Follows(callbacks[i], callbacks[j])
    /\ \A i \in DOMAIN callbacks :
         callbacks[i].id \in DOMAIN view => Follows(view[callbacks[i].id], callbacks[i])
    /\ \A i \in DOMAIN callbacks :
         callbacks[i].id \in DOMAIN orders => Follows(callbacks[i], orders[callbacks[i].id])
    /\ \A id \in DOMAIN view \cap DOMAIN orders : Follows(view[id], orders[id])
    /\ \A id \in DOMAIN orders : orders[id].status # REPORTING

\* A running book forgets no order, a stopped one has none.
BookRemembers ==
    /\ running => \A i \in DOMAIN callbacks : callbacks[i].id \in DOMAIN orders
    /\ ~running => DOMAIN orders = {}

TraderInv == TraderTyped /\ NumbersKnown /\ TasksWait /\ UpdatesFollow /\ BookRemembers

ExecInv == IInv /\ TraderInv

\* What the trader may still hear of its orders: the difference between what it
\* and the book think the market may take.
InBook == [id \in DOMAIN orders |-> Exposure(orders[id])]
AskedFor == [i \in DOMAIN requests |-> IF requests[i].op = "place"
                                       THEN requests[i].order.orderQty ELSE 0]
Lag == [id \in DOMAIN orders |-> Exposure(view[id]) - Exposure(orders[id])]

BookTotal == TotalOf(InBook)
AskedTotal == TotalOf(AskedFor)
LagTotal == TotalOf(Lag)

\* qty is what the book holds and is asked for, and what it has given up since.
BudgetKept == (connected /\ running) => perf.qty = BookTotal + AskedTotal + LagTotal

SumsAgree == CountersMatchView /\ BudgetKept /\ NeverOvertrades

BudgetInv == ExecInv /\ SumsAgree

-----------------------------------------------------------------------------
(* Queues *)

LEMMA TailFacts ==
    ASSUME NEW S, NEW q \in Seq(S), q # <<>>
    PROVE  /\ Tail(q) \in Seq(S) /\ Head(q) \in S
           /\ 1 \in DOMAIN q /\ Head(q) = q[1]
           /\ \A i \in DOMAIN Tail(q) : i \in Nat /\ i >= 1
           /\ \A i \in DOMAIN Tail(q) : i + 1 \in DOMAIN q
           /\ \A i \in DOMAIN Tail(q) : Tail(q)[i] = q[i + 1]
  <1>1. /\ Tail(q) \in Seq(S) /\ Len(Tail(q)) = Len(q) - 1 /\ Head(q) \in S
        /\ \A i \in 1 .. Len(Tail(q)) : Tail(q)[i] = q[i + 1]
    BY HeadTailProperties
  <1>2. Len(q) \in Nat \ {0} /\ DOMAIN q = 1..Len(q)
    BY EmptySeq, LenProperties
  <1>3. DOMAIN Tail(q) = 1..(Len(q) - 1) BY <1>1, LenProperties
  <1>4. Head(q) = q[1] OBVIOUS
  <1> QED BY <1>1, <1>2, <1>3, <1>4

LEMMA AppendFacts ==
    ASSUME NEW S, NEW q \in Seq(S), NEW e \in S
    PROVE  /\ Append(q, e) \in Seq(S)
           /\ Len(q) \in Nat /\ DOMAIN q = 1..Len(q)
           /\ DOMAIN Append(q, e) = 1..(Len(q) + 1)
           /\ \A i \in 1..Len(q) : Append(q, e)[i] = q[i]
           /\ Append(q, e)[Len(q) + 1] = e
  BY AppendProperties, LenProperties

\* What the queue of tasks may hold.
LEMMA TaskTypes ==
    ASSUME NEW t \in Task
    PROVE  /\ t.op \in {"subscribe", "unsubscribe", "place", "cancel"}
           /\ t.op = "place" => t.order \in Order
           /\ t.op = "cancel" => t.id \in OrderIds
  <1>1. CASE t \in [op : {"subscribe", "unsubscribe"}] BY <1>1
  <1>2. CASE t \in [op : {"place"}, order : Order] BY <1>2
  <1>3. CASE t \in [op : {"cancel"}, id : OrderIds] BY <1>3
  <1> QED BY <1>1, <1>2, <1>3 DEF Task

LEMMA TasksOfTrader ==
    /\ SubscribeTask \in Task /\ UnsubscribeTask \in Task
    /\ SubscribeTask.op = "subscribe" /\ UnsubscribeTask.op = "unsubscribe"
    /\ \A id \in OrderIds : CancelTask(id) \in Task /\ CancelTask(id).op = "cancel"
    /\ \A o \in Order : /\ PlaceTask(o) \in Task
                        /\ PlaceTask(o).op = "place" /\ PlaceTask(o).order = o
  BY DEF Task, SubscribeTask, UnsubscribeTask, CancelTask, PlaceTask

-----------------------------------------------------------------------------
(* Follows is a partial order *)

LEMMA StatusKinds ==
    /\ UNSENT \notin FinalStatus /\ REPORTING \notin FinalStatus
    /\ NEW_ \notin FinalStatus /\ PARTIALFILLED \notin FinalStatus
    /\ {FILLED, REJECTED, CANCELED, PARTIALCANCEL} = FinalStatus
    /\ CANCELED \notin {UNSENT, REPORTING, FILLED, REJECTED}
    /\ PARTIALCANCEL \notin {UNSENT, REPORTING, FILLED, REJECTED, CANCELED}
    /\ REJECTED # FILLED
    /\ FinalStatus \cup {UNSENT, REPORTING} \subseteq OrderStatus
  BY DEF UNSENT, NEW_, PARTIALFILLED, FILLED, PARTIALCANCEL, CANCELED, REJECTED, REPORTING,
     FinalStatus, OrderStatus

LEMMA FollowsItself ==
    ASSUME NEW o \in Order
    PROVE  Follows(o, o)
  BY OrderNumbers DEF Follows, SameTerms

LEMMA FollowsOn ==
    ASSUME NEW a \in Order, NEW b \in Order, NEW c \in Order, Follows(a, b), Follows(b, c)
    PROVE  Follows(a, c)
  <1>1. /\ a.filledQty \in Nat /\ b.filledQty \in Nat /\ c.filledQty \in Nat
    BY OrderNumbers
  <1>2. SameTerms(a, c) BY DEF Follows, SameTerms
  <1>3. a.filledQty <= c.filledQty BY <1>1 DEF Follows
  <1>4. IsFinal(a) => (IsFinal(c) /\ c.filledQty = a.filledQty) BY DEF Follows
  <1>5. c.status = UNSENT => a.status = UNSENT BY DEF Follows
  <1>6. ASSUME ~IsFinal(c), c.filledQty = a.filledQty, a.status # UNSENT
        PROVE  c = a
    <2>1. ~IsFinal(b) /\ b.status # UNSENT BY <1>6 DEF Follows
    <2>2. a.filledQty <= b.filledQty /\ b.filledQty <= c.filledQty BY DEF Follows
    <2>3. b.filledQty = c.filledQty /\ b.filledQty = a.filledQty BY <1>1, <1>6, <2>2
    <2>4. c = b BY <1>6, <2>1, <2>3 DEF Follows
    <2>5. b = a BY <1>6, <2>1, <2>3 DEF Follows
    <2> QED BY <2>4, <2>5
  <1> QED BY <1>2, <1>3, <1>4, <1>5, <1>6 DEF Follows

\* An order the trader has filled in is well formed, and so is what a match makes
\* of it, which follows from it.
LEMMA NewIsWellFormed ==
    ASSUME NEW id \in OrderIds, NEW r \in Requests
    PROVE  /\ WellFormed(OrderOf(id, r)) /\ OrderOf(id, r).id = id
           /\ OrderOf(id, r).status = UNSENT /\ OrderOf(id, r).orderQty = r.qty
           /\ OrderOf(id, r).filledQty = 0
           /\ r.qty \in Nat
  <1> DEFINE o == OrderOf(id, r)
  <1>1. Consistent(o) /\ o.id = id BY NewIsMatchable
  <1>2. o.status = UNSENT /\ o.orderQty = r.qty /\ o.filledQty = 0
    BY DEF OrderOf, NewOrder
  <1> HIDE DEF o
  <1>3. WellFormed(o) BY <1>1 DEF Consistent, WellFormed
  <1>4. r.qty \in Nat BY <1>1, <1>2, OrderNumbers DEF Consistent
  <1> QED BY <1>1, <1>2, <1>3, <1>4 DEF o

LEMMA MatchFollows ==
    ASSUME NEW o, Matchable(o), o.cancelQty = 0, o.status # REPORTING,
           NEW q \in Int, NEW md \in MarketDepth,
           \/ IsNewerThan(Match(o, q, md).order, o)
           \/ o.status = UNSENT
    PROVE  LET p == Match(o, q, md).order
           IN  /\ WellFormed(p) /\ Follows(o, p) /\ p.id = o.id
               /\ p.status \notin {UNSENT, REPORTING}
  <1> DEFINE p == Match(o, q, md).order
  <1>1. Consistent(p) /\ Extends(o, p) BY MatchedIsConsistent
  <1>2. o \in Order /\ o.status \in OpenStatus BY DEF Matchable
  <1>3. p.status \notin {UNSENT, REPORTING} BY <1>2, MatchAnswers
  <1>4. IsNewerThan(p, o) \/ o.status = UNSENT OBVIOUS
  <1> HIDE DEF p
  <1>5. WellFormed(p) BY <1>1 DEF Consistent, WellFormed
  <1>6. SameTerms(o, p) /\ o.filledQty <= p.filledQty /\ p.id = o.id
    BY <1>1 DEF SameTerms, Extends
  <1>7. ~IsFinal(o) BY <1>2 DEF OpenStatus, IsFinal
  <1>8. o.filledQty \in Nat /\ p.filledQty \in Nat
    BY <1>1, <1>2, OrderNumbers DEF Consistent
  <1>9. ASSUME ~IsFinal(p), p.filledQty = o.filledQty, o.status # UNSENT
        PROVE  FALSE
    <2>1. o.status <= SENTOK BY <1>4, <1>8, <1>9 DEF IsNewerThan
    <2> QED BY <1>2, <1>9, <2>1
        DEF OpenStatus, OrderStatus, SENTOK, UNSENT, NEW_, PARTIALFILLED, FILLED,
            PARTIALCANCEL, CANCELED, REJECTED, REPORTING
  <1>10. Follows(o, p) BY <1>3, <1>6, <1>7, <1>9 DEF Follows
  <1> QED BY <1>3, <1>5, <1>6, <1>10 DEF p

-----------------------------------------------------------------------------
(* What keeps the parts of the invariant *)

\* The orders that wait after a step waited before it, d places behind.
TasksShift(d) ==
    \A i \in PlaceTasks' : i + d \in PlaceTasks /\ requests'[i] = requests[i + d]

LEMMA TailShifts ==
    ASSUME requests \in Seq(Task), requests # <<>>, requests' = Tail(requests)
    PROVE  requests' \in Seq(Task) /\ TasksShift(1)
  <1>1. requests' \in Seq(Task) BY TailFacts
  <1>2. ASSUME NEW i \in PlaceTasks'
        PROVE  i + 1 \in PlaceTasks /\ requests'[i] = requests[i + 1]
    <2>1. i \in DOMAIN Tail(requests) /\ requests'[i].op = "place"
      BY DEF PlaceTasks
    <2>2. i + 1 \in DOMAIN requests /\ requests'[i] = requests[i + 1]
      BY <2>1, TailFacts
    <2> QED BY <2>1, <2>2 DEF PlaceTasks
  <1> QED BY <1>1, <1>2 DEF TasksShift

LEMMA AppendShifts ==
    ASSUME requests \in Seq(Task), NEW t \in Task, t.op # "place",
           requests' = Append(requests, t)
    PROVE  requests' \in Seq(Task) /\ TasksShift(0)
  <1>1. requests' \in Seq(Task) BY AppendFacts
  <1>2. ASSUME NEW i \in PlaceTasks'
        PROVE  i + 0 \in PlaceTasks /\ requests'[i] = requests[i + 0]
    <2>1. i \in DOMAIN requests' /\ requests'[i].op = "place" BY DEF PlaceTasks
    <2>2. /\ Len(requests) \in Nat /\ DOMAIN requests = 1..Len(requests)
          /\ DOMAIN requests' = 1..(Len(requests) + 1)
          /\ \A k \in 1..Len(requests) : requests'[k] = requests[k]
          /\ requests'[Len(requests) + 1] = t
      BY AppendFacts
    <2>3. i \in 1..Len(requests) BY <2>1, <2>2
    <2>4. i + 0 = i BY <2>3
    <2> QED BY <2>1, <2>2, <2>3, <2>4 DEF PlaceTasks
  <1> QED BY <1>1, <1>2 DEF TasksShift

LEMMA SameShifts ==
    ASSUME requests \in Seq(Task), requests' = requests
    PROVE  requests' \in Seq(Task) /\ TasksShift(0)
  <1>1. ASSUME NEW i \in PlaceTasks'
        PROVE  i + 0 \in PlaceTasks /\ requests'[i] = requests[i + 0]
    <2>1. i \in PlaceTasks BY DEF PlaceTasks
    <2>2. i \in 1..Len(requests) BY <2>1, LenProperties DEF PlaceTasks
    <2>3. i + 0 = i BY <2>2
    <2> QED BY <2>1, <2>3
  <1> QED BY <1>1 DEF TasksShift

\* A waiting task is left alone by a step that brings no number into the book or
\* the view except e, which is none of theirs.
LEMMA TasksWaitKept ==
    ASSUME TasksWait, requests' \in Seq(Task), lastId' = lastId,
           NEW d \in Nat, TasksShift(d), NEW e,
           e = NoOrder \/ \A i \in PlaceTasks' : requests'[i].order.id # e,
           DOMAIN orders' \subseteq DOMAIN orders \cup {e},
           \A id \in DOMAIN view' :
               \/ id \in DOMAIN view /\ view'[id] = view[id]
               \/ \E j \in DOMAIN callbacks : callbacks[j].id = id,
           \A j \in DOMAIN callbacks' :
               \/ callbacks'[j].id \in DOMAIN orders \cup {e}
               \/ \E k \in DOMAIN callbacks : callbacks[k].id = callbacks'[j].id
    PROVE  TasksWait'
  <1> SUFFICES
        ASSUME NEW i \in PlaceTasks'
        PROVE  LET o == requests'[i].order IN
               /\ o.id \in OrderIds /\ o.id \in 1..lastId
               /\ \E r \in Requests : o = OrderOf(o.id, r)
               /\ o.id \notin DOMAIN orders'
               /\ o.id \in DOMAIN view' => view'[o.id] = o
               /\ \A j \in DOMAIN callbacks' : callbacks'[j].id # o.id
               /\ \A k \in PlaceTasks' : requests'[k].order.id = o.id => k = i
    BY DEF TasksWait
  <1> DEFINE o == requests'[i].order
  <1>1. i + d \in PlaceTasks /\ requests'[i] = requests[i + d] BY DEF TasksShift
  <1>2. /\ o.id \in OrderIds /\ o.id \in 1..lastId
        /\ \E r \in Requests : o = OrderOf(o.id, r)
        /\ o.id \notin DOMAIN orders
        /\ o.id \in DOMAIN view => view[o.id] = o
        /\ \A j \in DOMAIN callbacks : callbacks[j].id # o.id
        /\ \A k \in PlaceTasks : requests[k].order.id = o.id => k = i + d
    BY <1>1 DEF TasksWait
  <1>3. o.id # e BY <1>2, NoOrderIsNone
  <1>4. \A k \in PlaceTasks' : requests'[k].order.id = o.id => k = i
    <2> SUFFICES ASSUME NEW k \in PlaceTasks', requests'[k].order.id = o.id
                 PROVE  k = i
      OBVIOUS
    <2>1. k + d \in PlaceTasks /\ requests'[k] = requests[k + d] BY DEF TasksShift
    <2> HIDE DEF o
    <2>2. k + d = i + d BY <1>2, <2>1
    <2>3. k \in Int /\ i \in Int /\ d \in Int
      <3>1. \A x \in DOMAIN requests' : x \in Int BY LenProperties
      <3> QED BY <3>1 DEF PlaceTasks
    <2> QED BY <2>2, <2>3
  <1> HIDE DEF o
  <1>5. o.id \notin DOMAIN orders' BY <1>2, <1>3
  <1>6. o.id \in DOMAIN view' => view'[o.id] = o BY <1>2
  <1>7. \A j \in DOMAIN callbacks' : callbacks'[j].id # o.id BY <1>2, <1>3
  <1> QED BY <1>2, <1>4, <1>5, <1>6, <1>7 DEF o

\* An order of the book moves on, from o to p.  The updates that were the order
\* itself may move with it, and one that says so may be added at the end.
LEMMA MoveFollows ==
    ASSUME UpdatesFollow, TypeOK, TraderTyped, TypeOK',
           NEW id \in DOMAIN orders, NEW o, o = orders[id], NEW p,
           WellFormed(p), p.id = id, p.status \notin {UNSENT, REPORTING},
           Follows(o, p), view' = view,
           DOMAIN orders' = DOMAIN orders, orders'[id] = p,
           \A k \in DOMAIN orders : k # id => orders'[k] = orders[k],
           NEW n \in Nat, DOMAIN callbacks = 1..n,
           \A k \in DOMAIN callbacks' :
               \/ k \in 1..n /\ callbacks'[k] = callbacks[k]
               \/ k \in 1..n /\ callbacks[k] = o /\ callbacks'[k] = p
               \/ k = n + 1 /\ callbacks'[k] = p,
           \A i, j \in 1..n :
               (i < j /\ callbacks[i] = o /\ callbacks'[i] = p /\ callbacks[j].id = id)
                   => Follows(p, callbacks'[j])
    PROVE  UpdatesFollow'
  <1>1. /\ o \in Order /\ o.id = id /\ p \in Order
        /\ \A i \in DOMAIN callbacks : callbacks[i] \in Order
        /\ \A i \in DOMAIN view : view[i] \in Order
    BY DEF TypeOK, TraderTyped, WellFormed, UpdatesFollow
  <1>2. Follows(p, p) BY <1>1, FollowsItself
  <1>3. ASSUME NEW q \in Order, Follows(q, o) PROVE Follows(q, p)
    BY <1>1, <1>3, FollowsOn
  <1>4. \A k \in DOMAIN callbacks' :
          WellFormed(callbacks'[k]) /\ callbacks'[k].status \notin {UNSENT, REPORTING}
    BY DEF UpdatesFollow
  <1>5. ASSUME NEW i \in DOMAIN callbacks', NEW j \in DOMAIN callbacks', i < j,
               callbacks'[i].id = callbacks'[j].id
        PROVE  Follows(callbacks'[i], callbacks'[j])
    <2>1. i \in 1..n
      <3>1. i \in 1..n \/ i = n + 1 OBVIOUS
      <3>2. j \in 1..n \/ j = n + 1 OBVIOUS
      <3> QED BY <1>5, <3>1, <3>2
    <2>2. callbacks[i] \in Order BY <1>1, <2>1
    <2>3. CASE callbacks'[i] = callbacks[i]
      <3>1. CASE j \in 1..n /\ callbacks'[j] = callbacks[j]
        BY <1>5, <2>1, <2>3, <3>1 DEF UpdatesFollow
      <3>2. CASE callbacks'[j] = p
        <4>1. callbacks[i].id = id BY <1>5, <2>3, <3>2
        <4>2. Follows(callbacks[i], o) BY <2>1, <4>1 DEF UpdatesFollow
        <4> QED BY <1>3, <2>2, <2>3, <3>2, <4>2
      <3> QED BY <3>1, <3>2
    <2>4. CASE callbacks[i] = o /\ callbacks'[i] = p
      <3>1. CASE j \in 1..n
        <4>1. callbacks[j].id = id BY <1>1, <1>5, <2>4, <3>1
        <4> QED BY <1>5, <2>1, <2>4, <3>1, <4>1
      <3>2. CASE j = n + 1 BY <1>2, <2>4, <3>2
      <3> QED BY <3>1, <3>2
    <2> QED BY <2>1, <2>3, <2>4
  <1>6. ASSUME NEW i \in DOMAIN callbacks', callbacks'[i].id \in DOMAIN view
        PROVE  Follows(view[callbacks'[i].id], callbacks'[i])
    <2>1. CASE i \in 1..n /\ callbacks'[i] = callbacks[i]
      BY <1>6, <2>1 DEF UpdatesFollow
    <2>2. CASE callbacks'[i] = p
      <3>1. id \in DOMAIN view BY <1>6, <2>2
      <3>2. Follows(view[id], o) BY <3>1 DEF UpdatesFollow
      <3> QED BY <1>1, <1>3, <2>2, <3>1, <3>2
    <2> QED BY <2>1, <2>2
  <1>7. ASSUME NEW i \in DOMAIN callbacks', callbacks'[i].id \in DOMAIN orders
        PROVE  Follows(callbacks'[i], orders'[callbacks'[i].id])
    <2>1. CASE callbacks'[i] = p BY <1>2, <2>1
    <2>2. CASE i \in 1..n /\ callbacks'[i] = callbacks[i]
      <3>1. Follows(callbacks[i], orders[callbacks[i].id])
        BY <1>7, <2>2 DEF UpdatesFollow
      <3>2. CASE callbacks[i].id = id BY <1>1, <1>3, <2>2, <3>1, <3>2
      <3>3. CASE callbacks[i].id # id BY <1>7, <2>2, <3>1, <3>3
      <3> QED BY <3>2, <3>3
    <2> QED BY <2>1, <2>2
  <1>8. ASSUME NEW i \in DOMAIN view \cap DOMAIN orders
        PROVE  Follows(view[i], orders'[i])
    <2>1. Follows(view[i], orders[i]) BY DEF UpdatesFollow
    <2>2. CASE i = id BY <1>1, <1>3, <2>1, <2>2
    <2> QED BY <2>1, <2>2
  <1>9. \A i \in DOMAIN orders : orders'[i].status # REPORTING
    BY DEF UpdatesFollow
  <1> QED BY <1>4, <1>5, <1>6, <1>7, <1>8, <1>9 DEF UpdatesFollow

-----------------------------------------------------------------------------
(* The book's part of the invariant: each of the trader's steps is one of the
   book's, or none. *)

LEMMA NextTask ==
    ASSUME ExecInv, requests # <<>>, Head(requests).op = "place"
    PROVE  LET o == Head(requests).order IN
           /\ o.id \in OrderIds /\ o.id \in 1..lastId
           /\ \E r \in Requests : o = OrderOf(o.id, r)
           /\ o.id \notin DOMAIN orders
           /\ o.id \in DOMAIN view => view[o.id] = o
           /\ \A j \in DOMAIN callbacks : callbacks[j].id # o.id
           /\ \A k \in PlaceTasks : requests[k].order.id = o.id => k = 1
  <1>1. requests \in Seq(Task) BY DEF ExecInv, TraderInv, TraderTyped
  <1>2. 1 \in DOMAIN requests /\ Head(requests) = requests[1] BY <1>1, TailFacts
  <1>3. 1 \in PlaceTasks BY <1>2 DEF PlaceTasks
  <1>4. TasksWait BY DEF ExecInv, TraderInv
  <1> QED BY <1>2, <1>3, <1>4 DEF TasksWait

LEMMA ExecStepIsBookStep ==
    ASSUME ExecInv, [ExecNext]_vars
    PROVE  BookStep
  <1>1. ASSUME UNCHANGED bookVars PROVE BookStep BY <1>1 DEF BookStep
  <1>2. CASE UNCHANGED vars BY <1>1, <1>2 DEF vars
  <1>3. CASE TakeTask
    <2> DEFINE task == Head(requests)
    <2>1. /\ requests # <<>> /\ task \in Task
          /\ requests \in Seq(Task)
      <3>1. requests \in Seq(Task) BY DEF ExecInv, TraderInv, TraderTyped
      <3>2. requests # <<>> BY <1>3 DEF TakeTask
      <3> QED BY <3>1, <3>2, TailFacts
    <2>2. CASE Subscribe \/ Unsubscribe BY <2>2 DEF BookStep
    <2>3. CASE task.op = "place" /\ Place(task.order)
      <3>1. PICK r \in Requests : task.order = OrderOf(task.order.id, r)
        BY <2>1, <2>3, NextTask
      <3>2. task.order.id \in OrderIds BY <2>1, <2>3, NextTask
      <3> HIDE DEF task
      <3>3. Place(OrderOf(task.order.id, r)) BY <2>3, <3>1
      <3> QED BY <3>2, <3>3 DEF BookStep
    <2>4. CASE task.op = "cancel" /\ CancelMark(task.id)
      <3>1. task.id \in OrderIds BY <2>1, <2>4, TaskTypes
      <3> HIDE DEF task
      <3> QED BY <2>4, <3>1 DEF BookStep
    <2>5. CASE UNCHANGED bookVars BY <1>1, <2>5
    <2> QED BY <1>3, <2>2, <2>3, <2>4, <2>5 DEF TakeTask, CancelIgnored
  <1>4. CASE StrandLoop BY <1>4 DEF StrandLoop, BookStep
  <1>5. CASE Outside BY <1>5 DEF Outside, BookStep
  <1>6. CASE OnOrderUpdate BY <1>6 DEF OnOrderUpdate, Deliver, BookStep
  <1>7. CASE Trader /\ ~OnOrderUpdate
    BY <1>1, <1>7 DEF Trader, PlaceOrder, PlaceRefused, CancelOrder, StopTrader, Cancel
  <1>8. CASE RequestCancel BY <1>1, <1>8 DEF RequestCancel
  <1> QED BY <1>2, <1>3, <1>4, <1>5, <1>6, <1>7, <1>8 DEF ExecNext

LEMMA ExecKeepsBook ==
    ASSUME ExecInv, [ExecNext]_vars
    PROVE  IInv'
  <1>1. BookStep BY ExecStepIsBookStep
  <1> QED BY <1>1, StepKeeps DEF ExecInv

-----------------------------------------------------------------------------
(* The trader's part, step by step *)

\* A step that leaves the orders, the updates on their way and the trader's
\* copies alone.
LEMMA QuietStep ==
    ASSUME ExecInv, UNCHANGED <<running, orders, callbacks, view, perf, connected, lastId>>,
           requests' \in Seq(Task), NEW d \in Nat, TasksShift(d),
           algoStatus' \in {Running, Canceling, Crashed} \cup AlgoFinal,
           cancelTask' \in BOOLEAN
    PROVE  TraderInv'
  <1> USE DEF ExecInv, TraderInv
  <1>1. TraderTyped' BY DEF TraderTyped
  <1>2. NumbersKnown' BY DEF NumbersKnown
  <1>3. TasksWait'
    <2>1. \A j \in DOMAIN callbacks' :
            \E k \in DOMAIN callbacks : callbacks[k].id = callbacks'[j].id
      OBVIOUS
    <2>2. DOMAIN orders' \subseteq DOMAIN orders \cup {NoOrder} OBVIOUS
    <2>3. \A id \in DOMAIN view' : id \in DOMAIN view /\ view'[id] = view[id] OBVIOUS
    <2>4. TasksWait /\ lastId' = lastId OBVIOUS
    <2> QED BY <2>1, <2>2, <2>3, <2>4, TasksWaitKept
  <1>4. UpdatesFollow' BY DEF UpdatesFollow
  <1>5. BookRemembers' BY DEF BookRemembers
  <1> QED BY <1>1, <1>2, <1>3, <1>4, <1>5

\* The trader stops and forgets its orders.
LEMMA StopTraderKeeps ==
    ASSUME ExecInv, StopTrader
    PROVE  TraderInv'
  <1> USE DEF ExecInv, TraderInv
  <1>1. /\ view' = <<>> /\ connected' = FALSE /\ DOMAIN view' = {}
        /\ UNCHANGED <<running, orders, callbacks, perf, lastId, cancelTask>>
    BY DEF StopTrader, bookVars
  <1>2. requests' \in Seq(Task) /\ TasksShift(0)
    <2>1. requests \in Seq(Task) BY DEF TraderTyped
    <2>2. CASE requests' = Append(requests, UnsubscribeTask)
      BY <2>1, <2>2, AppendShifts, TasksOfTrader
    <2>3. CASE requests' = requests BY <2>1, <2>3, SameShifts
    <2> QED BY <2>2, <2>3 DEF StopTrader
  <1>3. algoStatus' \in AlgoFinal BY DEF StopTrader, AlgoFinal
  <1>4. TraderTyped' BY <1>1, <1>2, <1>3 DEF TraderTyped
  <1>5. NumbersKnown' BY <1>1 DEF NumbersKnown
  <1>6. TasksWait'
    <2>1. \A j \in DOMAIN callbacks' :
            \E k \in DOMAIN callbacks : callbacks[k].id = callbacks'[j].id
      BY <1>1
    <2>2. DOMAIN orders' \subseteq DOMAIN orders \cup {NoOrder} BY <1>1
    <2>3. TasksWait /\ lastId' = lastId BY <1>1
    <2> QED BY <1>1, <1>2, <2>1, <2>2, <2>3, TasksWaitKept
  <1>7. UpdatesFollow' BY <1>1 DEF UpdatesFollow
  <1>8. BookRemembers' BY <1>1 DEF BookRemembers
  <1> QED BY <1>4, <1>5, <1>6, <1>7, <1>8

\* The book stops and forgets its orders.
LEMMA StopBookKeeps ==
    ASSUME ExecInv, Stop, UNCHANGED traderVars
    PROVE  TraderInv'
  <1> USE DEF ExecInv, TraderInv
  <1>1. /\ ~running' /\ DOMAIN orders' = {} /\ UNCHANGED callbacks
        /\ UNCHANGED <<algoStatus, view, perf, connected, requests, lastId, cancelTask>>
    BY DEF Stop, traderVars
  <1>2. requests' \in Seq(Task) /\ TasksShift(0)
    BY <1>1, SameShifts DEF TraderTyped
  <1>3. TraderTyped' BY <1>1 DEF TraderTyped
  <1>4. NumbersKnown' BY <1>1 DEF NumbersKnown
  <1>5. TasksWait'
    <2>1. \A j \in DOMAIN callbacks' :
            \E k \in DOMAIN callbacks : callbacks[k].id = callbacks'[j].id
      BY <1>1
    <2>2. \A id \in DOMAIN view' : id \in DOMAIN view /\ view'[id] = view[id] BY <1>1
    <2>3. DOMAIN orders' \subseteq DOMAIN orders \cup {NoOrder} BY <1>1
    <2>4. TasksWait /\ lastId' = lastId BY <1>1
    <2> QED BY <1>1, <1>2, <2>1, <2>2, <2>3, <2>4, TasksWaitKept
  <1>6. UpdatesFollow' BY <1>1 DEF UpdatesFollow
  <1>7. BookRemembers' BY <1>1 DEF BookRemembers
  <1> QED BY <1>3, <1>4, <1>5, <1>6, <1>7

\* The trader numbers an order o and keeps a copy of it.
LEMMA NewNumber ==
    ASSUME ExecInv, NEW o, WellFormed(o), o.id = lastId + 1, lastId + 1 \in OrderIds,
           view' = With(view, lastId + 1, o), lastId' = lastId + 1,
           perf' \in Counters, requests' \in Seq(Task),
           UNCHANGED <<running, orders, callbacks, algoStatus, connected, cancelTask>>
    PROVE  /\ TraderTyped' /\ NumbersKnown' /\ UpdatesFollow' /\ BookRemembers'
           /\ DOMAIN view' = DOMAIN view \cup {lastId + 1} /\ view'[lastId + 1] = o
           /\ lastId + 1 \notin 1..lastId /\ 1..lastId' = 1..lastId \cup {lastId + 1}
           /\ \A id \in DOMAIN view : view'[id] = view[id]
  <1> USE DEF ExecInv, TraderInv
  <1> DEFINE n == lastId + 1
  <1>1. /\ lastId \in Nat /\ n \notin 1..lastId /\ n \in Nat
        /\ 1..n = 1..lastId \cup {n}
    BY DEF TraderTyped
  <1>2. /\ DOMAIN view' = DOMAIN view \cup {n} /\ view'[n] = o
        /\ \A id \in DOMAIN view : id # n /\ view'[id] = view[id]
    BY <1>1 DEF With, NumbersKnown
  <1> HIDE DEF n
  <1>3. lastId' = n /\ o.id = n /\ n \in OrderIds BY DEF n
  <1>4. TraderTyped' BY <1>1, <1>2, <1>3 DEF TraderTyped
  <1>5. NumbersKnown' BY <1>1, <1>2, <1>3 DEF NumbersKnown
  <1>6. \A i \in DOMAIN callbacks : callbacks[i].id # n
    BY <1>1 DEF NumbersKnown
  <1>7. n \notin DOMAIN orders BY <1>1 DEF NumbersKnown
  <1>8. UpdatesFollow' BY <1>2, <1>6, <1>7 DEF UpdatesFollow
  <1>9. BookRemembers' BY DEF BookRemembers
  <1> QED BY <1>1, <1>2, <1>3, <1>4, <1>5, <1>8, <1>9 DEF n

\* Asking for more of the target.
LEMMA CountersAsked ==
    ASSUME perf \in Counters, NEW q \in Int
    PROVE  [perf EXCEPT !.qty = @ + q] \in Counters
  BY DEF Counters

LEMMA PlaceOrderKeeps ==
    ASSUME ExecInv, NEW r \in Requests, PlaceOrder(r)
    PROVE  TraderInv'
  <1> USE DEF ExecInv, TraderInv
  <1> DEFINE n == lastId + 1
             o == NextOrder(r)
  <1>1. /\ n \in OrderIds /\ view' = With(view, n, o) /\ lastId' = n
        /\ requests' = Append(requests, PlaceTask(o))
        /\ perf' = [perf EXCEPT !.qty = @ + r.qty]
        /\ UNCHANGED <<running, orders, callbacks, algoStatus, connected, cancelTask>>
    BY DEF PlaceOrder, MayPlace, bookVars
  <1>2. o = OrderOf(n, r) /\ WellFormed(o) /\ o.id = n /\ r.qty \in Nat
    BY <1>1, NewIsWellFormed DEF NextOrder
  <1> HIDE DEF n, o
  <1>3. PlaceTask(o) \in Task /\ PlaceTask(o).op = "place" /\ PlaceTask(o).order = o
    BY <1>2, TasksOfTrader DEF WellFormed
  <1>4. /\ requests \in Seq(Task) /\ Len(requests) \in Nat
        /\ DOMAIN requests = 1..Len(requests)
        /\ requests' \in Seq(Task) /\ DOMAIN requests' = 1..(Len(requests) + 1)
        /\ \A i \in 1..Len(requests) : requests'[i] = requests[i]
        /\ requests'[Len(requests) + 1] = PlaceTask(o)
    <2>1. requests \in Seq(Task) BY DEF TraderTyped
    <2> QED BY <1>1, <1>3, <2>1, AppendFacts
  <1>5. perf' \in Counters BY <1>1, <1>2, CountersAsked DEF TraderTyped
  <1>6. /\ TraderTyped' /\ NumbersKnown' /\ UpdatesFollow' /\ BookRemembers'
        /\ DOMAIN view' = DOMAIN view \cup {n} /\ view'[n] = o
        /\ n \notin 1..lastId /\ 1..lastId' = 1..lastId \cup {n}
        /\ \A id \in DOMAIN view : view'[id] = view[id]
    BY <1>1, <1>2, <1>4, <1>5, NewNumber DEF n
  <1>7. ASSUME NEW i \in PlaceTasks'
        PROVE  \/ i \in PlaceTasks /\ requests'[i] = requests[i]
                  /\ requests[i].order.id \in 1..lastId
               \/ i = Len(requests) + 1 /\ requests'[i].order = o
    <2>1. i \in 1..Len(requests) \/ i = Len(requests) + 1
      BY <1>4 DEF PlaceTasks
    <2>2. i \in 1..Len(requests) => i \in PlaceTasks BY <1>4 DEF PlaceTasks
    <2> QED BY <1>3, <1>4, <2>1, <2>2 DEF TasksWait
  <1>8. TasksWait'
    <2> SUFFICES
          ASSUME NEW i \in PlaceTasks'
          PROVE  LET p == requests'[i].order IN
                 /\ p.id \in OrderIds /\ p.id \in 1..lastId'
                 /\ \E t \in Requests : p = OrderOf(p.id, t)
                 /\ p.id \notin DOMAIN orders'
                 /\ p.id \in DOMAIN view' => view'[p.id] = p
                 /\ \A j \in DOMAIN callbacks' : callbacks'[j].id # p.id
                 /\ \A k \in PlaceTasks' : requests'[k].order.id = p.id => k = i
      BY DEF TasksWait
    <2>1. CASE i \in PlaceTasks /\ requests'[i] = requests[i]
               /\ requests[i].order.id \in 1..lastId
      <3> DEFINE p == requests[i].order
      <3>1. /\ p.id \in OrderIds /\ p.id \in 1..lastId /\ p.id # n
            /\ \E t \in Requests : p = OrderOf(p.id, t)
            /\ p.id \notin DOMAIN orders
            /\ p.id \in DOMAIN view => view[p.id] = p
            /\ \A j \in DOMAIN callbacks : callbacks[j].id # p.id
            /\ \A k \in PlaceTasks : requests[k].order.id = p.id => k = i
        BY <1>6, <2>1 DEF TasksWait
      <3>2. requests'[i].order = p BY <2>1
      <3> HIDE DEF p
      <3>3. \A k \in PlaceTasks' : requests'[k].order.id = p.id => k = i
        BY <1>2, <1>7, <3>1
      <3>4. p.id \in DOMAIN view' => view'[p.id] = p BY <1>6, <3>1
      <3>5. p.id \in 1..lastId' BY <1>6, <3>1
      <3> QED BY <1>1, <3>1, <3>2, <3>3, <3>4, <3>5
    <2>2. CASE i = Len(requests) + 1 /\ requests'[i].order = o
      <3>1. \A k \in PlaceTasks' : requests'[k].order.id = n => k = i
        BY <1>2, <1>6, <1>7, <2>2
      <3>2. n \notin DOMAIN orders /\ \A j \in DOMAIN callbacks : callbacks[j].id # n
        BY <1>6 DEF NumbersKnown
      <3> QED BY <1>1, <1>2, <1>6, <2>2, <3>1, <3>2
    <2> QED BY <1>7, <2>1, <2>2
  <1> QED BY <1>6, <1>8

\* An order the stopped book refuses.
LEMMA RefusedIsWellFormed ==
    ASSUME NEW id \in OrderIds, NEW r \in Requests
    PROVE  LET o == [OrderOf(id, r) EXCEPT !.status = REJECTED]
           IN  /\ WellFormed(o) /\ o.id = id /\ ~IsNewerThan(o, o)
               /\ o.orderQty = r.qty /\ o.filledQty = 0 /\ o.status = REJECTED
  <1> DEFINE o == OrderOf(id, r)
             p == [o EXCEPT !.status = REJECTED]
  <1>1. WellFormed(o) /\ o.id = id /\ o.orderQty = r.qty /\ o.filledQty = 0
        /\ o.status = UNSENT
    BY NewIsWellFormed
  <1> HIDE DEF o
  <1>2. /\ p.id = id /\ p.orderQty = r.qty /\ p.filledQty = 0 /\ p.status = REJECTED
        /\ p.cancelQty = o.cancelQty /\ p \in Order
    BY <1>1, StatusKinds DEF WellFormed, Order
  <1> HIDE DEF p
  <1>3. IsFinal(p) BY <1>2, StatusKinds DEF IsFinal
  <1>4. UNSENT \notin {FILLED, CANCELED, PARTIALCANCEL}
        /\ REJECTED \notin {FILLED, CANCELED, PARTIALCANCEL}
    BY StatusKinds
  <1>5. WellFormed(p) BY <1>1, <1>2, <1>4 DEF WellFormed
  <1> QED BY <1>2, <1>3, <1>5 DEF IsNewerThan, o, p

LEMMA PlaceRefusedKeeps ==
    ASSUME ExecInv, NEW r \in Requests, PlaceRefused(r)
    PROVE  TraderInv'
  <1> USE DEF ExecInv, TraderInv
  <1> DEFINE n == lastId + 1
             o == [OrderOf(n, r) EXCEPT !.status = REJECTED]
  <1>1. /\ n \in OrderIds /\ view' = With(view, n, o) /\ lastId' = n
        /\ UNCHANGED <<running, orders, callbacks, algoStatus, connected, cancelTask,
                       requests>>
        /\ perf' = IF IsNewerThan(o, o)
                   THEN Recorded([perf EXCEPT !.qty = @ + r.qty], o, o)
                   ELSE [perf EXCEPT !.qty = @ + r.qty]
    BY DEF PlaceRefused, MayPlace, bookVars, NextOrder
  <1>2. WellFormed(o) /\ o.id = n /\ ~IsNewerThan(o, o)
    BY <1>1, RefusedIsWellFormed
  <1>3. r.qty \in Nat BY <1>1, NewIsWellFormed
  <1> HIDE DEF n, o
  <1>4. requests' \in Seq(Task) BY <1>1 DEF TraderTyped
  <1>5. perf' \in Counters BY <1>1, <1>2, <1>3, CountersAsked DEF TraderTyped
  <1>6. /\ TraderTyped' /\ NumbersKnown' /\ UpdatesFollow' /\ BookRemembers'
        /\ DOMAIN view' = DOMAIN view \cup {n} /\ view'[n] = o
        /\ n \notin 1..lastId /\ 1..lastId' = 1..lastId \cup {n}
        /\ \A id \in DOMAIN view : view'[id] = view[id]
    BY <1>1, <1>2, <1>4, <1>5, NewNumber DEF n
  <1>7. TasksWait'
    <2> SUFFICES
          ASSUME NEW i \in PlaceTasks'
          PROVE  LET p == requests'[i].order IN
                 /\ p.id \in OrderIds /\ p.id \in 1..lastId'
                 /\ \E t \in Requests : p = OrderOf(p.id, t)
                 /\ p.id \notin DOMAIN orders'
                 /\ p.id \in DOMAIN view' => view'[p.id] = p
                 /\ \A j \in DOMAIN callbacks' : callbacks'[j].id # p.id
                 /\ \A k \in PlaceTasks' : requests'[k].order.id = p.id => k = i
      BY DEF TasksWait
    <2> DEFINE p == requests[i].order
    <2>1. PlaceTasks' = PlaceTasks /\ requests'[i].order = p
      BY <1>1 DEF PlaceTasks
    <2>2. /\ p.id \in OrderIds /\ p.id \in 1..lastId /\ p.id # n
          /\ \E t \in Requests : p = OrderOf(p.id, t)
          /\ p.id \notin DOMAIN orders
          /\ p.id \in DOMAIN view => view[p.id] = p
          /\ \A j \in DOMAIN callbacks : callbacks[j].id # p.id
          /\ \A k \in PlaceTasks : requests[k].order.id = p.id => k = i
      BY <1>6, <2>1 DEF TasksWait
    <2> HIDE DEF p
    <2>3. p.id \in DOMAIN view' => view'[p.id] = p BY <1>6, <2>2
    <2>4. p.id \in 1..lastId' BY <1>6, <2>2
    <2>5. \A k \in PlaceTasks' : requests'[k].order.id = p.id => k = i
      BY <1>1, <2>1, <2>2
    <2> QED BY <1>1, <2>1, <2>2, <2>3, <2>4, <2>5
  <1> QED BY <1>6, <1>7

\* What an update is compared with is an order.
LEMMA PreOrderType ==
    ASSUME TraderTyped, NEW o \in Order
    PROVE  PreOrder(o) \in Order
  <1>1. UnknownPre(o) \in Order
    <2>1. REPORTING \in OrderStatus BY StatusKinds
    <2> DEFINE a == [o EXCEPT !.status = REPORTING]
               b == [a EXCEPT !.filledQty = 0]
               c == [b EXCEPT !.filledAmt = 0]
               d == [c EXCEPT !.cancelQty = 0]
    <2>2. UnknownPre(o) = d BY DEF UnknownPre
    <2>3. a \in Order BY <2>1 DEF Order
    <2> HIDE DEF a
    <2>4. b \in Order BY <2>3 DEF Order
    <2> HIDE DEF b
    <2>5. c \in Order BY <2>4 DEF Order
    <2> HIDE DEF c
    <2>6. d \in Order BY <2>5 DEF Order
    <2> QED BY <2>2, <2>6
  <1>2. o.id \in DOMAIN view => view[o.id] \in Order BY DEF TraderTyped, WellFormed
  <1> QED BY <1>1, <1>2 DEF PreOrder

LEMMA RecordedType ==
    ASSUME NEW p \in Counters, NEW o \in Order, NEW pre \in Order
    PROVE  Recorded(p, o, pre) \in Counters
  <1>1. /\ o.filledQty \in Int /\ pre.filledQty \in Int /\ o.orderQty \in Int
        /\ o.cancelQty \in Int
    BY OrderNumbers
  <1>2. /\ p.qty \in Int /\ p.qtyFilled \in Int /\ p.qtyCanceled \in Int
        /\ p.qtyRejected \in Int /\ p.orderCntFilled \in Int
        /\ p.orderCntCanceled \in Int /\ p.orderCntRejected \in Int
    BY DEF Counters
  <1> QED BY <1>1, <1>2 DEF Recorded, Counters

\* What the trader makes of an update, and what is left in the queue.
LEMMA UpdateEffect ==
    ASSUME ExecInv, OnOrderUpdate
    PROVE  LET u == Head(callbacks) IN
           /\ callbacks \in Seq(Order) /\ callbacks # <<>>
           /\ 1 \in DOMAIN callbacks /\ u = callbacks[1]
           /\ u \in Order /\ WellFormed(u) /\ u.id \in OrderIds
           /\ \A i \in DOMAIN callbacks' : i + 1 \in DOMAIN callbacks /\ 1 < i + 1 /\ i \in Nat
           /\ \A i \in DOMAIN callbacks' : callbacks'[i] = callbacks[i + 1]
           /\ \/ view' = view /\ perf' = perf /\ ~IsNewerThan(u, PreOrder(u))
              \/ /\ DOMAIN view' = DOMAIN view \cup {u.id} /\ view'[u.id] = u
                 /\ \A id \in DOMAIN view : id # u.id => view'[id] = view[id]
                 /\ perf' = Recorded(perf, u, PreOrder(u))
                 /\ IsNewerThan(u, PreOrder(u))
           /\ UNCHANGED <<running, orders, connected, requests, lastId, algoStatus,
                          cancelTask>>
  <1> DEFINE u == Head(callbacks)
  <1>1. callbacks \in Seq(Order) /\ callbacks # <<>> /\ callbacks' = Tail(callbacks)
    BY DEF ExecInv, IInv, TypeOK, OnOrderUpdate
  <1>2. /\ u \in Order /\ 1 \in DOMAIN callbacks /\ u = callbacks[1]
        /\ \A i \in DOMAIN callbacks' : i \in Nat /\ i >= 1
        /\ \A i \in DOMAIN callbacks' : i + 1 \in DOMAIN callbacks
        /\ \A i \in DOMAIN callbacks' : callbacks'[i] = callbacks[i + 1]
    BY <1>1, TailFacts
  <1>3. \A i \in DOMAIN callbacks' : 1 < i + 1 BY <1>2
  <1>4. WellFormed(u) BY <1>2 DEF ExecInv, TraderInv, UpdatesFollow
  <1>5. u.id \in OrderIds BY <1>2 DEF Order
  <1>6. /\ IF IsNewerThan(u, PreOrder(u))
           THEN view' = With(view, u.id, u) /\ perf' = Recorded(perf, u, PreOrder(u))
           ELSE UNCHANGED <<view, perf>>
        /\ UNCHANGED <<running, orders, connected, requests, lastId, algoStatus,
                       cancelTask>>
    BY DEF OnOrderUpdate
  <1> HIDE DEF u
  <1>7. view' = With(view, u.id, u) =>
          /\ DOMAIN view' = DOMAIN view \cup {u.id} /\ view'[u.id] = u
          /\ \A id \in DOMAIN view : id # u.id => view'[id] = view[id]
    BY DEF With
  <1>8. \A i \in DOMAIN callbacks' : i + 1 \in DOMAIN callbacks /\ 1 < i + 1 /\ i \in Nat
    BY <1>2, <1>3
  <1> QED BY <1>1, <1>2, <1>4, <1>5, <1>6, <1>7, <1>8 DEF u

LEMMA OnOrderUpdateKeeps ==
    ASSUME ExecInv, OnOrderUpdate
    PROVE  TraderInv'
  <1> USE DEF ExecInv, TraderInv
  <1> DEFINE u == Head(callbacks)
  <1>1. /\ callbacks \in Seq(Order) /\ callbacks # <<>>
        /\ 1 \in DOMAIN callbacks /\ u = callbacks[1]
        /\ u \in Order /\ WellFormed(u) /\ u.id \in OrderIds
        /\ \A i \in DOMAIN callbacks' : i + 1 \in DOMAIN callbacks /\ 1 < i + 1 /\ i \in Nat
        /\ \A i \in DOMAIN callbacks' : callbacks'[i] = callbacks[i + 1]
        /\ UNCHANGED <<running, orders, connected, requests, lastId, algoStatus,
                       cancelTask>>
    BY UpdateEffect
  <1>2. \/ view' = view /\ perf' = perf
        \/ /\ DOMAIN view' = DOMAIN view \cup {u.id} /\ view'[u.id] = u
           /\ \A id \in DOMAIN view : id # u.id => view'[id] = view[id]
           /\ perf' = Recorded(perf, u, PreOrder(u))
    BY UpdateEffect
  <1> HIDE DEF u
  <1>3. u.id \in 1..lastId BY <1>1 DEF NumbersKnown
  <1>4. perf' \in Counters
    BY <1>1, <1>2, PreOrderType, RecordedType DEF TraderTyped
  <1>5. TraderTyped' BY <1>1, <1>2, <1>4 DEF TraderTyped
  <1>6. NumbersKnown'
    <2>1. \A i \in DOMAIN callbacks' : callbacks'[i].id \in 1..lastId
      BY <1>1 DEF NumbersKnown
    <2>2. DOMAIN view' \subseteq 1..lastId /\ (connected => DOMAIN view' = 1..lastId)
      BY <1>2, <1>3 DEF NumbersKnown
    <2> QED BY <1>1, <2>1, <2>2 DEF NumbersKnown
  <1>7. TasksWait'
    <2>1. \A j \in DOMAIN callbacks' :
            \E k \in DOMAIN callbacks : callbacks[k].id = callbacks'[j].id
      BY <1>1
    <2>2. DOMAIN orders' \subseteq DOMAIN orders \cup {NoOrder} BY <1>1
    <2>3. \A id \in DOMAIN view' :
            \/ id \in DOMAIN view /\ view'[id] = view[id]
            \/ \E j \in DOMAIN callbacks : callbacks[j].id = id
      BY <1>1, <1>2
    <2>4. requests' \in Seq(Task) /\ TasksShift(0)
      BY <1>1, SameShifts DEF TraderTyped
    <2>5. TasksWait /\ lastId' = lastId BY <1>1
    <2> QED BY <2>1, <2>2, <2>3, <2>4, <2>5, TasksWaitKept
  <1>8. UpdatesFollow'
    <2>1. \A i \in DOMAIN callbacks' :
            WellFormed(callbacks'[i]) /\ callbacks'[i].status \notin {UNSENT, REPORTING}
      BY <1>1 DEF UpdatesFollow
    <2>2. ASSUME NEW i \in DOMAIN callbacks', NEW j \in DOMAIN callbacks', i < j,
                 callbacks'[i].id = callbacks'[j].id
          PROVE  Follows(callbacks'[i], callbacks'[j])
      <3>1. i + 1 < j + 1 BY <1>1, <2>2
      <3> QED BY <1>1, <2>2, <3>1 DEF UpdatesFollow
    <2>3. ASSUME NEW i \in DOMAIN callbacks', callbacks'[i].id \in DOMAIN view'
          PROVE  Follows(view'[callbacks'[i].id], callbacks'[i])
      <3>1. i + 1 \in DOMAIN callbacks /\ 1 < i + 1 /\ callbacks'[i] = callbacks[i + 1]
        BY <1>1
      <3>2. CASE /\ callbacks'[i].id \in DOMAIN view
                 /\ view'[callbacks'[i].id] = view[callbacks'[i].id]
        BY <3>1, <3>2 DEF UpdatesFollow
      <3>3. CASE callbacks'[i].id = u.id /\ view'[callbacks'[i].id] = u
        BY <1>1, <3>1, <3>3 DEF UpdatesFollow
      <3> QED BY <1>2, <2>3, <3>2, <3>3
    <2>4. \A i \in DOMAIN callbacks' : callbacks'[i].id \in DOMAIN orders =>
            Follows(callbacks'[i], orders[callbacks'[i].id])
      BY <1>1 DEF UpdatesFollow
    <2>5. ASSUME NEW id \in DOMAIN view' \cap DOMAIN orders
          PROVE  Follows(view'[id], orders[id])
      <3>1. CASE id \in DOMAIN view /\ view'[id] = view[id]
        BY <3>1 DEF UpdatesFollow
      <3>2. CASE id = u.id /\ view'[id] = u BY <1>1, <3>2 DEF UpdatesFollow
      <3> QED BY <1>2, <3>1, <3>2
    <2>6. \A id \in DOMAIN orders : orders[id].status # REPORTING
      BY DEF UpdatesFollow
    <2> QED BY <1>1, <2>1, <2>2, <2>3, <2>4, <2>5, <2>6 DEF UpdatesFollow
  <1>9. BookRemembers' BY <1>1 DEF BookRemembers
  <1> QED BY <1>5, <1>6, <1>7, <1>8, <1>9

\* An order of the book moves on (MoveFollows) while the strand takes the trader's
\* next task or goes on with its loop.
LEMMA MoveKeeps ==
    ASSUME ExecInv, UpdatesFollow', NEW id \in DOMAIN orders, NEW p, p.id = id,
           DOMAIN orders' = DOMAIN orders,
           NEW n \in Nat, DOMAIN callbacks = 1..n,
           \A k \in DOMAIN callbacks' :
               callbacks'[k] = p \/ (k \in 1..n /\ callbacks'[k] = callbacks[k]),
           UNCHANGED <<running, view, perf, connected, lastId, algoStatus, cancelTask>>,
           requests' \in Seq(Task), NEW d \in Nat, TasksShift(d)
    PROVE  TraderInv'
  <1> USE DEF ExecInv, TraderInv
  <1>1. \A k \in DOMAIN callbacks' :
          \/ callbacks'[k].id = id
          \/ \E j \in DOMAIN callbacks : callbacks[j].id = callbacks'[k].id
    OBVIOUS
  <1>2. TraderTyped' BY DEF TraderTyped
  <1>3. id \in 1..lastId BY DEF NumbersKnown
  <1>4. NumbersKnown' BY <1>1, <1>3 DEF NumbersKnown
  <1>5. TasksWait'
    <2>1. \A j \in DOMAIN callbacks' :
            \/ callbacks'[j].id \in DOMAIN orders \cup {NoOrder}
            \/ \E k \in DOMAIN callbacks : callbacks[k].id = callbacks'[j].id
      BY <1>1
    <2>2. DOMAIN orders' \subseteq DOMAIN orders \cup {NoOrder} OBVIOUS
    <2>3. \A i \in DOMAIN view' : i \in DOMAIN view /\ view'[i] = view[i] OBVIOUS
    <2>4. TasksWait /\ lastId' = lastId OBVIOUS
    <2> QED BY <2>1, <2>2, <2>3, <2>4, TasksWaitKept
  <1>6. BookRemembers' BY <1>1 DEF BookRemembers
  <1> QED BY <1>2, <1>4, <1>5, <1>6

\* The updates on their way have places.
LEMMA Places ==
    ASSUME ExecInv
    PROVE  /\ callbacks \in Seq(Order) /\ Len(callbacks) \in Nat
           /\ DOMAIN callbacks = 1..Len(callbacks)
  BY LenProperties DEF ExecInv, IInv, TypeOK

\* Publishing an order adds at most one update at the end.
LEMMA Published ==
    ASSUME NEW q, q \in Seq(Order), NEW p \in Order, NEW b,
           b = Append(q, p) \/ b = q
    PROVE  \A k \in DOMAIN b : \/ k \in 1..Len(q) /\ b[k] = q[k]
                               \/ k = Len(q) + 1 /\ b[k] = p
  <1>1. /\ Len(q) \in Nat /\ DOMAIN q = 1..Len(q) BY LenProperties
  <1>2. CASE b = q BY <1>1, <1>2
  <1>3. CASE b = Append(q, p)
    <2>1. /\ DOMAIN b = 1..(Len(q) + 1)
          /\ \A i \in 1..Len(q) : b[i] = q[i]
          /\ b[Len(q) + 1] = p
      BY <1>3, AppendFacts
    <2> QED BY <1>1, <2>1
  <1> QED BY <1>2, <1>3

\* A step of the loop takes no task.
LEMMA LoopTakesNoTask ==
    ASSUME ExecInv, UNCHANGED traderVars
    PROVE  /\ requests' \in Seq(Task) /\ TasksShift(0)
           /\ UNCHANGED <<view, perf, connected, lastId, algoStatus, cancelTask>>
  BY SameShifts DEF ExecInv, TraderInv, TraderTyped, traderVars

\* ... and one that answers the trader takes the first.
LEMMA TaskIsTaken ==
    ASSUME ExecInv, TakeTask
    PROVE  /\ requests' \in Seq(Task) /\ TasksShift(1) /\ requests # <<>>
           /\ requests \in Seq(Task) /\ requests' = Tail(requests)
           /\ Head(requests) \in Task
           /\ UNCHANGED <<view, perf, connected, lastId, algoStatus, cancelTask>>
  <1>1. requests \in Seq(Task) /\ requests # <<>> /\ requests' = Tail(requests)
    BY DEF ExecInv, TraderInv, TraderTyped, TakeTask
  <1>2. UNCHANGED <<view, perf, connected, lastId, algoStatus, cancelTask>>
    BY DEF TakeTask
  <1> QED BY <1>1, <1>2, TailShifts, TailFacts

LEMMA MatchUpdatesKeepsTrader ==
    ASSUME ExecInv, IInv', NEW id \in matching, MatchUpdates(id), UNCHANGED traderVars
    PROVE  TraderInv'
  <1> USE DEF ExecInv, TraderInv
  <1> DEFINE o == orders[id]
             q == queueVol[id]
             md == mds[orders[id].symbol]
             p == Match(o, q, md).order
             n == Len(callbacks)
  <1>1. /\ canceling = NoOrder /\ id \in DOMAIN orders /\ id \in OrderIds
        /\ id \in Unfinished /\ q \in Int /\ md \in MarketDepth
    BY MatchingFacts DEF IInv, TypeOK, Unfinished
  <1>2. Matchable(o) /\ o.cancelQty = 0
    <2>1. id # canceling BY <1>1, NoOrderIsNone
    <2> QED BY <1>1, <2>1, RestingIsMatchable
  <1>3. o.status # REPORTING /\ o.id = id BY <1>1 DEF UpdatesFollow, IInv, TypeOK
  <1>4. /\ IsNewerThan(p, o) /\ orders' = [orders EXCEPT ![id] = p]
        /\ callbacks' = IF subscribed THEN Append(callbacks, p) ELSE callbacks
        /\ UNCHANGED running
    BY DEF MatchUpdates, Publish
  <1> HIDE DEF md, q
  <1>5. /\ WellFormed(p) /\ Follows(o, p) /\ p.id = o.id
        /\ p.status \notin {UNSENT, REPORTING}
    BY <1>1, <1>2, <1>3, <1>4, MatchFollows
  <1> HIDE DEF p
  <1>6. /\ callbacks \in Seq(Order) /\ n \in Nat /\ DOMAIN callbacks = 1..n BY Places
  <1>7. \A k \in DOMAIN callbacks' : \/ k \in 1..n /\ callbacks'[k] = callbacks[k]
                                     \/ k = n + 1 /\ callbacks'[k] = p
    <2>1. p \in Order BY <1>5 DEF WellFormed
    <2>2. callbacks' = Append(callbacks, p) \/ callbacks' = callbacks BY <1>4
    <2> QED BY <1>6, <2>1, <2>2, Published
  <1>8. /\ DOMAIN orders' = DOMAIN orders /\ orders'[id] = p
        /\ \A k \in DOMAIN orders : k # id => orders'[k] = orders[k]
    BY <1>1, <1>4
  <1>9. /\ requests' \in Seq(Task) /\ TasksShift(0)
        /\ UNCHANGED <<view, perf, connected, lastId, algoStatus, cancelTask>>
    BY LoopTakesNoTask
  <1>10. \A i, j \in 1..n :
           (i < j /\ callbacks[i] = o /\ callbacks'[i] = p /\ callbacks[j].id = id)
               => Follows(p, callbacks'[j])
    <2> SUFFICES ASSUME NEW i \in 1..n, NEW j \in 1..n, i < j, callbacks[i] = o,
                        callbacks'[i] = p, callbacks[j].id = id
                 PROVE  Follows(p, callbacks'[j])
      OBVIOUS
    <2>1. /\ i \in DOMAIN callbacks' => callbacks'[i] = callbacks[i]
          /\ j \in DOMAIN callbacks' /\ i \in DOMAIN callbacks'
          /\ callbacks'[j] = callbacks[j]
      <3>1. /\ \A k \in 1..n : k \in DOMAIN callbacks'
        <4>1. CASE callbacks' = callbacks BY <1>6, <4>1
        <4>2. CASE callbacks' = Append(callbacks, p)
          <5>1. p \in Order BY <1>5 DEF WellFormed
          <5>2. DOMAIN callbacks' = 1..(n + 1) BY <1>6, <4>2, <5>1, AppendFacts
          <5> QED BY <1>6, <5>2
        <4> QED BY <1>4, <4>1, <4>2
      <3> QED BY <1>6, <1>7, <3>1
    <2>2. Follows(callbacks[i], callbacks[j])
      BY <1>3, <1>6 DEF UpdatesFollow
    <2> QED BY <2>1, <2>2
  <1>11. UpdatesFollow'
    <2>1. TypeOK /\ TypeOK' BY DEF IInv
    <2>2. \A k \in DOMAIN callbacks' :
            \/ k \in 1..n /\ callbacks'[k] = callbacks[k]
            \/ k \in 1..n /\ callbacks[k] = o /\ callbacks'[k] = p
            \/ k = n + 1 /\ callbacks'[k] = p
      BY <1>7
    <2> HIDE DEF n
    <2>3. view' = view BY <1>9
    <2> QED BY <1>1, <1>3, <1>5, <1>6, <1>8, <1>10, <2>1, <2>2, <2>3, MoveFollows
  <1>12. \A k \in DOMAIN callbacks' :
           callbacks'[k] = p \/ (k \in 1..n /\ callbacks'[k] = callbacks[k])
    BY <1>7
  <1>13. p.id = id BY <1>3, <1>5
  <1> HIDE DEF n, o, ExecInv, TraderInv
  <1> QED BY <1>1, <1>4, <1>6, <1>8, <1>9, <1>11, <1>12, <1>13, MoveKeeps

\* Writing into the order an update points to moves the update too: those that
\* are the order, wherever they are in the queue, become what it becomes.
LEMMA WriteThrough ==
    ASSUME NEW q, q \in Seq(Order), NEW o, NEW p \in Order, NEW b,
           LET w == [i \in DOMAIN q |-> IF q[i] = o THEN p ELSE q[i]]
           IN  b = w \/ b = Append(w, p)
    PROVE  \A k \in DOMAIN b :
             \/ k \in 1..Len(q) /\ q[k] # o /\ b[k] = q[k]
             \/ k \in 1..Len(q) /\ q[k] = o /\ b[k] = p
             \/ k = Len(q) + 1 /\ b[k] = p
  <1> DEFINE w == [i \in DOMAIN q |-> IF q[i] = o THEN p ELSE q[i]]
  <1>1. Len(q) \in Nat /\ DOMAIN q = 1..Len(q) BY LenProperties
  <1>2. w \in Seq(Order) BY MarkedQueue
  <1>3. DOMAIN w = 1..Len(q) /\ \A k \in 1..Len(q) : w[k] = IF q[k] = o THEN p ELSE q[k]
    BY <1>1
  <1> HIDE DEF w
  <1>4. Len(w) = Len(q)
    <2>1. Len(w) \in Nat /\ DOMAIN w = 1..Len(w) BY <1>2, LenProperties
    <2> QED BY <1>1, <1>3, <2>1
  <1>5. b = Append(w, p) \/ b = w BY DEF w
  <1>6. \A k \in DOMAIN b : \/ k \in 1..Len(q) /\ b[k] = w[k]
                            \/ k = Len(q) + 1 /\ b[k] = p
    BY <1>2, <1>4, <1>5, Published
  <1> QED BY <1>3, <1>6

LEMMA MarkFollows ==
    ASSUME NEW o, WellFormed(o), ~IsFinal(o), NEW status \in {CANCELED, PARTIALCANCEL}
    PROVE  LET p == [o EXCEPT !.status = status]
           IN  /\ WellFormed(p) /\ Follows(o, p) /\ p.id = o.id
               /\ p.status \notin {UNSENT, REPORTING}
  <1> DEFINE p == [o EXCEPT !.status = status]
  <1>1. o \in Order /\ status \in OrderStatus /\ status \in FinalStatus
    BY StatusKinds DEF WellFormed
  <1>2. /\ p \in Order /\ p.id = o.id /\ p.status = status /\ p.orderQty = o.orderQty
        /\ p.filledQty = o.filledQty /\ p.cancelQty = o.cancelQty /\ SameTerms(o, p)
    BY <1>1 DEF Order, SameTerms
  <1> HIDE DEF p
  <1>3. o.status \notin {FILLED, CANCELED, PARTIALCANCEL}
    BY StatusKinds DEF IsFinal
  <1>4. status \notin {FILLED, REJECTED, UNSENT, REPORTING} BY StatusKinds
  <1>5. WellFormed(p) BY <1>2, <1>3, <1>4 DEF WellFormed
  <1>6. o.filledQty \in Nat BY <1>1, OrderNumbers
  <1>7. IsFinal(p) BY <1>1, <1>2 DEF IsFinal
  <1>8. Follows(o, p) BY <1>2, <1>4, <1>6, <1>7 DEF Follows
  <1> QED BY <1>2, <1>4, <1>5, <1>8 DEF p

LEMMA CancelMarkKeepsTrader ==
    ASSUME ExecInv, IInv', NEW id \in OrderIds, CancelMark(id),
           UNCHANGED <<view, perf, connected, lastId, algoStatus, cancelTask>>,
           requests' \in Seq(Task), NEW d \in Nat, TasksShift(d)
    PROVE  TraderInv'
  <1> USE DEF ExecInv, TraderInv
  <1> DEFINE o == orders[id]
             status == IF o.filledQty = 0 THEN CANCELED ELSE PARTIALCANCEL
             p == [o EXCEPT !.status = status]
             n == Len(callbacks)
  <1>1. /\ id \in DOMAIN orders /\ ~IsFinal(o) /\ canceling = NoOrder
        /\ orders' = [orders EXCEPT ![id] = p] /\ UNCHANGED running
        /\ callbacks' = [i \in DOMAIN callbacks |->
                          IF callbacks[i] = o THEN p ELSE callbacks[i]]
    BY DEF CancelMark, Cancelable, Idle
  <1>2. o \in Order /\ o.id = id BY <1>1 DEF IInv, TypeOK
  <1>3. WellFormed(o)
    <2>1. o.status \notin {CANCELED, PARTIALCANCEL, REJECTED}
      BY <1>1, StatusKinds DEF IsFinal
    <2> QED BY <1>1, <1>2, <2>1 DEF WellFormed, IInv, QuantitiesMatchStatus
  <1> HIDE DEF status
  <1>4. status \in {CANCELED, PARTIALCANCEL} BY DEF status
  <1>5. /\ WellFormed(p) /\ Follows(o, p) /\ p.id = id
        /\ p.status \notin {UNSENT, REPORTING} /\ p \in Order
    <2> HIDE DEF o
    <2> QED BY <1>1, <1>2, <1>3, <1>4, MarkFollows DEF WellFormed
  <1> HIDE DEF p
  <1>6. /\ callbacks \in Seq(Order) /\ n \in Nat /\ DOMAIN callbacks = 1..n BY Places
  <1>7. \A k \in DOMAIN callbacks' :
          \/ k \in 1..n /\ callbacks[k] # o /\ callbacks'[k] = callbacks[k]
          \/ k \in 1..n /\ callbacks[k] = o /\ callbacks'[k] = p
          \/ k = n + 1 /\ callbacks'[k] = p
    <2> HIDE DEF o
    <2> QED BY <1>1, <1>5, <1>6, WriteThrough
  <1>8. /\ DOMAIN orders' = DOMAIN orders /\ orders'[id] = p
        /\ \A k \in DOMAIN orders : k # id => orders'[k] = orders[k]
    BY <1>1
  <1>9. \A i, j \in 1..n :
          (i < j /\ callbacks[i] = o /\ callbacks'[i] = p /\ callbacks[j].id = id)
              => Follows(p, callbacks'[j])
    <2> SUFFICES ASSUME NEW i \in 1..n, NEW j \in 1..n, i < j, callbacks[i] = o,
                        callbacks[j].id = id
                 PROVE  Follows(p, callbacks'[j])
      OBVIOUS
    <2>1. Follows(o, callbacks[j]) /\ Follows(callbacks[j], o)
      BY <1>1, <1>2, <1>6 DEF UpdatesFollow
    <2>2. callbacks[j].status # UNSENT /\ callbacks[j] \in Order
      BY <1>6 DEF UpdatesFollow, WellFormed
    <2>3. callbacks[j].filledQty = o.filledQty
      BY <1>2, <2>1, <2>2, OrderNumbers DEF Follows
    <2>4. callbacks[j] = o BY <1>1, <2>1, <2>2, <2>3 DEF Follows
    <2>5. callbacks'[j] = p BY <1>1, <1>6, <2>4
    <2> QED BY <1>5, <2>5, FollowsItself
  <1>10. UpdatesFollow'
    <2>1. TypeOK /\ TypeOK' BY DEF IInv
    <2>2. \A k \in DOMAIN callbacks' :
            \/ k \in 1..n /\ callbacks'[k] = callbacks[k]
            \/ k \in 1..n /\ callbacks[k] = o /\ callbacks'[k] = p
            \/ k = n + 1 /\ callbacks'[k] = p
      BY <1>7
    <2> HIDE DEF n
    <2> QED BY <1>1, <1>5, <1>6, <1>8, <1>9, <2>1, <2>2, MoveFollows
  <1>11. \A k \in DOMAIN callbacks' :
           callbacks'[k] = p \/ (k \in 1..n /\ callbacks'[k] = callbacks[k])
    BY <1>7
  <1> HIDE DEF n, o, ExecInv, TraderInv
  <1> QED BY <1>1, <1>5, <1>6, <1>8, <1>10, <1>11, MoveKeeps

\* The cancelled quantity is written into an order that has been marked.
LEMMA FinishFollows ==
    ASSUME NEW o, WellFormed(o), o.status \in {CANCELED, PARTIALCANCEL}
    PROVE  LET p == [o EXCEPT !.cancelQty = o.orderQty - o.filledQty]
           IN  /\ WellFormed(p) /\ Follows(o, p) /\ p.id = o.id
               /\ p.status \notin {UNSENT, REPORTING}
               /\ \A x \in Order : Follows(o, x) => Follows(p, x)
  <1> DEFINE p == [o EXCEPT !.cancelQty = o.orderQty - o.filledQty]
  <1>1. /\ o \in Order /\ o.filledQty \in Nat /\ o.orderQty \in Nat
        /\ o.orderQty - o.filledQty \in Int
    BY OrderNumbers DEF WellFormed
  <1>2. /\ p \in Order /\ p.id = o.id /\ p.status = o.status /\ p.orderQty = o.orderQty
        /\ p.filledQty = o.filledQty /\ p.cancelQty = o.orderQty - o.filledQty
        /\ p.symbol = o.symbol /\ p.buy = o.buy /\ p.price = o.price
    BY <1>1 DEF Order
  <1> HIDE DEF p
  <1>3. o.status \notin {FILLED, REJECTED, UNSENT, REPORTING} /\ IsFinal(o) /\ IsFinal(p)
    BY <1>2, StatusKinds DEF IsFinal
  <1>4. WellFormed(p) BY <1>2, <1>3 DEF WellFormed
  <1>5. SameTerms(o, p) BY <1>2 DEF SameTerms
  <1>6. Follows(o, p) BY <1>1, <1>2, <1>3, <1>5 DEF Follows
  <1>7. ASSUME NEW x \in Order, Follows(o, x) PROVE Follows(p, x)
    <2>1. SameTerms(p, x) BY <1>2, <1>7 DEF Follows, SameTerms
    <2>2. IsFinal(x) /\ x.filledQty = p.filledQty BY <1>2, <1>3, <1>7 DEF Follows
    <2>3. x.status # UNSENT BY <1>3, <1>7 DEF Follows
    <2> QED BY <1>1, <1>2, <2>1, <2>2, <2>3 DEF Follows
  <1> QED BY <1>2, <1>3, <1>4, <1>6, <1>7 DEF p

LEMMA CancelFinishKeepsTrader ==
    ASSUME ExecInv, IInv', CancelFinish, UNCHANGED traderVars
    PROVE  TraderInv'
  <1> USE DEF ExecInv, TraderInv
  <1> DEFINE id == canceling
             o == orders[id]
             p == [o EXCEPT !.cancelQty = o.orderQty - o.filledQty]
             n == Len(callbacks)
             w == [i \in DOMAIN callbacks |-> IF callbacks[i] = o THEN p ELSE callbacks[i]]
  <1>1. /\ id # NoOrder /\ orders' = [orders EXCEPT ![id] = p] /\ UNCHANGED running
        /\ callbacks' = w \/ callbacks' = Append(w, p)
    BY DEF CancelFinish
  <1>2. /\ id \in DOMAIN orders /\ o \in Order /\ o.id = id
        /\ o.status \in {CANCELED, PARTIALCANCEL}
    BY <1>1 DEF IInv, TypeOK, StrandInv
  <1>3. WellFormed(o)
    <2>1. o.status \notin {FILLED, REJECTED} BY <1>2, StatusKinds
    <2> QED BY <1>2, <2>1 DEF WellFormed, IInv, QuantitiesMatchStatus
  <1>4. /\ WellFormed(p) /\ Follows(o, p) /\ p.id = id /\ p \in Order
        /\ p.status \notin {UNSENT, REPORTING}
        /\ \A x \in Order : Follows(o, x) => Follows(p, x)
    <2> HIDE DEF o, id
    <2> QED BY <1>2, <1>3, FinishFollows DEF WellFormed
  <1>5. /\ callbacks \in Seq(Order) /\ n \in Nat /\ DOMAIN callbacks = 1..n BY Places
  <1>6. \A k \in DOMAIN callbacks' :
          \/ k \in 1..n /\ callbacks[k] # o /\ callbacks'[k] = callbacks[k]
          \/ k \in 1..n /\ callbacks[k] = o /\ callbacks'[k] = p
          \/ k = n + 1 /\ callbacks'[k] = p
    <2> HIDE DEF o, p
    <2> QED BY <1>1, <1>4, <1>5, WriteThrough
  <1>7. /\ DOMAIN orders' = DOMAIN orders /\ orders'[id] = p
        /\ \A k \in DOMAIN orders : k # id => orders'[k] = orders[k]
    BY <1>1, <1>2
  <1>8. \A k \in 1..n : k \in DOMAIN callbacks'
    <2>1. w \in Seq(Order) /\ DOMAIN w = 1..n BY <1>4, <1>5, MarkedQueue
    <2> HIDE DEF w, p
    <2>2. CASE callbacks' = w BY <2>1, <2>2
    <2>3. CASE callbacks' = Append(w, p)
      <3>1. DOMAIN callbacks' = 1..(Len(w) + 1) /\ Len(w) \in Nat /\ DOMAIN w = 1..Len(w)
        BY <1>4, <2>1, <2>3, AppendFacts
      <3> QED BY <2>1, <3>1
    <2> QED BY <1>1, <2>2, <2>3
  <1> HIDE DEF p, w
  <1>9. \A i, j \in 1..n :
          (i < j /\ callbacks[i] = o /\ callbacks'[i] = p /\ callbacks[j].id = id)
              => Follows(p, callbacks'[j])
    <2> SUFFICES ASSUME NEW i \in 1..n, NEW j \in 1..n, i < j, callbacks[i] = o,
                        callbacks[j].id = id
                 PROVE  Follows(p, callbacks'[j])
      OBVIOUS
    <2>1. Follows(o, callbacks[j]) /\ callbacks[j] \in Order
      BY <1>2, <1>5 DEF UpdatesFollow, WellFormed
    <2>2. callbacks'[j] = callbacks[j] \/ callbacks'[j] = p BY <1>5, <1>6, <1>8
    <2> QED BY <1>4, <2>1, <2>2, FollowsItself
  <1>10. /\ requests' \in Seq(Task) /\ TasksShift(0)
         /\ UNCHANGED <<view, perf, connected, lastId, algoStatus, cancelTask>>
    BY LoopTakesNoTask
  <1>11. UpdatesFollow'
    <2>1. TypeOK /\ TypeOK' BY DEF IInv
    <2>2. \A k \in DOMAIN callbacks' :
            \/ k \in 1..n /\ callbacks'[k] = callbacks[k]
            \/ k \in 1..n /\ callbacks[k] = o /\ callbacks'[k] = p
            \/ k = n + 1 /\ callbacks'[k] = p
      BY <1>6
    <2>3. view' = view BY <1>10
    <2> HIDE DEF n, id
    <2> QED BY <1>2, <1>4, <1>5, <1>7, <1>9, <2>1, <2>2, <2>3, MoveFollows
  <1>12. \A k \in DOMAIN callbacks' :
           callbacks'[k] = p \/ (k \in 1..n /\ callbacks'[k] = callbacks[k])
    BY <1>6
  <1> HIDE DEF n, o, id, ExecInv, TraderInv
  <1> QED BY <1>1, <1>2, <1>4, <1>5, <1>7, <1>10, <1>11, <1>12, MoveKeeps

\* The book takes an order o of the trader and makes it p, unmatched or matched.
LEMMA TakenKeeps ==
    ASSUME ExecInv, TakeTask, Head(requests).op = "place",
           NEW o, o = Head(requests).order, NEW p,
           WellFormed(p), p.id = o.id, Follows(o, p), p.status # REPORTING, running,
           orders' = With(orders, o.id, p), UNCHANGED running,
           \/ callbacks' = callbacks
           \/ callbacks' = Append(callbacks, p) /\ p.status # UNSENT
    PROVE  TraderInv'
  <1> USE DEF ExecInv, TraderInv
  <1> DEFINE id == o.id
             n == Len(callbacks)
  <1>1. /\ requests' \in Seq(Task) /\ TasksShift(1) /\ requests # <<>>
        /\ UNCHANGED <<view, perf, connected, lastId, algoStatus, cancelTask>>
    BY TaskIsTaken
  <1>2. /\ id \in OrderIds /\ id \in 1..lastId /\ id \notin DOMAIN orders
        /\ id \in DOMAIN view => view[id] = o
        /\ \A j \in DOMAIN callbacks : callbacks[j].id # id
        /\ \A k \in PlaceTasks : requests[k].order.id = id => k = 1
    BY <1>1, NextTask
  <1>3. /\ DOMAIN orders' = DOMAIN orders \cup {id} /\ orders'[id] = p
        /\ \A x \in DOMAIN orders : x # id /\ orders'[x] = orders[x]
    BY <1>2 DEF With
  <1>4. p \in Order /\ p.id = id BY DEF WellFormed
  <1>5. /\ callbacks \in Seq(Order) /\ n \in Nat /\ DOMAIN callbacks = 1..n BY Places
  <1>6. \A k \in DOMAIN callbacks' :
          \/ k \in 1..n /\ callbacks'[k] = callbacks[k]
          \/ k = n + 1 /\ callbacks'[k] = p /\ p.status # UNSENT
    <2>1. CASE callbacks' = callbacks BY <1>5, <2>1
    <2>2. CASE callbacks' = Append(callbacks, p) /\ p.status # UNSENT
      <3>1. \A k \in DOMAIN callbacks' : \/ k \in 1..n /\ callbacks'[k] = callbacks[k]
                                         \/ k = n + 1 /\ callbacks'[k] = p
        <4>1. callbacks' = Append(callbacks, p) \/ callbacks' = callbacks BY <2>2
        <4>2. p \in Order /\ callbacks \in Seq(Order) BY <1>4, <1>5
        <4> QED BY <4>1, <4>2, Published
      <3> QED BY <2>2, <3>1
    <2> QED BY <2>1, <2>2
  <1> HIDE DEF id, n
  <1>7. TraderTyped' BY <1>1 DEF TraderTyped
  <1>8. NumbersKnown' BY <1>1, <1>2, <1>3, <1>4, <1>5, <1>6 DEF NumbersKnown
  <1>9. TasksWait'
    <2>1. \A i \in PlaceTasks' : requests'[i].order.id # id
      <3> SUFFICES ASSUME NEW i \in PlaceTasks', requests'[i].order.id = id PROVE FALSE
        OBVIOUS
      <3>1. i + 1 \in PlaceTasks /\ requests'[i] = requests[i + 1]
        BY <1>1 DEF TasksShift
      <3>2. i + 1 = 1 BY <1>2, <3>1
      <3>3. i \in DOMAIN Tail(requests) BY DEF PlaceTasks, TakeTask
      <3>4. i \in Nat /\ i >= 1
        BY <1>1, <3>3, TailFacts DEF TraderTyped
      <3> QED BY <3>2, <3>4
    <2>2. \A j \in DOMAIN callbacks' :
            \/ callbacks'[j].id \in DOMAIN orders \cup {id}
            \/ \E k \in DOMAIN callbacks : callbacks[k].id = callbacks'[j].id
      BY <1>4, <1>5, <1>6
    <2>3. DOMAIN orders' \subseteq DOMAIN orders \cup {id} BY <1>3
    <2>4. \A i \in DOMAIN view' : i \in DOMAIN view /\ view'[i] = view[i] BY <1>1
    <2>5. TasksWait /\ lastId' = lastId BY <1>1
    <2> QED BY <1>1, <2>1, <2>2, <2>3, <2>4, <2>5, TasksWaitKept
  <1>10. UpdatesFollow'
    <2>1. \A i \in DOMAIN callbacks' :
            WellFormed(callbacks'[i]) /\ callbacks'[i].status \notin {UNSENT, REPORTING}
      BY <1>5, <1>6 DEF UpdatesFollow
    <2>2. ASSUME NEW i \in DOMAIN callbacks', NEW j \in DOMAIN callbacks', i < j,
                 callbacks'[i].id = callbacks'[j].id
          PROVE  Follows(callbacks'[i], callbacks'[j])
      <3>1. i \in 1..n /\ callbacks'[i] = callbacks[i]
        <4>1. j \in 1..n \/ j = n + 1 BY <1>6
        <4>2. i # n + 1 BY <1>5, <2>2, <4>1
        <4> QED BY <1>6, <4>2
      <3>2. callbacks[i].id # id BY <1>2, <1>5, <3>1
      <3>3. callbacks'[j] # p BY <1>4, <2>2, <3>1, <3>2
      <3>4. j \in 1..n /\ callbacks'[j] = callbacks[j] BY <1>6, <3>3
      <3> QED BY <1>5, <2>2, <3>1, <3>4 DEF UpdatesFollow
    <2>3. ASSUME NEW i \in DOMAIN callbacks', callbacks'[i].id \in DOMAIN view
          PROVE  Follows(view[callbacks'[i].id], callbacks'[i])
      <3>1. CASE i \in 1..n /\ callbacks'[i] = callbacks[i]
        BY <1>5, <2>3, <3>1 DEF UpdatesFollow
      <3>2. CASE callbacks'[i] = p BY <1>2, <1>4, <2>3, <3>2
      <3> QED BY <1>6, <3>1, <3>2
    <2>4. ASSUME NEW i \in DOMAIN callbacks', callbacks'[i].id \in DOMAIN orders'
          PROVE  Follows(callbacks'[i], orders'[callbacks'[i].id])
      <3>1. CASE i \in 1..n /\ callbacks'[i] = callbacks[i]
        <4>1. callbacks[i].id \in DOMAIN orders BY <1>2, <1>3, <1>5, <2>4, <3>1
        <4> QED BY <1>3, <1>5, <3>1, <4>1 DEF UpdatesFollow
      <3>2. CASE callbacks'[i] = p BY <1>3, <1>4, <3>2, FollowsItself
      <3> QED BY <1>6, <3>1, <3>2
    <2>5. ASSUME NEW x \in DOMAIN view \cap DOMAIN orders'
          PROVE  Follows(view[x], orders'[x])
      <3>1. CASE x = id BY <1>2, <1>3, <3>1
      <3>2. CASE x # id BY <1>3, <3>2 DEF UpdatesFollow
      <3> QED BY <3>1, <3>2
    <2>6. \A x \in DOMAIN orders' : orders'[x].status # REPORTING
      BY <1>3 DEF UpdatesFollow
    <2> QED BY <1>1, <2>1, <2>2, <2>3, <2>4, <2>5, <2>6 DEF UpdatesFollow
  <1>11. BookRemembers' BY <1>3, <1>4, <1>5, <1>6 DEF BookRemembers
  <1> QED BY <1>7, <1>8, <1>9, <1>10, <1>11

\* What becomes of an order the book takes: it rests, or a quote is tried on it.
LEMMA TakenEffect ==
    ASSUME ExecInv, TakeTask, Head(requests).op = "place",
           NEW o, o = Head(requests).order, Place(o)
    PROVE  /\ running /\ UNCHANGED running
           /\ o.status = UNSENT /\ o.filledQty = 0 /\ WellFormed(o)
           /\ \E p : /\ WellFormed(p) /\ p.id = o.id /\ Follows(o, p)
                     /\ p.status # REPORTING
                     /\ orders' = With(orders, o.id, p)
                     /\ \/ callbacks' = callbacks
                        \/ callbacks' = Append(callbacks, p) /\ p.status # UNSENT
  <1>1. requests # <<>> BY DEF TakeTask
  <1>2. /\ o.id \in OrderIds /\ o.id \notin DOMAIN orders
        /\ \E r \in Requests : o = OrderOf(o.id, r)
    BY <1>1, NextTask
  <1>3. PICK r \in Requests : o = OrderOf(o.id, r) BY <1>2
  <1>4. /\ Matchable(o) /\ Consistent(o) /\ WellFormed(o) /\ o.status = UNSENT
        /\ o.filledQty = 0
    BY <1>2, <1>3, NewIsMatchable, NewIsWellFormed
  <1>5. UNSENT # REPORTING BY DEF UNSENT, REPORTING
  <1>6. CASE PlaceUnquoted(o)
    <2>1. Follows(o, o) BY <1>4, FollowsItself DEF WellFormed
    <2> QED BY <1>4, <1>5, <1>6, <2>1 DEF PlaceUnquoted
  <1>7. CASE PlaceQuoted(o)
    <2> DEFINE md == mds[o.symbol]
               p == Match(o, Unmeasured, md).order
    <2>1. /\ orders' = With(orders, o.id, p) /\ UNCHANGED running /\ running
          /\ callbacks' = IF subscribed THEN Append(callbacks, p) ELSE callbacks
          /\ md # NoQuote
      BY <1>7 DEF PlaceQuoted, Publish
    <2>2. o.symbol \in Symbols BY <1>4, OrderNumbers DEF WellFormed
    <2>3. md \in MarketDepth BY <2>1, <2>2, QuoteType DEF ExecInv, IInv
    <2>4. Unmeasured \in Int BY DEF Unmeasured
    <2>5. o.cancelQty = 0 /\ o.status # REPORTING BY <1>4, <1>5 DEF Consistent
    <2> HIDE DEF md
    <2>6. /\ WellFormed(p) /\ Follows(o, p) /\ p.id = o.id
          /\ p.status \notin {UNSENT, REPORTING}
      BY <1>4, <2>3, <2>4, <2>5, MatchFollows
    <2> HIDE DEF p
    <2> QED BY <1>4, <2>1, <2>6
  <1>8. CASE PlaceDuplicate(o) BY <1>2, <1>8 DEF PlaceDuplicate
  <1> QED BY <1>6, <1>7, <1>8 DEF Place

LEMMA PlacedKeeps ==
    ASSUME ExecInv, TakeTask, Head(requests).op = "place", Place(Head(requests).order)
    PROVE  TraderInv'
  BY TakenEffect, TakenKeeps

-----------------------------------------------------------------------------
(* The invariant *)

LEMMA TakeTaskKeeps ==
    ASSUME ExecInv, IInv', TakeTask
    PROVE  TraderInv'
  <1> DEFINE task == Head(requests)
  <1>1. /\ requests' \in Seq(Task) /\ TasksShift(1) /\ task \in Task
        /\ UNCHANGED <<view, perf, connected, lastId, algoStatus, cancelTask>>
    BY TaskIsTaken
  <1>2. TraderTyped BY DEF ExecInv, TraderInv
  <1>3. CASE UNCHANGED <<running, orders, callbacks>>
    BY <1>1, <1>2, <1>3, QuietStep DEF TraderTyped
  <1>4. CASE task.op = "place" /\ Place(task.order) BY <1>4, PlacedKeeps
  <1>5. CASE task.op = "cancel" /\ CancelMark(task.id)
    <2>1. task.id \in OrderIds BY <1>1, <1>5, TaskTypes
    <2> HIDE DEF task
    <2> QED BY <1>1, <1>5, <2>1, CancelMarkKeepsTrader
  <1>6. \/ task.op = "place" /\ Place(task.order)
        \/ task.op = "cancel" /\ CancelMark(task.id)
        \/ UNCHANGED <<running, orders, callbacks>>
    BY DEF TakeTask, Subscribe, Unsubscribe, CancelIgnored, bookVars
  <1> QED BY <1>3, <1>4, <1>5, <1>6

LEMMA ExecNextKeeps ==
    ASSUME ExecInv, [ExecNext]_vars
    PROVE  ExecInv'
  <1>1. IInv' BY ExecKeepsBook
  <1> SUFFICES TraderInv' BY <1>1 DEF ExecInv
  <1>2. TraderTyped BY DEF ExecInv, TraderInv
  <1>3. ASSUME UNCHANGED <<running, orders, callbacks, view, perf, connected, lastId>>,
               requests' = requests,
               algoStatus' \in {Running, Canceling, Crashed} \cup AlgoFinal,
               cancelTask' \in BOOLEAN
        PROVE  TraderInv'
    BY <1>2, <1>3, SameShifts, QuietStep DEF TraderTyped
  <1>4. CASE UNCHANGED vars
    BY <1>2, <1>3, <1>4 DEF vars, bookVars, traderVars, TraderTyped
  <1>5. CASE TakeTask BY <1>1, <1>5, TakeTaskKeeps
  <1>6. CASE StrandLoop
    <2>1. UNCHANGED traderVars BY <1>6 DEF StrandLoop
    <2>2. CASE CancelFinish BY <1>1, <2>1, <2>2, CancelFinishKeepsTrader
    <2>3. ASSUME NEW id \in matching, MatchUpdates(id) PROVE TraderInv'
      BY <1>1, <2>1, <2>3, MatchUpdatesKeepsTrader
    <2>4. ASSUME NEW id \in matching, MatchQueues(id) PROVE TraderInv'
      BY <1>2, <1>3, <2>1, <2>4 DEF MatchQueues, traderVars, TraderTyped
    <2> QED BY <1>6, <2>2, <2>3, <2>4 DEF StrandLoop, StrandStep
  <1>7. CASE Outside
    <2>1. UNCHANGED traderVars BY <1>7 DEF Outside
    <2>2. CASE Stop BY <2>1, <2>2, StopBookKeeps
    <2>3. ASSUME NEW md \in Quotes, OnMarketDepth(md) PROVE TraderInv'
      BY <1>2, <1>3, <2>1, <2>3 DEF OnMarketDepth, traderVars, TraderTyped
    <2> QED BY <1>7, <2>2, <2>3 DEF Outside
  <1>8. CASE Trader
    <2>1. CASE OnOrderUpdate BY <2>1, OnOrderUpdateKeeps
    <2>2. ASSUME NEW r \in Requests, PlaceOrder(r) PROVE TraderInv'
      BY <2>2, PlaceOrderKeeps
    <2>3. ASSUME NEW r \in Requests, PlaceRefused(r) PROVE TraderInv'
      BY <2>3, PlaceRefusedKeeps
    <2>4. ASSUME NEW id \in OrderIds, CancelOrder(id) PROVE TraderInv'
      <3>1. /\ UNCHANGED <<running, orders, callbacks, view, perf, connected, lastId>>
            /\ UNCHANGED <<algoStatus, cancelTask>>
            /\ requests' = Append(requests, CancelTask(id))
        BY <2>4 DEF CancelOrder, bookVars
      <3>2. CancelTask(id) \in Task /\ CancelTask(id).op = "cancel" BY TasksOfTrader
      <3>3. requests' \in Seq(Task) /\ TasksShift(0)
        BY <1>2, <3>1, <3>2, AppendShifts DEF TraderTyped
      <3> QED BY <1>2, <3>1, <3>3, QuietStep DEF TraderTyped
    <2>5. CASE StopTrader BY <2>5, StopTraderKeeps
    <2>6. CASE Cancel
      BY <1>2, <1>3, <2>6 DEF Cancel, bookVars, AlgoFinal, TraderTyped
    <2> QED BY <1>8, <2>1, <2>2, <2>3, <2>4, <2>5, <2>6 DEF Trader
  <1>9. CASE RequestCancel
    BY <1>2, <1>3, <1>9 DEF RequestCancel, bookVars, TraderTyped
  <1> QED BY <1>4, <1>5, <1>6, <1>7, <1>8, <1>9 DEF ExecNext

LEMMA InitExecInv == ExecInit => ExecInv
  <1> SUFFICES ASSUME ExecInit PROVE ExecInv OBVIOUS
  <1>1. IInv BY InitIInv DEF ExecInit
  <1>2. /\ DOMAIN orders = {} /\ DOMAIN callbacks = {} /\ DOMAIN view = {}
        /\ lastId = 0 /\ 1..lastId = {} /\ running = TRUE
    BY DEF ExecInit, Init
  <1>3. requests \in Seq(Task) /\ PlaceTasks = {}
    <2>1. requests = <<SubscribeTask>> BY DEF ExecInit
    <2>2. SubscribeTask \in Task /\ SubscribeTask.op = "subscribe" BY TasksOfTrader
    <2>3. DOMAIN requests = {1} /\ requests[1] = SubscribeTask BY <2>1
    <2>4. requests \in Seq(Task) BY <2>1, <2>2
    <2> QED BY <2>2, <2>3, <2>4 DEF PlaceTasks
  <1>4. perf \in Counters BY DEF ExecInit, NoFills, Counters
  <1>5. TraderTyped
    <2>1. algoStatus = Running /\ connected = TRUE /\ cancelTask = FALSE /\ lastId = 0
      BY DEF ExecInit
    <2>2. connected \in BOOLEAN /\ cancelTask \in BOOLEAN /\ lastId \in Nat BY <2>1
    <2> QED BY <1>2, <1>3, <1>4, <2>1, <2>2 DEF TraderTyped
  <1>6. NumbersKnown /\ UpdatesFollow /\ BookRemembers
    BY <1>2 DEF NumbersKnown, UpdatesFollow, BookRemembers
  <1>7. TasksWait BY <1>3 DEF TasksWait
  <1> QED BY <1>1, <1>5, <1>6, <1>7 DEF ExecInv, TraderInv

\* The inductive invariant is an invariant of the composition.
THEOREM ExecInvariantHolds == ExecSpec => []ExecInv
  BY InitExecInv, ExecNextKeeps, PTL DEF ExecSpec

\* Every variable of the trader and of its book has its type in every reachable
\* state, and the maps of both agree on their keys.
THEOREM TraderAndBookTyped == ExecSpec => []ExecTypeOK
  <1>1. ExecInv => ExecTypeOK
    BY DEF ExecInv, IInv, TraderInv, TraderTyped, WellFormed, ExecTypeOK
  <1> QED BY <1>1, ExecInvariantHolds, PTL

\* Whatever is still on its way, the trader never counts a fill the book has not
\* made, nor takes an order for finished that can still fill.
THEOREM ViewIsNeverAhead == ExecSpec => []ViewNeverAhead
  <1>1. ASSUME ExecInv PROVE ViewNeverAhead
    <2>1. \A id \in DOMAIN view \cap DOMAIN orders : Follows(view[id], orders[id])
      BY <1>1 DEF ExecInv, TraderInv, UpdatesFollow
    <2> QED BY <2>1 DEF ViewNeverAhead, Follows
  <1> QED BY <1>1, ExecInvariantHolds, PTL

-----------------------------------------------------------------------------
(* The trader's copies implement OrderLife too *)

ViewLives == [id \in DOMAIN view |-> LifeOf(view[id])]

LEMMA ViewRecordIsSound ==
    ASSUME NEW o, WellFormed(o)
    PROVE  ViewLife!Sound(LifeOf(o))
  <1>1. BookLife!Sound(LifeOf(o)) BY SoundRecord DEF WellFormed
  <1> QED BY <1>1 DEF ViewLife!Sound, ViewLife!Phases, BookLife!Sound, BookLife!Phases

\* A copy of a new order.
LEMMA ViewLearns ==
    ASSUME NEW id \in OrderIds, NEW o, WellFormed(o), id \notin DOMAIN view,
           DOMAIN view' = DOMAIN view \cup {id}, view'[id] = o,
           \A i \in DOMAIN view : view'[i] = view[i]
    PROVE  ViewLife!Next
  <1>1. ViewLife!Sound(LifeOf(view'[id])) BY ViewRecordIsSound
  <1>2. \A i \in DOMAIN view : LifeOf(view'[i]) = LifeOf(view[i]) OBVIOUS
  <1>3. ViewLife!Others(id) BY <1>2 DEF ViewLife!Others
  <1>4. ViewLife!Learn(id) BY <1>1, <1>3 DEF ViewLife!Learn
  <1> QED BY <1>4 DEF ViewLife!Next

\* A newer copy of an order, which was open.
LEMMA ViewAdvances ==
    ASSUME NEW id \in OrderIds, NEW o, WellFormed(o), id \in DOMAIN view,
           WellFormed(view[id]), ~IsFinal(view[id]), Follows(view[id], o),
           DOMAIN view' = DOMAIN view, view'[id] = o,
           \A i \in DOMAIN view : i # id => view'[i] = view[i]
    PROVE  ViewLife!Next
  <1>1. ViewLife!Sound(LifeOf(view'[id])) BY ViewRecordIsSound
  <1>2. \A i \in DOMAIN view \ {id} : LifeOf(view'[i]) = LifeOf(view[i]) OBVIOUS
  <1>3. ViewLife!Others(id) BY <1>2 DEF ViewLife!Others
  <1>4. BookLife!Advances(LifeOf(view[id]), LifeOf(o))
    BY OpenAdvances DEF Follows, SameTerms, WellFormed
  <1>5. ViewLife!Advances(LifeOf(view[id]), LifeOf(view'[id]))
    BY <1>4 DEF ViewLife!Advances, BookLife!Advances
  <1>6. ViewLife!Advance(id) BY <1>1, <1>3, <1>5 DEF ViewLife!Advance
  <1> QED BY <1>6 DEF ViewLife!Next

LEMMA UpdateLives ==
    ASSUME ExecInv, OnOrderUpdate
    PROVE  ViewLife!Next \/ view' = view
  <1> DEFINE u == Head(callbacks)
  <1>1. /\ 1 \in DOMAIN callbacks /\ u = callbacks[1]
        /\ WellFormed(u) /\ u.id \in OrderIds
        /\ \/ view' = view
           \/ /\ DOMAIN view' = DOMAIN view \cup {u.id} /\ view'[u.id] = u
              /\ \A id \in DOMAIN view : id # u.id => view'[id] = view[id]
              /\ IsNewerThan(u, PreOrder(u))
    BY UpdateEffect
  <1>2. u.id \in DOMAIN view => Follows(view[u.id], u) /\ WellFormed(view[u.id])
    BY <1>1 DEF ExecInv, TraderInv, UpdatesFollow, TraderTyped
  <1> HIDE DEF u
  <1>3. CASE u.id \notin DOMAIN view BY <1>1, <1>3, ViewLearns
  <1>4. CASE u.id \in DOMAIN view /\ view' # view
    <2>1. ~IsFinal(view[u.id]) BY <1>1, <1>4 DEF IsNewerThan, PreOrder
    <2>2. DOMAIN view' = DOMAIN view BY <1>1, <1>4
    <2> QED BY <1>1, <1>2, <1>4, <2>1, <2>2, ViewAdvances
  <1> QED BY <1>3, <1>4

LEMMA NumberLives ==
    ASSUME ExecInv, NEW o, WellFormed(o), lastId + 1 \in OrderIds,
           view' = With(view, lastId + 1, o)
    PROVE  ViewLife!Next
  <1>1. lastId + 1 \notin DOMAIN view
    <2>1. lastId \in Nat /\ DOMAIN view \subseteq 1..lastId
      BY DEF ExecInv, TraderInv, TraderTyped, NumbersKnown
    <2> QED BY <2>1
  <1>2. /\ DOMAIN view' = DOMAIN view \cup {lastId + 1} /\ view'[lastId + 1] = o
        /\ \A i \in DOMAIN view : view'[i] = view[i]
    BY <1>1 DEF With
  <1> QED BY <1>1, <1>2, ViewLearns

LEMMA TraderStepLives ==
    ASSUME ExecInv, [ExecNext]_vars
    PROVE  ViewLife!Next \/ view' = view
  <1>1. CASE OnOrderUpdate BY <1>1, UpdateLives
  <1>2. ASSUME NEW r \in Requests, PlaceOrder(r) PROVE ViewLife!Next
    <2>1. lastId + 1 \in OrderIds /\ view' = With(view, lastId + 1, NextOrder(r))
      BY <1>2 DEF PlaceOrder, MayPlace
    <2>2. WellFormed(NextOrder(r)) BY <2>1, NewIsWellFormed DEF NextOrder
    <2> QED BY <2>1, <2>2, NumberLives
  <1>3. ASSUME NEW r \in Requests, PlaceRefused(r) PROVE ViewLife!Next
    <2> DEFINE o == [OrderOf(lastId + 1, r) EXCEPT !.status = REJECTED]
    <2>1. lastId + 1 \in OrderIds /\ view' = With(view, lastId + 1, o)
      BY <1>3 DEF PlaceRefused, MayPlace, NextOrder
    <2>2. WellFormed(o) BY <2>1, RefusedIsWellFormed
    <2> HIDE DEF o
    <2> QED BY <2>1, <2>2, NumberLives
  <1>4. CASE StopTrader
    <2>1. DOMAIN view' = {} BY <1>4 DEF StopTrader
    <2>2. ViewLife!Forget BY <2>1 DEF ViewLife!Forget
    <2> QED BY <2>2 DEF ViewLife!Next
  <1>5. CASE \/ TakeTask \/ StrandLoop \/ Outside \/ Cancel \/ RequestCancel
             \/ UNCHANGED vars \/ \E id \in OrderIds : CancelOrder(id)
    BY <1>5 DEF TakeTask, StrandLoop, Outside, Cancel, RequestCancel, CancelOrder, vars,
       traderVars
  <1> QED BY <1>1, <1>2, <1>3, <1>4, <1>5 DEF ExecNext, Trader

\* The trader's copies of its orders are an implementation of OrderLife: made of
\* delayed updates, some of them half-written cancellations or of orders it has
\* forgotten, they keep the terms of an order, let it fill while it is open and
\* within its size, and end once.
THEOREM ViewImplementsOrderLife == ExecSpec => ViewKeepsOrderLife
  <1>1. ExecInit => ViewLife!Init BY DEF ExecInit, ViewLife!Init
  <1>2. ExecInv /\ [ExecNext]_vars => [ViewLife!Next]_ViewLives
    BY TraderStepLives DEF ViewLives
  <1>3. [][ViewLife!Next]_ViewLives /\ ViewLife!Init => ViewKeepsOrderLife
    BY DEF ViewKeepsOrderLife, ViewLife!Spec, ViewLives
  <1>4. ExecSpec => [][ViewLife!Next]_ViewLives
    BY <1>2, ExecInvariantHolds, PTL DEF ExecSpec
  <1> QED BY <1>1, <1>3, <1>4, PTL DEF ExecSpec

-----------------------------------------------------------------------------
(* Sums: the trader's counters and the budget *)

LEMMA ExposureType ==
    ASSUME NEW o \in Order
    PROVE  Exposure(o) \in Nat
  BY OrderNumbers DEF Exposure

\* What the market may take of an order only shrinks.
LEMMA ExposureShrinks ==
    ASSUME NEW o, NEW p, WellFormed(o), WellFormed(p), Follows(o, p)
    PROVE  /\ Exposure(p) <= Exposure(o)
           /\ ~IsFinal(o) => Exposure(o) = o.orderQty
  <1>1. /\ o.filledQty \in Nat /\ p.filledQty \in Nat /\ o.orderQty \in Nat
        /\ p.orderQty = o.orderQty /\ p.filledQty <= p.orderQty
    BY OrderNumbers DEF WellFormed, Follows, SameTerms
  <1>2. CASE IsFinal(o) BY <1>1, <1>2 DEF Follows, Exposure
  <1>3. CASE ~IsFinal(o) BY <1>1, <1>3 DEF Exposure
  <1> QED BY <1>2, <1>3

\* The totals are sums over the orders of the book and the places of the queue.
LEMMA Totals ==
    /\ BookTotal = SumFunctionOnSet(InBook, DOMAIN orders)
    /\ LagTotal = SumFunctionOnSet(Lag, DOMAIN orders)
    /\ AskedTotal = SumFunctionOnSet(AskedFor, DOMAIN requests)
    /\ NeverOvertrades <=> BookTotal + AskedTotal <= qtyTarget
  <1>1. DOMAIN InBook = DOMAIN orders /\ DOMAIN Lag = DOMAIN orders
        /\ DOMAIN AskedFor = DOMAIN requests
    BY DEF InBook, Lag, AskedFor
  <1>2. BookTotal = SumFunctionOnSet(InBook, DOMAIN orders)
    BY <1>1, Zenon DEF BookTotal, TotalOf
  <1>3. LagTotal = SumFunctionOnSet(Lag, DOMAIN orders)
    BY <1>1, Zenon DEF LagTotal, TotalOf
  <1>4. AskedTotal = SumFunctionOnSet(AskedFor, DOMAIN requests)
    BY <1>1, Zenon DEF AskedTotal, TotalOf
  <1>5. NeverOvertrades <=> BookTotal + AskedTotal <= qtyTarget
    BY DEF NeverOvertrades, BookTotal, AskedTotal, InBook, AskedFor
  <1> QED BY <1>2, <1>3, <1>4, <1>5

LEMMA TotalsNext ==
    /\ BookTotal' = SumFunctionOnSet(InBook, DOMAIN orders)'
    /\ LagTotal' = SumFunctionOnSet(Lag, DOMAIN orders)'
    /\ AskedTotal' = SumFunctionOnSet(AskedFor, DOMAIN requests)'
    /\ NeverOvertrades' <=> BookTotal' + AskedTotal' <= qtyTarget
  <1>1. (/\ BookTotal = SumFunctionOnSet(InBook, DOMAIN orders)
         /\ LagTotal = SumFunctionOnSet(Lag, DOMAIN orders)
         /\ AskedTotal = SumFunctionOnSet(AskedFor, DOMAIN requests)
         /\ NeverOvertrades <=> BookTotal + AskedTotal <= qtyTarget)'
    BY Totals, PTL
  <1> QED BY <1>1

\* They are sums of integers over finite sets.
LEMMA Terms ==
    ASSUME ExecInv
    PROVE  /\ IsFiniteSet(DOMAIN orders) /\ IsFiniteSet(DOMAIN view)
           /\ \A id \in DOMAIN orders : orders[id] \in Order /\ InBook[id] \in Nat
           /\ \A id \in DOMAIN view : WellFormed(view[id])
           /\ \A i \in DOMAIN requests : AskedFor[i] \in Nat
           /\ BookTotal \in Nat /\ AskedTotal \in Nat
           /\ Len(requests) \in Nat /\ DOMAIN requests = 1..Len(requests)
           /\ connected => DOMAIN orders \subseteq DOMAIN view
           /\ connected => \A id \in DOMAIN orders : Lag[id] \in Nat
           /\ connected => LagTotal \in Nat
  <1>1. /\ lastId \in Nat /\ DOMAIN orders \subseteq 1..lastId
        /\ DOMAIN view \subseteq 1..lastId /\ requests \in Seq(Task)
        /\ connected => DOMAIN view = 1..lastId
        /\ \A id \in DOMAIN view : WellFormed(view[id])
    BY DEF ExecInv, TraderInv, NumbersKnown, TraderTyped
  <1>2. IsFiniteSet(DOMAIN orders) /\ IsFiniteSet(DOMAIN view)
    <2>1. IsFiniteSet(1..lastId) BY <1>1, FS_Interval
    <2> QED BY <1>1, <2>1, FS_Subset
  <1>3. \A id \in DOMAIN orders : orders[id] \in Order /\ InBook[id] \in Nat
    BY ExposureType DEF ExecInv, IInv, TypeOK, InBook
  <1>4. Len(requests) \in Nat /\ DOMAIN requests = 1..Len(requests)
    BY <1>1, LenProperties
  <1>5. \A i \in DOMAIN requests : AskedFor[i] \in Nat
    <2> SUFFICES ASSUME NEW i \in DOMAIN requests PROVE AskedFor[i] \in Nat OBVIOUS
    <2>1. requests[i] \in Task BY <1>1, <1>4
    <2>2. requests[i].op = "place" => requests[i].order.orderQty \in Nat
      BY <2>1, TaskTypes, OrderNumbers
    <2> QED BY <2>2 DEF AskedFor
  <1>6. IsFiniteSet(DOMAIN requests) BY <1>4, FS_Interval
  <1>7. BookTotal \in Nat
    <2>1. \A id \in DOMAIN orders : InBook[id] \in Nat BY <1>3
    <2>2. SumFunctionOnSet(InBook, DOMAIN orders) \in Nat BY <1>2, <2>1, SumNat
    <2> QED BY <2>2, Totals
  <1>8. AskedTotal \in Nat
    <2>1. SumFunctionOnSet(AskedFor, DOMAIN requests) \in Nat BY <1>5, <1>6, SumNat
    <2> QED BY <2>1, Totals
  <1>9. ASSUME connected, NEW id \in DOMAIN orders PROVE Lag[id] \in Nat
    <2>1. id \in DOMAIN view BY <1>1, <1>9
    <2>2. WellFormed(view[id]) /\ orders[id] \in Order BY <1>1, <1>3, <2>1
    <2>3. Exposure(view[id]) \in Nat /\ Exposure(orders[id]) \in Nat
      BY <2>2, ExposureType DEF WellFormed
    <2>4. Follows(view[id], orders[id])
      BY <2>1 DEF ExecInv, TraderInv, UpdatesFollow
    <2>5. orders[id].filledQty <= orders[id].orderQty
      BY DEF ExecInv, IInv, QuantitiesMatchStatus
    <2>6. Exposure(orders[id]) <= Exposure(view[id])
      <3>1. /\ view[id].filledQty \in Nat /\ orders[id].filledQty \in Nat
            /\ view[id].orderQty \in Nat /\ orders[id].orderQty = view[id].orderQty
        BY <2>2, <2>4, OrderNumbers DEF WellFormed, Follows, SameTerms
      <3>2. CASE IsFinal(view[id]) BY <2>4, <3>1, <3>2 DEF Follows, Exposure
      <3>3. CASE ~IsFinal(view[id]) BY <2>5, <3>1, <3>3 DEF Exposure
      <3> QED BY <3>2, <3>3
    <2>7. Lag[id] = Exposure(view[id]) - Exposure(orders[id]) BY DEF Lag
    <2> QED BY <2>3, <2>6, <2>7
  <1>10. connected => LagTotal \in Nat
    <2>1. connected => SumFunctionOnSet(Lag, DOMAIN orders) \in Nat
      BY <1>2, <1>9, SumNat
    <2> QED BY <2>1, Totals
  <1>11. connected => DOMAIN orders \subseteq DOMAIN view BY <1>1
  <1> QED BY <1>1, <1>2, <1>3, <1>4, <1>5, <1>7, <1>8, <1>9, <1>10, <1>11

\* What one task asks for.
AskedBy(t) == IF t.op = "place" THEN t.order.orderQty ELSE 0

\* The strand takes the first task.
LEMMA AskedTaken ==
    ASSUME ExecInv, requests # <<>>, requests' = Tail(requests)
    PROVE  AskedTotal = AskedBy(Head(requests)) + AskedTotal' /\ AskedTotal' \in Nat
  <1> DEFINE n == Len(requests) - 1
             f == AskedFor
             g == AskedFor'
  <1>1. /\ requests \in Seq(Task) /\ Len(requests) \in Nat /\ DOMAIN requests = 1..Len(requests)
        /\ \A i \in DOMAIN requests : f[i] \in Nat
    BY Terms DEF ExecInv, TraderInv, TraderTyped
  <1>2. /\ Tail(requests) \in Seq(Task) /\ Len(Tail(requests)) = Len(requests) - 1
        /\ \A i \in 1 .. Len(Tail(requests)) : Tail(requests)[i] = requests[i + 1]
    BY <1>1, HeadTailProperties
  <1>3. /\ n \in Nat /\ DOMAIN requests = 1..(n + 1) /\ DOMAIN requests' = 1..n
        /\ \A i \in 1..n : i \in DOMAIN requests' /\ i + 1 \in DOMAIN requests
        /\ \A i \in 1..n : requests'[i] = requests[i + 1]
    <2>1. Len(requests) # 0 BY <1>1, EmptySeq
    <2>2. DOMAIN Tail(requests) = 1..Len(Tail(requests)) BY <1>2, LenProperties
    <2> QED BY <1>1, <1>2, <2>1, <2>2
  <1>4. f[1] = AskedBy(Head(requests))
    <2>1. 1 \in DOMAIN requests /\ Head(requests) = requests[1] BY <1>1, TailFacts
    <2> QED BY <2>1 DEF AskedFor, AskedBy
  <1>5. \A i \in 1..n : g[i] = f[i + 1] BY <1>3 DEF AskedFor
  <1>6. AskedTotal = SumFunctionOnSet(f, DOMAIN requests) BY Totals
  <1>7. AskedTotal' = SumFunctionOnSet(g, DOMAIN requests') BY TotalsNext
  <1> HIDE DEF f, g, n
  <1>8. (\A i \in 1..(n + 1) : f[i] \in Int) /\ (\A i \in 1..n : g[i] \in Nat)
    <2>1. \A i \in 1..(n + 1) : f[i] \in Nat BY <1>1, <1>3
    <2>2. \A i \in 1..n : i + 1 \in 1..(n + 1) BY <1>3
    <2> QED BY <1>5, <2>1, <2>2
  <1>9. SumFunctionOnSet(f, 1..(n + 1)) = f[1] + SumFunctionOnSet(g, 1..n)
    BY <1>3, <1>5, <1>8, SumShift
  <1>10. SumFunctionOnSet(f, DOMAIN requests) = f[1] + SumFunctionOnSet(g, DOMAIN requests')
    BY <1>3, <1>9, Zenon
  <1>11. SumFunctionOnSet(g, DOMAIN requests') \in Nat
    <2>1. IsFiniteSet(DOMAIN requests') BY <1>3, FS_Interval
    <2>2. \A i \in DOMAIN requests' : g[i] \in Nat BY <1>3, <1>8
    <2> QED BY <2>1, <2>2, SumNat
  <1> QED BY <1>4, <1>6, <1>7, <1>10, <1>11

\* The trader dispatches one more.
LEMMA AskedAppended ==
    ASSUME ExecInv, NEW t \in Task, requests' = Append(requests, t)
    PROVE  AskedTotal' = AskedTotal + AskedBy(t)
  <1> DEFINE n == Len(requests)
             f == AskedFor
             g == AskedFor'
  <1>1. /\ requests \in Seq(Task) /\ n \in Nat /\ DOMAIN requests = 1..n
        /\ \A i \in 1..n : f[i] \in Int
    BY Terms DEF ExecInv, TraderInv, TraderTyped
  <1>2. /\ DOMAIN requests' = 1..(n + 1)
        /\ \A i \in 1..n : requests'[i] = requests[i]
        /\ requests'[n + 1] = t
    BY <1>1, AppendFacts
  <1>3. \A i \in 1..n : i \in DOMAIN requests' /\ g[i] = f[i]
    BY <1>1, <1>2 DEF AskedFor
  <1>4. n + 1 \in DOMAIN requests' BY <1>1, <1>2
  <1>5. g[n + 1] = AskedBy(t) BY <1>2, <1>4 DEF AskedFor, AskedBy
  <1>6. AskedBy(t) \in Int
    <2>1. t.op = "place" => t.order.orderQty \in Nat BY TaskTypes, OrderNumbers
    <2> QED BY <2>1 DEF AskedBy
  <1>7. AskedTotal = SumFunctionOnSet(f, DOMAIN requests) BY Totals
  <1>8. AskedTotal' = SumFunctionOnSet(g, DOMAIN requests') BY TotalsNext
  <1> HIDE DEF f, g, n
  <1>9. \A i \in 1..(n + 1) : g[i] \in Int
    <2>1. \A i \in 1..(n + 1) : i \in 1..n \/ i = n + 1 BY <1>1
    <2> QED BY <1>1, <1>3, <1>5, <1>6, <2>1
  <1>10. SumFunctionOnSet(g, 1..(n + 1)) = SumFunctionOnSet(g, 1..n) + g[n + 1]
    BY <1>1, <1>9, SumNext
  <1>11. SumFunctionOnSet(g, 1..n) = SumFunctionOnSet(f, 1..n)
    <2>1. IsFiniteSet(1..n) BY <1>1, FS_Interval
    <2> QED BY <1>3, <2>1, SumSame
  <1>12. AskedTotal' = SumFunctionOnSet(g, 1..(n + 1)) BY <1>2, <1>8, Zenon
  <1>13. AskedTotal = SumFunctionOnSet(f, 1..n) BY <1>1, <1>7, Zenon
  <1> QED BY <1>5, <1>10, <1>11, <1>12, <1>13

LEMMA SameRequests ==
    ASSUME requests' = requests
    PROVE  AskedTotal' = AskedTotal
  BY DEF AskedTotal, AskedFor

LEMMA SameOrders ==
    ASSUME orders' = orders
    PROVE  /\ BookTotal' = BookTotal
           /\ view' = view => LagTotal' = LagTotal
  BY DEF BookTotal, InBook, LagTotal, Lag

\* An order of the book moves on.
LEMMA BookMoves ==
    ASSUME ExecInv, NEW id \in DOMAIN orders, NEW p \in Order,
           DOMAIN orders' = DOMAIN orders, orders'[id] = p,
           \A i \in DOMAIN orders : i # id => orders'[i] = orders[i], view' = view
    PROVE  LET x == Exposure(p) - Exposure(orders[id])
           IN  /\ BookTotal' = BookTotal + x
               /\ connected => LagTotal' = LagTotal - x
  <1> DEFINE D == DOMAIN orders
             f == InBook
             g == InBook'
             h == Lag
             k == Lag'
  <1>1. /\ IsFiniteSet(D) /\ \A i \in D : orders[i] \in Order /\ f[i] \in Int
        /\ connected => \A i \in D : h[i] \in Int
        /\ connected => id \in DOMAIN view
        /\ \A i \in DOMAIN view : WellFormed(view[i])
    BY Terms
  <1>2. Exposure(p) \in Int /\ Exposure(orders[id]) \in Int BY <1>1, ExposureType
  <1>3. f[id] = Exposure(orders[id]) /\ g[id] = Exposure(p) /\ \A i \in D \ {id} : g[i] = f[i]
    BY DEF InBook
  <1>4. /\ h[id] = Exposure(view[id]) - Exposure(orders[id])
        /\ k[id] = Exposure(view[id]) - Exposure(p) /\ \A i \in D \ {id} : k[i] = h[i]
    BY DEF Lag
  <1>5. BookTotal = SumFunctionOnSet(f, D) /\ LagTotal = SumFunctionOnSet(h, D) BY Totals
  <1>6. /\ BookTotal' = SumFunctionOnSet(g, DOMAIN orders')
        /\ LagTotal' = SumFunctionOnSet(k, DOMAIN orders')
    BY TotalsNext
  <1>7. DOMAIN orders' = D /\ id \in D OBVIOUS
  <1> HIDE DEF D, f, g, h, k
  <1>8. SumFunctionOnSet(g, D) = SumFunctionOnSet(f, D) + (g[id] - f[id])
    BY <1>1, <1>2, <1>3, <1>7, SumMoves
  <1>9. BookTotal' = SumFunctionOnSet(g, D) /\ LagTotal' = SumFunctionOnSet(k, D)
    BY <1>6, <1>7, Zenon
  <1>10. ASSUME connected PROVE LagTotal' = LagTotal - (Exposure(p) - Exposure(orders[id]))
    <2>1. Exposure(view[id]) \in Int BY <1>1, <1>10, ExposureType DEF WellFormed
    <2>2. k[id] \in Int BY <1>2, <1>4, <2>1
    <2>3. SumFunctionOnSet(k, D) = SumFunctionOnSet(h, D) + (k[id] - h[id])
      BY <1>1, <1>4, <1>7, <1>10, <2>2, SumMoves
    <2>4. SumFunctionOnSet(h, D) \in Int BY <1>1, <1>10, SumInt
    <2> QED BY <1>2, <1>4, <1>5, <1>9, <2>1, <2>3, <2>4
  <1> QED BY <1>3, <1>5, <1>8, <1>9, <1>10

\* An order comes into the book.
LEMMA BookGrows ==
    ASSUME ExecInv, NEW id, id \notin DOMAIN orders, NEW p \in Order,
           DOMAIN orders' = DOMAIN orders \cup {id}, orders'[id] = p,
           \A i \in DOMAIN orders : orders'[i] = orders[i], view' = view
    PROVE  /\ BookTotal' = BookTotal + Exposure(p)
           /\ (connected /\ id \in DOMAIN view) =>
                LagTotal' = LagTotal + (Exposure(view[id]) - Exposure(p))
  <1> DEFINE D == DOMAIN orders
             E == D \cup {id}
             f == InBook
             g == InBook'
             h == Lag
             k == Lag'
  <1>1. /\ IsFiniteSet(D) /\ \A i \in D : f[i] \in Int
        /\ connected => \A i \in D : h[i] \in Int
        /\ \A i \in DOMAIN view : WellFormed(view[i])
    BY Terms
  <1>2. Exposure(p) \in Int BY ExposureType
  <1>3. g[id] = Exposure(p) /\ \A i \in D : g[i] = f[i] BY DEF InBook
  <1>4. k[id] = Exposure(view[id]) - Exposure(p) /\ \A i \in D : k[i] = h[i] BY DEF Lag
  <1>5. BookTotal = SumFunctionOnSet(f, D) /\ LagTotal = SumFunctionOnSet(h, D) BY Totals
  <1>6. /\ BookTotal' = SumFunctionOnSet(g, DOMAIN orders')
        /\ LagTotal' = SumFunctionOnSet(k, DOMAIN orders')
    BY TotalsNext
  <1>7. DOMAIN orders' = E /\ id \notin D OBVIOUS
  <1>8. BookTotal' = SumFunctionOnSet(g, E) /\ LagTotal' = SumFunctionOnSet(k, E)
    <2> HIDE DEF E, g, k
    <2> QED BY <1>6, <1>7, Zenon
  <1> HIDE DEF D, f, g, h, k
  <1>9. SumFunctionOnSet(g, E) = SumFunctionOnSet(f, D) + g[id]
    BY <1>1, <1>2, <1>3, <1>7, SumGrows
  <1>10. ASSUME connected, id \in DOMAIN view
         PROVE  LagTotal' = LagTotal + (Exposure(view[id]) - Exposure(p))
    <2>1. Exposure(view[id]) \in Int BY <1>1, <1>10, ExposureType DEF WellFormed
    <2>2. k[id] \in Int BY <1>2, <1>4, <2>1
    <2>3. SumFunctionOnSet(k, E) = SumFunctionOnSet(h, D) + k[id]
      BY <1>1, <1>4, <1>7, <1>10, <2>2, SumGrows
    <2> HIDE DEF E
    <2> QED BY <1>4, <1>5, <1>8, <2>3
  <1> HIDE DEF E
  <1> QED BY <1>3, <1>5, <1>8, <1>9, <1>10

\* What the trader's copies add up to.
ViewFilled == [id \in DOMAIN view |-> view[id].filledQty]
ViewExposed == [id \in DOMAIN view |-> Exposure(view[id])]
FilledTotal == TotalOf(ViewFilled)
ExposedTotal == TotalOf(ViewExposed)

LEMMA ViewTotals ==
    /\ FilledTotal = SumFunctionOnSet(ViewFilled, DOMAIN view)
    /\ ExposedTotal = SumFunctionOnSet(ViewExposed, DOMAIN view)
    /\ CountersMatchView <=> (connected => /\ perf.qtyFilled = FilledTotal
                                           /\ running => perf.qty = ExposedTotal)
  <1>1. DOMAIN ViewFilled = DOMAIN view /\ DOMAIN ViewExposed = DOMAIN view
    BY DEF ViewFilled, ViewExposed
  <1>2. FilledTotal = SumFunctionOnSet(ViewFilled, DOMAIN view)
    BY <1>1, Zenon DEF FilledTotal, TotalOf
  <1>3. ExposedTotal = SumFunctionOnSet(ViewExposed, DOMAIN view)
    BY <1>1, Zenon DEF ExposedTotal, TotalOf
  <1>4. CountersMatchView <=> (connected => /\ perf.qtyFilled = FilledTotal
                                            /\ running => perf.qty = ExposedTotal)
    BY Zenon DEF CountersMatchView, FilledTotal, ExposedTotal, ViewFilled, ViewExposed
  <1> QED BY <1>2, <1>3, <1>4

LEMMA ViewTotalsNext ==
    /\ FilledTotal' = SumFunctionOnSet(ViewFilled, DOMAIN view)'
    /\ ExposedTotal' = SumFunctionOnSet(ViewExposed, DOMAIN view)'
    /\ CountersMatchView' <=> (connected' => /\ perf'.qtyFilled = FilledTotal'
                                             /\ running' => perf'.qty = ExposedTotal')
  <1>1. (/\ FilledTotal = SumFunctionOnSet(ViewFilled, DOMAIN view)
         /\ ExposedTotal = SumFunctionOnSet(ViewExposed, DOMAIN view)
         /\ CountersMatchView <=> (connected => /\ perf.qtyFilled = FilledTotal
                                                /\ running => perf.qty = ExposedTotal))'
    BY ViewTotals, PTL
  <1> QED BY <1>1

LEMMA ViewTerms ==
    ASSUME ExecInv
    PROVE  /\ IsFiniteSet(DOMAIN view)
           /\ \A id \in DOMAIN view : ViewFilled[id] \in Int /\ ViewExposed[id] \in Int
           /\ FilledTotal \in Int /\ ExposedTotal \in Int
  <1>1. IsFiniteSet(DOMAIN view) /\ \A id \in DOMAIN view : WellFormed(view[id])
    BY Terms
  <1>2. \A id \in DOMAIN view : ViewFilled[id] \in Int /\ ViewExposed[id] \in Int
    BY <1>1, OrderNumbers, ExposureType DEF WellFormed, ViewFilled, ViewExposed
  <1>3. FilledTotal \in Int
    <2>1. SumFunctionOnSet(ViewFilled, DOMAIN view) \in Int BY <1>1, <1>2, SumInt
    <2> QED BY <2>1, ViewTotals
  <1>4. ExposedTotal \in Int
    <2>1. SumFunctionOnSet(ViewExposed, DOMAIN view) \in Int BY <1>1, <1>2, SumInt
    <2> QED BY <2>1, ViewTotals
  <1> QED BY <1>1, <1>2, <1>3, <1>4

LEMMA SameView ==
    ASSUME view' = view
    PROVE  FilledTotal' = FilledTotal /\ ExposedTotal' = ExposedTotal
  BY DEF FilledTotal, ExposedTotal, ViewFilled, ViewExposed

\* The trader gets a copy of a new order.
LEMMA ViewGrows ==
    ASSUME ExecInv, NEW id, id \notin DOMAIN view, NEW o \in Order,
           DOMAIN view' = DOMAIN view \cup {id}, view'[id] = o,
           \A i \in DOMAIN view : view'[i] = view[i]
    PROVE  /\ FilledTotal' = FilledTotal + o.filledQty
           /\ ExposedTotal' = ExposedTotal + Exposure(o)
  <1> DEFINE D == DOMAIN view
             E == D \cup {id}
             f == ViewFilled
             g == ViewFilled'
             h == ViewExposed
             k == ViewExposed'
  <1>1. IsFiniteSet(D) /\ \A i \in D : f[i] \in Int /\ h[i] \in Int BY ViewTerms
  <1>2. Exposure(o) \in Int /\ o.filledQty \in Int BY ExposureType, OrderNumbers
  <1>3. g[id] = o.filledQty /\ \A i \in D : g[i] = f[i] BY DEF ViewFilled
  <1>4. k[id] = Exposure(o) /\ \A i \in D : k[i] = h[i] BY DEF ViewExposed
  <1>5. FilledTotal = SumFunctionOnSet(f, D) /\ ExposedTotal = SumFunctionOnSet(h, D)
    BY ViewTotals
  <1>6. /\ FilledTotal' = SumFunctionOnSet(g, DOMAIN view')
        /\ ExposedTotal' = SumFunctionOnSet(k, DOMAIN view')
    BY ViewTotalsNext
  <1>7. DOMAIN view' = E /\ id \notin D OBVIOUS
  <1>8. FilledTotal' = SumFunctionOnSet(g, E) /\ ExposedTotal' = SumFunctionOnSet(k, E)
    <2> HIDE DEF E, g, k
    <2> QED BY <1>6, <1>7, Zenon
  <1> HIDE DEF D, f, g, h, k
  <1>9. SumFunctionOnSet(g, E) = SumFunctionOnSet(f, D) + g[id]
    BY <1>1, <1>2, <1>3, <1>7, SumGrows
  <1>10. SumFunctionOnSet(k, E) = SumFunctionOnSet(h, D) + k[id]
    BY <1>1, <1>2, <1>4, <1>7, SumGrows
  <1> HIDE DEF E
  <1> QED BY <1>3, <1>4, <1>5, <1>8, <1>9, <1>10

\* The trader gets a newer copy, of an order that is in the book.
LEMMA ViewMoves ==
    ASSUME ExecInv, NEW id \in DOMAIN view, NEW o \in Order,
           DOMAIN view' = DOMAIN view, view'[id] = o,
           \A i \in DOMAIN view : i # id => view'[i] = view[i]
    PROVE  /\ FilledTotal' = FilledTotal + (o.filledQty - view[id].filledQty)
           /\ ExposedTotal' = ExposedTotal + (Exposure(o) - Exposure(view[id]))
  <1> DEFINE D == DOMAIN view
             f == ViewFilled
             g == ViewFilled'
             h == ViewExposed
             k == ViewExposed'
  <1>1. IsFiniteSet(D) /\ \A i \in D : f[i] \in Int /\ h[i] \in Int BY ViewTerms
  <1>2. Exposure(o) \in Int /\ o.filledQty \in Int BY ExposureType, OrderNumbers
  <1>3. /\ g[id] = o.filledQty /\ f[id] = view[id].filledQty
        /\ \A i \in D \ {id} : g[i] = f[i]
    BY DEF ViewFilled
  <1>4. /\ k[id] = Exposure(o) /\ h[id] = Exposure(view[id])
        /\ \A i \in D \ {id} : k[i] = h[i]
    BY DEF ViewExposed
  <1>5. FilledTotal = SumFunctionOnSet(f, D) /\ ExposedTotal = SumFunctionOnSet(h, D)
    BY ViewTotals
  <1>6. /\ FilledTotal' = SumFunctionOnSet(g, DOMAIN view')
        /\ ExposedTotal' = SumFunctionOnSet(k, DOMAIN view')
    BY ViewTotalsNext
  <1>7. DOMAIN view' = D /\ id \in D OBVIOUS
  <1> HIDE DEF D, f, g, h, k
  <1>8. FilledTotal' = SumFunctionOnSet(g, D) /\ ExposedTotal' = SumFunctionOnSet(k, D)
    BY <1>6, <1>7, Zenon
  <1>9. SumFunctionOnSet(g, D) = SumFunctionOnSet(f, D) + (g[id] - f[id])
    BY <1>1, <1>2, <1>3, <1>7, SumMoves
  <1>10. SumFunctionOnSet(k, D) = SumFunctionOnSet(h, D) + (k[id] - h[id])
    BY <1>1, <1>2, <1>4, <1>7, SumMoves
  <1> QED BY <1>3, <1>4, <1>5, <1>8, <1>9, <1>10

\* ... and lags behind the book by less.
LEMMA LagMoves ==
    ASSUME ExecInv, connected, NEW id \in DOMAIN view, NEW o \in Order,
           id \in DOMAIN orders, orders' = orders,
           DOMAIN view' = DOMAIN view, view'[id] = o,
           \A i \in DOMAIN view : i # id => view'[i] = view[i]
    PROVE  LagTotal' = LagTotal + (Exposure(o) - Exposure(view[id]))
  <1> DEFINE D == DOMAIN orders
             h == Lag
             k == Lag'
  <1>1. /\ IsFiniteSet(D) /\ \A i \in D : h[i] \in Int
        /\ orders[id] \in Order /\ WellFormed(view[id]) /\ D \subseteq DOMAIN view
    BY Terms
  <1>2. Exposure(o) \in Int /\ Exposure(orders[id]) \in Int /\ Exposure(view[id]) \in Int
    BY <1>1, ExposureType DEF WellFormed
  <1>3. /\ h[id] = Exposure(view[id]) - Exposure(orders[id])
        /\ k[id] = Exposure(o) - Exposure(orders[id])
        /\ \A i \in D \ {id} : k[i] = h[i]
    BY <1>1 DEF Lag
  <1>4. LagTotal = SumFunctionOnSet(h, D) BY Totals
  <1>5. LagTotal' = SumFunctionOnSet(k, DOMAIN orders') BY TotalsNext
  <1>6. DOMAIN orders' = D /\ id \in D OBVIOUS
  <1> HIDE DEF D, h, k
  <1>7. LagTotal' = SumFunctionOnSet(k, D) BY <1>5, <1>6, Zenon
  <1>8. k[id] \in Int BY <1>2, <1>3
  <1>9. SumFunctionOnSet(k, D) = SumFunctionOnSet(h, D) + (k[id] - h[id])
    BY <1>1, <1>3, <1>6, <1>8, SumMoves
  <1>10. SumFunctionOnSet(h, D) \in Int BY <1>1, SumInt
  <1> QED BY <1>2, <1>3, <1>4, <1>7, <1>9, <1>10

-----------------------------------------------------------------------------
(* The sums, step by step *)

TotalsTyped == BookTotal \in Nat /\ AskedTotal \in Nat

LEMMA TermsNext == ExecInv' => TotalsTyped'
  <1>1. ExecInv => TotalsTyped BY Terms DEF TotalsTyped
  <1> QED BY <1>1, PTL

\* The counters and the budget, in terms of the totals.
LEMMA SumsMeaning ==
    ASSUME BudgetInv
    PROVE  /\ connected => /\ perf.qtyFilled = FilledTotal
                           /\ running => perf.qty = ExposedTotal
           /\ (connected /\ running) => perf.qty = BookTotal + AskedTotal + LagTotal
           /\ BookTotal + AskedTotal <= qtyTarget
           /\ BookTotal \in Nat /\ AskedTotal \in Nat
           /\ connected => LagTotal \in Nat
           /\ FilledTotal \in Int /\ ExposedTotal \in Int
           /\ qtyTarget \in Nat /\ perf \in Counters
  <1>1. ExecInv /\ CountersMatchView /\ BudgetKept /\ NeverOvertrades
    BY DEF BudgetInv, SumsAgree
  <1>2. perf \in Counters BY <1>1 DEF ExecInv, TraderInv, TraderTyped
  <1>3. qtyTarget \in Nat BY TargetAssumption
  <1> QED BY <1>1, <1>2, <1>3, Totals, ViewTotals, Terms, ViewTerms DEF BudgetKept

LEMMA StillWithin ==
    ASSUME NEW a \in Nat, NEW b \in Nat, NEW c \in Nat, NEW d \in Nat, NEW t \in Nat,
           c + d <= a + b, a + b <= t
    PROVE  c + d <= t
  OBVIOUS

\* A step that changes none of what the trader has counted, and asks the market
\* for no more.
LEMMA NoMoreAsked ==
    ASSUME BudgetInv, ExecInv', UNCHANGED <<view, perf>>,
           connected' => connected, running' => running,
           BookTotal' + AskedTotal' <= BookTotal + AskedTotal,
           (connected /\ running /\ running') =>
               BookTotal' + AskedTotal' + LagTotal' = BookTotal + AskedTotal + LagTotal
    PROVE  SumsAgree'
  <1>1. /\ connected => /\ perf.qtyFilled = FilledTotal
                        /\ running => perf.qty = ExposedTotal
        /\ (connected /\ running) => perf.qty = BookTotal + AskedTotal + LagTotal
        /\ BookTotal + AskedTotal <= qtyTarget
        /\ BookTotal \in Nat /\ AskedTotal \in Nat /\ qtyTarget \in Nat
    BY SumsMeaning
  <1>2. BookTotal' \in Nat /\ AskedTotal' \in Nat BY TermsNext DEF TotalsTyped
  <1>3. FilledTotal' = FilledTotal /\ ExposedTotal' = ExposedTotal BY SameView
  <1>4. CountersMatchView' BY <1>1, <1>3, ViewTotalsNext
  <1>5. BudgetKept' BY <1>1 DEF BudgetKept
  <1>6. BookTotal' + AskedTotal' <= qtyTarget
    <2>1. /\ BookTotal \in Nat /\ AskedTotal \in Nat /\ qtyTarget \in Nat
          /\ BookTotal + AskedTotal <= qtyTarget
      BY <1>1
    <2> QED BY <1>2, <2>1, StillWithin
  <1>7. NeverOvertrades' BY <1>6, TotalsNext
  <1> QED BY <1>4, <1>5, <1>7 DEF SumsAgree

\* An order of the book moves on: what it no longer takes, the trader will hear.
LEMMA BookShrinks ==
    ASSUME BudgetInv, ExecInv', NEW id \in DOMAIN orders,
           DOMAIN orders' = DOMAIN orders,
           \A i \in DOMAIN orders : i # id => orders'[i] = orders[i],
           orders'[id].orderQty = orders[id].orderQty,
           \/ ~IsFinal(orders[id])
           \/ /\ orders'[id].status = orders[id].status
              /\ orders'[id].filledQty = orders[id].filledQty,
           UNCHANGED <<view, perf, connected, running>>, AskedTotal' = AskedTotal
    PROVE  SumsAgree'
  <1> DEFINE o == orders[id]
             p == orders'[id]
  <1>1. ExecInv /\ IInv' BY DEF BudgetInv, ExecInv
  <1>2. o \in Order /\ p \in Order /\ p.filledQty <= p.orderQty
    BY <1>1 DEF ExecInv, IInv, TypeOK, QuantitiesMatchStatus
  <1>3. /\ Exposure(o) \in Nat /\ Exposure(p) \in Nat /\ o.orderQty \in Nat
        /\ p.filledQty \in Nat
    BY <1>2, ExposureType, OrderNumbers
  <1>4. /\ BookTotal' = BookTotal + (Exposure(p) - Exposure(o))
        /\ connected => LagTotal' = LagTotal - (Exposure(p) - Exposure(o))
    BY <1>1, <1>2, BookMoves
  <1> HIDE DEF o
  <1>5. Exposure(p) <= Exposure(o)
    <2> HIDE DEF p
    <2>1. p.orderQty = o.orderQty BY DEF o, p
    <2>2. ~IsFinal(o) \/ (p.status = o.status /\ p.filledQty = o.filledQty)
      BY DEF o, p
    <2>3. CASE ~IsFinal(o) BY <1>2, <1>3, <2>1, <2>3 DEF Exposure
    <2>4. CASE p.status = o.status /\ p.filledQty = o.filledQty
      BY <1>3, <2>1, <2>4 DEF Exposure, IsFinal
    <2> QED BY <2>2, <2>3, <2>4
  <1> HIDE DEF p
  <1>6. /\ BookTotal \in Nat /\ AskedTotal \in Nat
        /\ connected => LagTotal \in Nat
    BY SumsMeaning
  <1>7. BookTotal' + AskedTotal' <= BookTotal + AskedTotal
    BY <1>3, <1>4, <1>5, <1>6
  <1>8. (connected /\ running /\ running') =>
          BookTotal' + AskedTotal' + LagTotal' = BookTotal + AskedTotal + LagTotal
    BY <1>3, <1>4, <1>6
  <1> QED BY <1>7, <1>8, NoMoreAsked

LEMMA MatchUpdatesAgrees ==
    ASSUME BudgetInv, ExecInv', NEW id \in matching, MatchUpdates(id), UNCHANGED traderVars
    PROVE  SumsAgree'
  <1> DEFINE m == Match(orders[id], queueVol[id], mds[orders[id].symbol])
  <1>1. IInv BY DEF BudgetInv, ExecInv
  <1>2. /\ canceling = NoOrder /\ id \in DOMAIN orders /\ id \in Unfinished
        /\ Extends(orders[id], m.order)
    BY <1>1, MatchingFacts DEF Unfinished
  <1>3. /\ orders' = [orders EXCEPT ![id] = m.order] /\ UNCHANGED running
        /\ UNCHANGED <<view, perf, connected, requests>>
    BY DEF MatchUpdates, traderVars
  <1> HIDE DEF m
  <1>4. ~IsFinal(orders[id])
    BY <1>1, <1>2, NoOrderIsNone DEF IInv, TypeOK, OpenOrdersRest
  <1>5. /\ DOMAIN orders' = DOMAIN orders
        /\ \A i \in DOMAIN orders : i # id => orders'[i] = orders[i]
        /\ orders'[id].orderQty = orders[id].orderQty
    BY <1>2, <1>3 DEF Extends
  <1> QED BY <1>2, <1>3, <1>4, <1>5, SameRequests, BookShrinks

LEMMA CancelFinishAgrees ==
    ASSUME BudgetInv, ExecInv', CancelFinish, UNCHANGED traderVars
    PROVE  SumsAgree'
  <1> DEFINE id == canceling
             o == orders[id]
             p == [o EXCEPT !.cancelQty = o.orderQty - o.filledQty]
  <1>1. IInv BY DEF BudgetInv, ExecInv
  <1>2. /\ id \in DOMAIN orders /\ orders' = [orders EXCEPT ![id] = p]
        /\ UNCHANGED <<running, view, perf, connected, requests>>
    BY <1>1 DEF CancelFinish, IInv, TypeOK, traderVars
  <1>3. o \in Order BY <1>1, <1>2 DEF IInv, TypeOK
  <1>4. p.orderQty = o.orderQty /\ p.status = o.status /\ p.filledQty = o.filledQty
    BY <1>3 DEF Order
  <1> HIDE DEF p
  <1>5. /\ DOMAIN orders' = DOMAIN orders /\ orders'[id] = p
        /\ \A i \in DOMAIN orders : i # id => orders'[i] = orders[i]
    BY <1>2
  <1> HIDE DEF id
  <1> QED BY <1>2, <1>4, <1>5, SameRequests, BookShrinks

LEMMA CancelMarkAgrees ==
    ASSUME BudgetInv, ExecInv', NEW id \in OrderIds, CancelMark(id),
           UNCHANGED <<view, perf, connected>>, AskedTotal' = AskedTotal
    PROVE  SumsAgree'
  <1> DEFINE o == orders[id]
             status == IF o.filledQty = 0 THEN CANCELED ELSE PARTIALCANCEL
             p == [o EXCEPT !.status = status]
  <1>1. /\ id \in DOMAIN orders /\ ~IsFinal(o) /\ UNCHANGED running
        /\ orders' = [orders EXCEPT ![id] = p]
    BY DEF CancelMark, Cancelable
  <1>2. o \in Order BY <1>1 DEF BudgetInv, ExecInv, IInv, TypeOK
  <1> HIDE DEF status
  <1>3. p.orderQty = o.orderQty BY <1>2 DEF Order
  <1> HIDE DEF p
  <1>4. /\ DOMAIN orders' = DOMAIN orders /\ orders'[id] = p
        /\ \A i \in DOMAIN orders : i # id => orders'[i] = orders[i]
    BY <1>1
  <1> QED BY <1>1, <1>3, <1>4, BookShrinks

\* The book takes an order.
LEMMA PlacedAgrees ==
    ASSUME BudgetInv, ExecInv', TakeTask, Head(requests).op = "place",
           Place(Head(requests).order)
    PROVE  SumsAgree'
  <1> DEFINE o == Head(requests).order
             id == o.id
  <1>1. ExecInv BY DEF BudgetInv
  <1>2. /\ requests # <<>> /\ requests' = Tail(requests)
        /\ UNCHANGED <<view, perf, connected>>
    BY <1>1, TaskIsTaken
  <1>3. /\ id \in 1..lastId /\ id \notin DOMAIN orders
        /\ id \in DOMAIN view => view[id] = o
    BY <1>1, <1>2, NextTask
  <1>4. PICK p : /\ running /\ UNCHANGED running
                 /\ WellFormed(o) /\ WellFormed(p) /\ Follows(o, p) /\ o.status = UNSENT
                 /\ orders' = With(orders, id, p)
    BY <1>1, TakenEffect
  <1>5. AskedTotal = o.orderQty + AskedTotal' /\ AskedTotal' \in Nat
    BY <1>1, <1>2, AskedTaken DEF AskedBy
  <1> HIDE DEF id, o
  <1>6. p \in Order /\ o \in Order BY <1>4 DEF WellFormed
  <1>7. /\ DOMAIN orders' = DOMAIN orders \cup {id} /\ orders'[id] = p
        /\ \A i \in DOMAIN orders : orders'[i] = orders[i]
    BY <1>3, <1>4 DEF With
  <1>8. /\ BookTotal' = BookTotal + Exposure(p)
        /\ (connected /\ id \in DOMAIN view) =>
             LagTotal' = LagTotal + (Exposure(view[id]) - Exposure(p))
    BY <1>1, <1>2, <1>3, <1>6, <1>7, BookGrows
  <1>9. connected => id \in DOMAIN view
    BY <1>1, <1>3 DEF ExecInv, TraderInv, NumbersKnown
  <1>10. Exposure(o) = o.orderQty /\ Exposure(p) <= Exposure(o)
    <2>1. ~IsFinal(o) BY <1>4, StatusKinds DEF IsFinal
    <2> QED BY <1>4, <2>1, ExposureShrinks
  <1>11. Exposure(p) \in Nat /\ o.orderQty \in Nat
    BY <1>6, ExposureType, OrderNumbers
  <1>12. BookTotal \in Nat /\ (connected => LagTotal \in Nat) BY SumsMeaning
  <1>13. BookTotal' + AskedTotal' <= BookTotal + AskedTotal
    BY <1>5, <1>8, <1>10, <1>11, <1>12
  <1>14. (connected /\ running /\ running') =>
           BookTotal' + AskedTotal' + LagTotal' = BookTotal + AskedTotal + LagTotal
    BY <1>3, <1>5, <1>8, <1>9, <1>10, <1>11, <1>12
  <1> QED BY <1>2, <1>4, <1>13, <1>14, NoMoreAsked

\* Nothing is counted, asked for or given up.
LEMMA QuietAgrees ==
    ASSUME BudgetInv, ExecInv', UNCHANGED <<running, orders, view, perf>>,
           connected' => connected, AskedTotal' = AskedTotal
    PROVE  SumsAgree'
  <1>1. BookTotal' = BookTotal /\ LagTotal' = LagTotal BY SameOrders
  <1>2. BookTotal \in Nat /\ AskedTotal \in Nat BY SumsMeaning
  <1>3. BookTotal' + AskedTotal' <= BookTotal + AskedTotal BY <1>1, <1>2
  <1>4. (connected /\ running /\ running') =>
          BookTotal' + AskedTotal' + LagTotal' = BookTotal + AskedTotal + LagTotal
    BY <1>1
  <1> QED BY <1>3, <1>4, NoMoreAsked

\* A stopped book drops an order.
LEMMA DroppedAgrees ==
    ASSUME BudgetInv, ExecInv', ~running, UNCHANGED bookVars,
           UNCHANGED <<view, perf, connected>>, AskedTotal' <= AskedTotal
    PROVE  SumsAgree'
  <1>0. ASSUME NEW a \in Nat, NEW b \in Nat, NEW d \in Nat, d <= b
        PROVE  a + d <= a + b
    BY <1>0
  <1>1. UNCHANGED <<running, orders>> BY DEF bookVars
  <1>2. BookTotal' = BookTotal BY <1>1, SameOrders
  <1>3. BookTotal \in Nat /\ AskedTotal \in Nat BY SumsMeaning
  <1>4. AskedTotal' \in Nat BY TermsNext DEF TotalsTyped
  <1>5. BookTotal + AskedTotal' <= BookTotal + AskedTotal
    BY <1>0, <1>3, <1>4, Zenon
  <1>6. BookTotal' + AskedTotal' <= BookTotal + AskedTotal BY <1>2, <1>5, Zenon
  <1> QED BY <1>1, <1>6, NoMoreAsked

LEMMA TakeTaskAgrees ==
    ASSUME BudgetInv, ExecInv', TakeTask
    PROVE  SumsAgree'
  <1> DEFINE task == Head(requests)
  <1>1. ExecInv BY DEF BudgetInv
  <1>2. /\ requests # <<>> /\ requests' = Tail(requests) /\ task \in Task
        /\ UNCHANGED <<view, perf, connected>>
    BY <1>1, TaskIsTaken
  <1>3. AskedTotal = AskedBy(task) + AskedTotal' /\ AskedTotal' \in Nat
    BY <1>1, <1>2, AskedTaken
  <1>4. AskedTotal' = AskedTotal \/ task.op = "place"
    <2>1. CASE task.op # "place"
      <3>1. AskedBy(task) = 0 BY <2>1 DEF AskedBy
      <3> QED BY <1>3, <3>1
    <2> QED BY <2>1
  <1>5. AskedTotal' <= AskedTotal
    <2>1. CASE task.op = "place"
      <3>1. task.order \in Order BY <1>2, <2>1, TaskTypes
      <3>2. task.order.orderQty \in Nat BY <3>1, OrderNumbers
      <3> QED BY <1>3, <2>1, <3>2 DEF AskedBy
    <2>2. CASE task.op # "place" BY <1>3, <1>4, <2>2
    <2> QED BY <2>1, <2>2
  <1>6. CASE task.op = "place" /\ Place(task.order)
    BY <1>6, PlacedAgrees
  <1>7. CASE task.op = "place" /\ ~running /\ UNCHANGED bookVars
    BY <1>2, <1>5, <1>7, DroppedAgrees
  <1>8. CASE task.op = "subscribe" /\ Subscribe
    BY <1>2, <1>4, <1>8, QuietAgrees DEF Subscribe
  <1>9. CASE task.op = "unsubscribe" /\ Unsubscribe
    BY <1>2, <1>4, <1>9, QuietAgrees DEF Unsubscribe
  <1>10. CASE task.op = "cancel" /\ CancelMark(task.id)
    <2>1. task.id \in OrderIds BY <1>2, <1>10, TaskTypes
    <2>2. AskedTotal' = AskedTotal BY <1>4, <1>10
    <2> QED BY <1>2, <1>10, <2>1, <2>2, CancelMarkAgrees
  <1>11. CASE task.op = "cancel" /\ CancelIgnored(task.id)
    BY <1>2, <1>4, <1>11, QuietAgrees DEF CancelIgnored, bookVars
  <1> QED BY <1>6, <1>7, <1>8, <1>9, <1>10, <1>11 DEF TakeTask

\* The book stops and forgets its orders.
LEMMA StopBookAgrees ==
    ASSUME BudgetInv, ExecInv', Stop, UNCHANGED traderVars
    PROVE  SumsAgree'
  <1>1. /\ running' = FALSE /\ DOMAIN orders' = {}
        /\ UNCHANGED <<view, perf, connected, requests>>
    BY DEF Stop, traderVars
  <1>2. BookTotal' = 0
    <2>1. BookTotal' = SumFunctionOnSet(InBook', DOMAIN orders') BY TotalsNext
    <2>2. BookTotal' = SumFunctionOnSet(InBook', {}) BY <1>1, <2>1, Zenon
    <2> QED BY <2>2, SumEmpty
  <1>3. AskedTotal' = AskedTotal BY <1>1, SameRequests
  <1>4. BookTotal \in Nat /\ AskedTotal \in Nat BY SumsMeaning
  <1>5. BookTotal' + AskedTotal' <= BookTotal + AskedTotal BY <1>2, <1>3, <1>4
  <1> QED BY <1>1, <1>5, NoMoreAsked

\* The differences the trader books are those of its copies.
LEMMA RecordedCounts ==
    ASSUME NEW p \in Counters, NEW o, NEW pre, WellFormed(o), WellFormed(pre),
           ~IsFinal(pre), Follows(pre, o)
    PROVE  /\ Recorded(p, o, pre).qtyFilled = p.qtyFilled + (o.filledQty - pre.filledQty)
           /\ Recorded(p, o, pre).qty = p.qty + (Exposure(o) - Exposure(pre))
  <1>1. /\ o.filledQty \in Nat /\ pre.filledQty \in Nat /\ o.orderQty \in Nat
        /\ pre.orderQty = o.orderQty
    BY OrderNumbers DEF WellFormed, Follows, SameTerms
  <1>2. p.qty \in Int /\ p.qtyFilled \in Int BY DEF Counters
  <1>3. Recorded(p, o, pre).qtyFilled = p.qtyFilled + (o.filledQty - pre.filledQty)
    BY DEF Recorded
  <1>4. Exposure(pre) = o.orderQty BY <1>1 DEF Exposure
  <1> DEFINE returned == o.status \in {PARTIALCANCEL, CANCELED, REJECTED}
  <1>5. Recorded(p, o, pre).qty = p.qty - (IF returned THEN o.orderQty - o.filledQty ELSE 0)
    BY DEF Recorded
  <1>6. Exposure(o) = IF returned THEN o.filledQty ELSE o.orderQty
    BY <1>1, StatusKinds DEF Exposure, IsFinal, WellFormed
  <1> HIDE DEF returned
  <1>7. Recorded(p, o, pre).qty = p.qty + (Exposure(o) - Exposure(pre))
    <2>1. CASE returned BY <1>1, <1>2, <1>4, <1>5, <1>6, <2>1
    <2>2. CASE ~returned BY <1>1, <1>2, <1>4, <1>5, <1>6, <2>2
    <2> QED BY <2>1, <2>2
  <1> QED BY <1>3, <1>7

\* An update: what it brings leaves the lag and enters the counters.
LEMMA UpdateAgrees ==
    ASSUME BudgetInv, ExecInv', OnOrderUpdate
    PROVE  SumsAgree'
  <1> DEFINE u == Head(callbacks)
             id == u.id
             pre == view[id]
  <1>1. ExecInv BY DEF BudgetInv
  <1>2. /\ 1 \in DOMAIN callbacks /\ u = callbacks[1]
        /\ u \in Order /\ WellFormed(u)
        /\ \/ view' = view /\ perf' = perf
           \/ /\ DOMAIN view' = DOMAIN view \cup {id} /\ view'[id] = u
              /\ \A i \in DOMAIN view : i # id => view'[i] = view[i]
              /\ perf' = Recorded(perf, u, PreOrder(u))
              /\ IsNewerThan(u, PreOrder(u))
        /\ UNCHANGED <<running, orders, connected, requests>>
    BY <1>1, UpdateEffect
  <1>3. /\ connected => id \in DOMAIN view
        /\ id \in DOMAIN view => Follows(pre, u) /\ WellFormed(pre)
        /\ running => id \in DOMAIN orders
    BY <1>1, <1>2
    DEF ExecInv, TraderInv, UpdatesFollow, TraderTyped, NumbersKnown, BookRemembers
  <1>4. AskedTotal' = AskedTotal BY <1>2, SameRequests
  <1>5. BookTotal' = BookTotal BY <1>2, SameOrders
  <1>6. /\ connected => /\ perf.qtyFilled = FilledTotal
                        /\ running => perf.qty = ExposedTotal
        /\ (connected /\ running) => perf.qty = BookTotal + AskedTotal + LagTotal
        /\ BookTotal + AskedTotal <= qtyTarget
        /\ BookTotal \in Nat /\ AskedTotal \in Nat
        /\ connected => LagTotal \in Nat
        /\ FilledTotal \in Int /\ ExposedTotal \in Int
        /\ perf \in Counters
    BY SumsMeaning
  <1>7. NeverOvertrades' BY <1>4, <1>5, <1>6, TotalsNext
  <1>8. CASE view' = view /\ perf' = perf
    BY <1>2, <1>4, <1>8, QuietAgrees
  <1>9. CASE ~connected
    BY <1>2, <1>7, <1>9, ViewTotalsNext DEF SumsAgree, BudgetKept
  <1>10. CASE connected /\ ~(view' = view /\ perf' = perf)
    <2>1. /\ id \in DOMAIN view /\ Follows(pre, u) /\ WellFormed(pre)
          /\ DOMAIN view' = DOMAIN view /\ view'[id] = u
          /\ \A i \in DOMAIN view : i # id => view'[i] = view[i]
      BY <1>2, <1>3, <1>10
    <2>2. PreOrder(u) = pre BY <2>1 DEF PreOrder
    <2>3. perf' = Recorded(perf, u, pre) /\ ~IsFinal(pre)
      BY <1>2, <1>10, <2>2 DEF IsNewerThan
    <2>4. /\ FilledTotal' = FilledTotal + (u.filledQty - pre.filledQty)
          /\ ExposedTotal' = ExposedTotal + (Exposure(u) - Exposure(pre))
      <3> HIDE DEF u
      <3> QED BY <1>1, <1>2, <2>1, ViewMoves
    <2>5. running => LagTotal' = LagTotal + (Exposure(u) - Exposure(pre))
      <3> HIDE DEF u
      <3> QED BY <1>1, <1>2, <1>3, <1>10, <2>1, LagMoves
    <2> HIDE DEF u, pre
    <2>6. /\ perf'.qtyFilled = perf.qtyFilled + (u.filledQty - pre.filledQty)
          /\ perf'.qty = perf.qty + (Exposure(u) - Exposure(pre))
      BY <1>2, <1>6, <2>1, <2>3, RecordedCounts
    <2>7. perf'.qtyFilled = FilledTotal' BY <1>6, <1>10, <2>4, <2>6
    <2>8. running => perf'.qty = ExposedTotal' BY <1>6, <1>10, <2>4, <2>6
    <2>9. /\ Exposure(u) \in Int /\ Exposure(pre) \in Int /\ perf.qty \in Int
      BY <1>2, <1>6, <2>1, ExposureType DEF WellFormed, Counters
    <2>10. ASSUME running
           PROVE  perf'.qty = BookTotal + AskedTotal + LagTotal'
      <3>1. /\ perf.qty = BookTotal + AskedTotal + LagTotal
            /\ BookTotal \in Int /\ AskedTotal \in Int /\ LagTotal \in Int
        BY <1>6, <1>10, <2>10
      <3>2. LagTotal' = LagTotal + (Exposure(u) - Exposure(pre)) BY <2>5, <2>10
      <3> QED BY <2>6, <2>9, <3>1, <3>2
    <2>11. CountersMatchView' BY <1>2, <2>7, <2>8, ViewTotalsNext
    <2>12. BudgetKept' BY <1>2, <1>4, <1>5, <2>10 DEF BudgetKept
    <2> QED BY <1>7, <2>11, <2>12 DEF SumsAgree
  <1> QED BY <1>8, <1>9, <1>10

\* Numbers the trader gives out are new to the book.
LEMMA LagKept ==
    ASSUME orders' = orders, \A id \in DOMAIN orders : view'[id] = view[id]
    PROVE  LagTotal' = LagTotal
  <1>1. Lag' = Lag BY DEF Lag
  <1> QED BY <1>1 DEF LagTotal

LEMMA AskedWithin ==
    ASSUME NEW b \in Nat, NEW a \in Nat, NEW l \in Nat, NEW q \in Int, NEW x \in Nat,
           NEW t \in Nat, q = b + a + l, q + x <= t
    PROVE  b + (a + x) <= t /\ q + x = b + (a + x) + l
  OBVIOUS

\* The trader asks for more, within what its target leaves.
LEMMA PlaceOrderAgrees ==
    ASSUME BudgetInv, ExecInv', NEW r \in Requests, PlaceOrder(r)
    PROVE  SumsAgree'
  <1> DEFINE n == lastId + 1
             o == NextOrder(r)
  <1>1. ExecInv BY DEF BudgetInv
  <1>2. /\ n \in OrderIds /\ view' = With(view, n, o) /\ lastId' = n
        /\ requests' = Append(requests, PlaceTask(o))
        /\ perf' = [perf EXCEPT !.qty = @ + r.qty]
        /\ perf.qty + r.qty <= qtyTarget
        /\ UNCHANGED <<running, orders, callbacks, algoStatus, connected, cancelTask>>
    BY DEF PlaceOrder, MayPlace, bookVars
  <1>3. connected /\ running BY DEF PlaceOrder, MayPlace
  <1>4. /\ o = OrderOf(n, r) /\ WellFormed(o) /\ o.id = n /\ o.status = UNSENT
        /\ o.orderQty = r.qty /\ o.filledQty = 0 /\ r.qty \in Nat
    BY <1>2, NewIsWellFormed DEF NextOrder
  <1>5. n \notin DOMAIN view /\ n \notin DOMAIN orders
    <2>1. /\ lastId \in Nat /\ DOMAIN view \subseteq 1..lastId
          /\ DOMAIN orders \subseteq 1..lastId
      BY <1>1 DEF ExecInv, TraderInv, TraderTyped, NumbersKnown
    <2> QED BY <2>1
  <1> HIDE DEF n, o
  <1>6. /\ DOMAIN view' = DOMAIN view \cup {n} /\ view'[n] = o
        /\ \A i \in DOMAIN view : view'[i] = view[i]
    BY <1>2, <1>5 DEF With
  <1>7. o \in Order BY <1>4 DEF WellFormed
  <1>8. Exposure(o) = r.qty
    BY <1>4, StatusKinds DEF Exposure, IsFinal
  <1>9. FilledTotal' = FilledTotal + 0 /\ ExposedTotal' = ExposedTotal + r.qty
    BY <1>1, <1>4, <1>5, <1>6, <1>7, <1>8, ViewGrows
  <1>10. AskedTotal' = AskedTotal + r.qty
    <2>1. PlaceTask(o) \in Task /\ AskedBy(PlaceTask(o)) = r.qty
      BY <1>4, <1>7, TasksOfTrader DEF AskedBy
    <2> QED BY <1>1, <1>2, <2>1, AskedAppended
  <1>11. BookTotal' = BookTotal BY <1>2, SameOrders
  <1>12. LagTotal' = LagTotal
    <2>1. DOMAIN orders \subseteq DOMAIN view BY <1>1, <1>3, Terms
    <2> QED BY <1>2, <1>6, <2>1, LagKept
  <1>13. /\ perf.qtyFilled = FilledTotal /\ perf.qty = ExposedTotal
         /\ perf.qty = BookTotal + AskedTotal + LagTotal
         /\ BookTotal \in Nat /\ AskedTotal \in Nat /\ LagTotal \in Nat
         /\ FilledTotal \in Int /\ ExposedTotal \in Int /\ qtyTarget \in Nat
         /\ perf \in Counters
    BY <1>3, SumsMeaning
  <1>14. perf.qty \in Int BY <1>13 DEF Counters
  <1>15. perf'.qtyFilled = perf.qtyFilled /\ perf'.qty = perf.qty + r.qty
    BY <1>2, <1>13 DEF Counters
  <1>16. /\ BookTotal + (AskedTotal + r.qty) <= qtyTarget
         /\ perf.qty + r.qty = BookTotal + (AskedTotal + r.qty) + LagTotal
    BY <1>2, <1>4, <1>13, <1>14, AskedWithin
  <1>17. CountersMatchView'
    <2>1. perf'.qtyFilled = FilledTotal' BY <1>9, <1>13, <1>15
    <2>2. perf'.qty = ExposedTotal' BY <1>9, <1>13, <1>15
    <2> QED BY <2>1, <2>2, ViewTotalsNext
  <1>18. BudgetKept'
    <2>1. perf'.qty = BookTotal' + AskedTotal' + LagTotal'
      BY <1>10, <1>11, <1>12, <1>15, <1>16
    <2> QED BY <2>1 DEF BudgetKept
  <1>19. NeverOvertrades' BY <1>10, <1>11, <1>16, TotalsNext
  <1> QED BY <1>17, <1>18, <1>19 DEF SumsAgree

\* An order the stopped book refuses counts in qty, and that is given up.
LEMMA PlaceRefusedAgrees ==
    ASSUME BudgetInv, ExecInv', NEW r \in Requests, PlaceRefused(r)
    PROVE  SumsAgree'
  <1> DEFINE n == lastId + 1
             o == [OrderOf(n, r) EXCEPT !.status = REJECTED]
  <1>1. ExecInv BY DEF BudgetInv
  <1>2. /\ n \in OrderIds /\ view' = With(view, n, o)
        /\ perf' = IF IsNewerThan(o, o)
                   THEN Recorded([perf EXCEPT !.qty = @ + r.qty], o, o)
                   ELSE [perf EXCEPT !.qty = @ + r.qty]
        /\ ~running
        /\ UNCHANGED <<running, orders, callbacks, connected, requests>>
    BY DEF PlaceRefused, MayPlace, bookVars, NextOrder
  <1>3. WellFormed(o) /\ ~IsNewerThan(o, o) /\ o.filledQty = 0
    BY <1>2, RefusedIsWellFormed
  <1>4. n \notin DOMAIN view
    <2>1. lastId \in Nat /\ DOMAIN view \subseteq 1..lastId
      BY <1>1 DEF ExecInv, TraderInv, TraderTyped, NumbersKnown
    <2> QED BY <2>1
  <1> HIDE DEF n, o
  <1>5. /\ DOMAIN view' = DOMAIN view \cup {n} /\ view'[n] = o
        /\ \A i \in DOMAIN view : view'[i] = view[i]
    BY <1>2, <1>4 DEF With
  <1>6. o \in Order BY <1>3 DEF WellFormed
  <1>7. FilledTotal' = FilledTotal + 0
    BY <1>1, <1>3, <1>4, <1>5, <1>6, ViewGrows
  <1>8. /\ connected => perf.qtyFilled = FilledTotal
        /\ BookTotal + AskedTotal <= qtyTarget
        /\ FilledTotal \in Int /\ perf \in Counters
    BY SumsMeaning
  <1>9. perf'.qtyFilled = perf.qtyFilled BY <1>2, <1>3, <1>8 DEF Counters
  <1>10. FilledTotal' = FilledTotal BY <1>7, <1>8
  <1>11. CountersMatchView'
    BY <1>2, <1>8, <1>9, <1>10, ViewTotalsNext
  <1>12. BudgetKept' BY <1>2 DEF BudgetKept
  <1>13. BookTotal' = BookTotal /\ AskedTotal' = AskedTotal
    BY <1>2, SameOrders, SameRequests
  <1>14. NeverOvertrades' BY <1>8, <1>13, TotalsNext
  <1> QED BY <1>11, <1>12, <1>14 DEF SumsAgree

\* A request that is not an order asks for nothing.
LEMMA AskedForNothing ==
    ASSUME BudgetInv, NEW t \in Task, t.op # "place", requests' = Append(requests, t)
    PROVE  AskedTotal' = AskedTotal
  <1>1. AskedTotal' = AskedTotal + AskedBy(t) BY AskedAppended DEF BudgetInv
  <1>2. AskedBy(t) = 0 BY DEF AskedBy
  <1>3. AskedTotal \in Nat BY SumsMeaning
  <1> QED BY <1>1, <1>2, <1>3

LEMMA CancelOrderAgrees ==
    ASSUME BudgetInv, ExecInv', NEW id \in OrderIds, CancelOrder(id)
    PROVE  SumsAgree'
  <1>1. /\ UNCHANGED <<running, orders, view, perf, connected>>
        /\ requests' = Append(requests, CancelTask(id))
    BY DEF CancelOrder, bookVars
  <1>2. CancelTask(id) \in Task /\ CancelTask(id).op = "cancel" BY TasksOfTrader
  <1>3. AskedTotal' = AskedTotal BY <1>1, <1>2, AskedForNothing
  <1> QED BY <1>1, <1>3, QuietAgrees

\* A trader that has stopped counts for itself no longer.
LEMMA StopTraderAgrees ==
    ASSUME BudgetInv, ExecInv', StopTrader
    PROVE  SumsAgree'
  <1>1. /\ connected' = FALSE /\ orders' = orders
        /\ requests' = Append(requests, UnsubscribeTask) \/ requests' = requests
    BY DEF StopTrader, bookVars
  <1>2. UnsubscribeTask \in Task /\ UnsubscribeTask.op = "unsubscribe" BY TasksOfTrader
  <1>3. AskedTotal' = AskedTotal
    BY <1>1, <1>2, AskedForNothing, SameRequests
  <1>4. BookTotal' = BookTotal BY <1>1, SameOrders
  <1>5. BookTotal + AskedTotal <= qtyTarget BY SumsMeaning
  <1>6. NeverOvertrades' BY <1>3, <1>4, <1>5, TotalsNext
  <1>7. CountersMatchView' BY <1>1, ViewTotalsNext
  <1>8. BudgetKept' BY <1>1 DEF BudgetKept
  <1> QED BY <1>6, <1>7, <1>8 DEF SumsAgree

-----------------------------------------------------------------------------
LEMMA InitSumsAgree == ExecInit => SumsAgree
  <1> SUFFICES ASSUME ExecInit PROVE SumsAgree OBVIOUS
  <1>1. /\ DOMAIN orders = {} /\ DOMAIN view = {} /\ perf = NoFills
        /\ requests = <<SubscribeTask>>
    BY DEF ExecInit, Init
  <1>2. BookTotal = 0 /\ LagTotal = 0
    <2>1. /\ BookTotal = SumFunctionOnSet(InBook, {})
          /\ LagTotal = SumFunctionOnSet(Lag, {})
      BY <1>1, Totals, Zenon
    <2> QED BY <2>1, SumEmpty
  <1>3. FilledTotal = 0 /\ ExposedTotal = 0
    <2>1. /\ FilledTotal = SumFunctionOnSet(ViewFilled, {})
          /\ ExposedTotal = SumFunctionOnSet(ViewExposed, {})
      BY <1>1, ViewTotals, Zenon
    <2> QED BY <2>1, SumEmpty
  <1>4. AskedTotal = 0
    <2>1. DOMAIN requests = {1} /\ requests[1] = SubscribeTask BY <1>1
    <2>2. AskedFor[1] = 0 BY <2>1 DEF AskedFor, SubscribeTask
    <2>3. First({1}) = 1 /\ {1} \ {1} = {} BY FirstIn
    <2>4. SumFunctionOnSet(AskedFor, {1})
            = AskedFor[First({1})] + SumFunctionOnSet(AskedFor, {1} \ {First({1})})
      BY SumFirst, FS_Singleton
    <2>5. SumFunctionOnSet(AskedFor, {1}) = AskedFor[1] + SumFunctionOnSet(AskedFor, {})
      BY <2>3, <2>4, Zenon
    <2>6. SumFunctionOnSet(AskedFor, {}) = 0 BY SumEmpty
    <2>7. SumFunctionOnSet(AskedFor, {1}) = 0 BY <2>2, <2>5, <2>6
    <2> QED BY <2>1, <2>7, Totals, Zenon
  <1>5. CountersMatchView BY <1>1, <1>3, ViewTotals DEF NoFills
  <1>6. BudgetKept BY <1>1, <1>2, <1>4 DEF BudgetKept, NoFills
  <1>7. NeverOvertrades BY <1>2, <1>4, Totals, TargetAssumption
  <1> QED BY <1>5, <1>6, <1>7 DEF SumsAgree

LEMMA BudgetNextKeeps ==
    ASSUME BudgetInv, [ExecNext]_vars
    PROVE  BudgetInv'
  <1>1. ExecInv' BY ExecNextKeeps DEF BudgetInv
  <1> SUFFICES SumsAgree' BY <1>1 DEF BudgetInv
  <1>2. ASSUME UNCHANGED <<running, orders, view, perf, connected, requests>>
        PROVE  SumsAgree'
    BY <1>1, <1>2, SameRequests, QuietAgrees
  <1>3. CASE UNCHANGED vars BY <1>2, <1>3 DEF vars, bookVars, traderVars
  <1>4. CASE TakeTask BY <1>1, <1>4, TakeTaskAgrees
  <1>5. CASE StrandLoop
    <2>1. UNCHANGED traderVars BY <1>5 DEF StrandLoop
    <2>2. CASE CancelFinish BY <1>1, <2>1, <2>2, CancelFinishAgrees
    <2>3. ASSUME NEW id \in matching, MatchUpdates(id) PROVE SumsAgree'
      BY <1>1, <2>1, <2>3, MatchUpdatesAgrees
    <2>4. ASSUME NEW id \in matching, MatchQueues(id) PROVE SumsAgree'
      BY <1>2, <2>1, <2>4 DEF MatchQueues, traderVars
    <2> QED BY <1>5, <2>2, <2>3, <2>4 DEF StrandLoop, StrandStep
  <1>6. CASE Outside
    <2>1. UNCHANGED traderVars BY <1>6 DEF Outside
    <2>2. CASE Stop BY <1>1, <2>1, <2>2, StopBookAgrees
    <2>3. ASSUME NEW md \in Quotes, OnMarketDepth(md) PROVE SumsAgree'
      BY <1>2, <2>1, <2>3 DEF OnMarketDepth, traderVars
    <2> QED BY <1>6, <2>2, <2>3 DEF Outside
  <1>7. CASE Trader
    <2>1. CASE OnOrderUpdate BY <1>1, <2>1, UpdateAgrees
    <2>2. ASSUME NEW r \in Requests, PlaceOrder(r) PROVE SumsAgree'
      BY <1>1, <2>2, PlaceOrderAgrees
    <2>3. ASSUME NEW r \in Requests, PlaceRefused(r) PROVE SumsAgree'
      BY <1>1, <2>3, PlaceRefusedAgrees
    <2>4. ASSUME NEW id \in OrderIds, CancelOrder(id) PROVE SumsAgree'
      BY <1>1, <2>4, CancelOrderAgrees
    <2>5. CASE StopTrader BY <1>1, <2>5, StopTraderAgrees
    <2>6. CASE Cancel BY <1>2, <2>6 DEF Cancel, bookVars
    <2> QED BY <1>7, <2>1, <2>2, <2>3, <2>4, <2>5, <2>6 DEF Trader
  <1>8. CASE RequestCancel BY <1>2, <1>8 DEF RequestCancel, bookVars
  <1> QED BY <1>3, <1>4, <1>5, <1>6, <1>7, <1>8 DEF ExecNext

LEMMA BudgetHolds == ExecSpec => []BudgetInv
  <1>1. ExecInit => BudgetInv BY InitExecInv, InitSumsAgree DEF BudgetInv
  <1> QED BY <1>1, BudgetNextKeeps, PTL DEF ExecSpec

\* Until it stops, what the trader has counted, difference by difference and from
\* updates that lag behind the book and may be half written, is what its orders
\* add up to.
THEOREM CountersAlwaysMatch == ExecSpec => []CountersMatchView
  <1>1. BudgetInv => CountersMatchView BY DEF BudgetInv, SumsAgree
  <1> QED BY <1>1, BudgetHolds, PTL

\* Whatever the interleaving of orders, quotes, fills, cancellations and stops,
\* what the market has taken, may take and is asked to take never passes the
\* target: qty bounds it from above, by exactly what is still on its way back.
THEOREM NeverTradesBeyondTarget == ExecSpec => []NeverOvertrades
  <1>1. BudgetInv => NeverOvertrades BY DEF BudgetInv, SumsAgree
  <1> QED BY <1>1, BudgetHolds, PTL
=============================================================================
