------------------------- MODULE ReplaySessionProofs -------------------------
(***************************************************************************)
(* A backtest keeps to its window, its replay and strategy never both wait *)
(* and no round starts early, for every trading day, window, delay, set of *)
(* round lengths and list of quotes.  The two lemmas say that the          *)
(* functions of MarketTime agree with Elapsed.                             *)
(***************************************************************************)
EXTENDS ReplaySession, TLAPS

InSession(t) == ~(MorningClose <= t /\ t < AfternoonOpen)

OfTheDay == MarketOpen..MarketClose

\* addMarketDuration moves a time of the day by exactly the market time asked for,
\* or to the close; a wait of 0 seconds must not begin in the break.
LEMMA AddIsElapsed ==
    ASSUME NEW t \in OfTheDay, NEW d \in Nat, d > 0 \/ InSession(t)
    PROVE  /\ AddMarketDuration(t, d) \in OfTheDay
           /\ Elapsed(AddMarketDuration(t, d)) = Earlier(Elapsed(t) + d, Elapsed(MarketClose))
  BY SessionAssumption DEF AddMarketDuration, Elapsed, OfTheDay, InSession, Break, Earlier, Later

\* getMarketDuration is the difference of Elapsed from a time inside a session to
\* a later one that is not inside the break.
LEMMA DurationIsElapsed ==
    ASSUME NEW start \in OfTheDay, InSession(start),
           NEW end \in OfTheDay, ~IsAfternoonBreakTime(end), start <= end
    PROVE  GetMarketDuration(start, end) = Elapsed(end) - Elapsed(start)
  BY SessionAssumption
  DEF GetMarketDuration, Elapsed, OfTheDay, InSession, IsAfternoonBreakTime, Break, Earlier, Later

\* Elapsed counts the sessions of the day.
LEMMA ElapsedOfTheDay ==
    ASSUME NEW t \in OfTheDay
    PROVE  Elapsed(t) \in 0..Elapsed(MarketClose)
  BY SessionAssumption DEF Elapsed, OfTheDay, Earlier, Later

-----------------------------------------------------------------------------
(* The window, and what each wait leaves of it *)

Typed ==
    /\ endTime \in OfTheDay /\ ~IsAfternoonBreakTime(endTime)
    /\ next \in OfTheDay
    /\ left \in Nat

OnCourse ==
    /\ pc \in {"round", "checked"} /\ left > 0 => Elapsed(next) + left = Elapsed(endTime)
    /\ pc \in {"round", "checked"} => Elapsed(next) <= Elapsed(endTime) + 6

Stretched ==
    pc = "cancelled" => left > 0 /\ Elapsed(next) + left <= Elapsed(endTime) + 6

Over == Elapsed(next) <= Elapsed(endTime) + 16

Course == Typed /\ OnCourse /\ Stretched /\ Over

\* A start accepted by preStartCheck begins inside a session, its end is not in the
\* break, and the first wait leaves the rest of its duration.
LEMMA CourseInit == Init => Course
<1> SUFFICES ASSUME Init PROVE Course
  OBVIOUS
<1>1. PICK s \in StartTimes, e \in EndTimes, d \in RandDelays :
        /\ Accepted(s, e)
        /\ endTime = AdjustedEnd(e)
        /\ left = AlgoDuration(s, e) - d
        /\ next = AddMarketDuration(GetAvailableStartMarketTime(s), d)
  BY DEF Init
<1> DEFINE start == GetAvailableStartMarketTime(s)
<1>2. s \in Nat /\ e \in Nat /\ d \in Nat /\ s < e /\ start <= ClosingAuctionBegin
  BY <1>1, ReplayAssumption DEF Accepted
<1>3. start \in OfTheDay /\ InSession(start)
  BY <1>2, SessionAssumption DEF GetAvailableStartMarketTime, OfTheDay, InSession
<1>4. d < AlgoDuration(s, e)
  BY <1>1, ReplayAssumption
<1>5. AlgoDuration(s, e) = GetMarketDuration(start, endTime)
  BY <1>1 DEF AlgoDuration
<1>6. endTime \in Int
  BY <1>1, <1>2, SessionAssumption DEF AdjustedEnd
<1>7. start <= endTime
  BY <1>2, <1>3, <1>4, <1>5, <1>6 DEF GetMarketDuration, OfTheDay
<1>8. endTime \in OfTheDay /\ ~IsAfternoonBreakTime(endTime)
  BY <1>1, <1>2, <1>3, <1>7, SessionAssumption DEF AdjustedEnd, IsAfternoonBreakTime, OfTheDay
<1>9. AlgoDuration(s, e) = Elapsed(endTime) - Elapsed(start)
  BY <1>3, <1>5, <1>7, <1>8, DurationIsElapsed
<1>10. /\ next \in OfTheDay
       /\ Elapsed(next) = Earlier(Elapsed(start) + d, Elapsed(MarketClose))
  BY <1>1, <1>2, <1>3, AddIsElapsed
<1>11. /\ Elapsed(start) \in 0..Elapsed(MarketClose)
       /\ Elapsed(endTime) \in 0..Elapsed(MarketClose)
       /\ Elapsed(MarketClose) \in Nat
  BY <1>3, <1>8, ElapsedOfTheDay, SessionAssumption DEF Elapsed, Earlier, Later
<1>12. Elapsed(next) + left = Elapsed(endTime) /\ left \in Nat /\ Elapsed(next) \in Int
  BY <1>1, <1>2, <1>4, <1>9, <1>10, <1>11 DEF Earlier
<1>13. pc = "round"
  BY DEF Init
<1> QED
  BY <1>8, <1>10, <1>11, <1>12, <1>13 DEF Course, Typed, OnCourse, Stretched, Over

\* A wait moves the next appointment by d of market time, or to the close.
LEMMA AwaitMoves ==
    ASSUME Typed, NEW d \in Nat \ {0}, Await(d)
    PROVE  /\ next' \in OfTheDay /\ endTime' = endTime
           /\ Elapsed(next') = Earlier(Elapsed(next) + d, Elapsed(MarketClose))
           /\ Elapsed(next) \in Nat /\ Elapsed(next') \in Nat /\ Elapsed(endTime) \in Nat
           /\ Elapsed(endTime) <= Elapsed(MarketClose) /\ Elapsed(MarketClose) \in Nat
<1>1. next' = AddMarketDuration(next, d) /\ endTime' = endTime
  BY DEF Await
<1>2. next \in OfTheDay /\ endTime \in OfTheDay
  BY DEF Typed
<1>3. /\ next' \in OfTheDay
      /\ Elapsed(next') = Earlier(Elapsed(next) + d, Elapsed(MarketClose))
  BY <1>1, <1>2, AddIsElapsed
<1>4. Elapsed(MarketClose) \in Nat
  BY SessionAssumption DEF Elapsed, Earlier, Later
<1> QED
  BY <1>1, <1>2, <1>3, <1>4, ElapsedOfTheDay

\* No step leaves the course: the rounds wait, the feed does not touch it.
LEMMA CourseStep == Course /\ [Next]_vars => Course'
<1> SUFFICES ASSUME Course, [Next]_vars PROVE Course'
  OBVIOUS
<1> USE DEF Course, Typed, OnCourse, Stretched, Over
<1>1. ASSUME NEW d \in Durations \cup {left}, TradeRound(d) PROVE Course'
  <2>1. d \in Nat \ {0} /\ d <= left /\ left > 0 /\ left' = left - d
        /\ pc \in {"round", "checked"} /\ pc' = "round"
    BY <1>1, ReplayAssumption DEF TradeRound, AtRound, Resumes
  <2>2. Await(d)
    BY <1>1 DEF TradeRound
  <2> QED
    BY <2>1, <2>2, AwaitMoves DEF Earlier
<1>2. CASE CancelFirst
  <2>1. left > 0 /\ pc \in {"round", "checked"} /\ pc' = "cancelled"
        /\ left' = IF left - 3 > 3 THEN left - 3 ELSE 3
    BY <1>2 DEF CancelFirst, AtRound, Resumes, CancelWait
  <2>2. Await(3)
    BY <1>2 DEF CancelFirst, CancelWait
  <2> QED
    BY <2>1, <2>2, AwaitMoves DEF Earlier
<1>3. CASE TradeAfterCancel
  <2>1. left > 0 /\ pc = "cancelled" /\ pc' = "round" /\ left' = 0
    BY <1>3 DEF TradeAfterCancel, Resumes
  <2>2. Await(left)
    BY <1>3 DEF TradeAfterCancel
  <2> QED
    BY <2>1, <2>2, AwaitMoves DEF Earlier
<1>4. CASE AwaitPending
  <2>1. left' = left /\ pc = "round" /\ pc' = "pending"
    BY <1>4 DEF AwaitPending, Resumes
  <2>2. Await(10)
    BY <1>4 DEF AwaitPending
  <2> QED
    BY <2>1, <2>2, AwaitMoves DEF Earlier
<1>5. ASSUME UNCHANGED <<endTime, left, next>>,
             pc' = pc \/ pc' \in {"done", "crashed"}
      PROVE  Course'
  BY <1>5
<1>6. CASE TradeOnNothing \/ FinishStrategy
  BY <1>5, <1>6 DEF TradeOnNothing, FinishStrategy
<1>7. CASE Feed
  BY <1>5, <1>7 DEF Feed, traderVars, FeedSubscribe, FeedUnsubscribe, FeedResume, DeliverDue,
                    DeliverEarly, DeliverUnheard, FeedEnds, FeedFinish
<1>8. CASE UNCHANGED vars
  BY <1>5, <1>8 DEF vars, traderVars
<1>9. CASE CancelOutOfBest
  <2> DEFINE w == OutOfBestWait
  <2>1. w \in Nat \ {0} /\ w < left /\ left' = left - w /\ pc = "round" /\ pc' = "checked"
    BY <1>9 DEF CancelOutOfBest, OutOfBestWait, CancelWait, Resumes
  <2>2. Await(w)
    BY <1>9 DEF CancelOutOfBest
  <2> HIDE DEF w
  <2> QED
    BY <2>1, <2>2, AwaitMoves DEF Earlier
<1> QED
  BY <1>1, <1>2, <1>3, <1>4, <1>6, <1>7, <1>8, <1>9 DEF Next, Strategy

\* awaitMarketTime, addMarketDuration and preStartCheck together: a backtest's next
\* appointment and what is left of its duration always make up its window.
THEOREM BackTestKeepsItsWindow == Spec => []KeepsItsWindow
<1>1. Course => KeepsItsWindow
  <2> SUFFICES ASSUME Course PROVE KeepsItsWindow
    OBVIOUS
  <2>1. Elapsed(next) \in Int /\ Elapsed(endTime) \in Int
    BY ElapsedOfTheDay, SessionAssumption DEF Course, Typed, Elapsed, Earlier, Later, OfTheDay
  <2> QED
    BY <2>1 DEF Course, Typed, OnCourse, Stretched, Over, KeepsItsWindow, CancelWait
<1> QED
  BY <1>1, CourseInit, CourseStep, PTL DEF Spec

-----------------------------------------------------------------------------
(* The two coroutines *)

Tasks == {"subscribe", "unsubscribe", "feed", "finish"}

Holds(tasks, task) == \E i \in DOMAIN tasks : tasks[i] = task

\* The task that lets the feed go on, when it is not running and not asleep.
FeedHasTask ==
    /\ feed = "none" => Holds(strand, "subscribe")
    /\ feed = "ready" => Holds(strand, "feed")
    /\ feed = "ended" /\ status = "Running" => Holds(strand, "finish")

\* Somebody is awake: the strategy while the feed sleeps and after the trader's end.
Awake ==
    /\ feed = "waiting" /\ ~Ended => strategy = "ready"
    /\ status = "Final" /\ ~Ended => strategy = "ready"

\* The trader's quote is one of those replayed.
QuoteSeen == mdTime # NoTime => position > 0 /\ mdTime <= QuoteTimes[position]

\* A strategy that may start a round has reached its appointment.
AwakeOnTime ==
    strategy = "ready" /\ pc \in {"round", "checked"} /\ status = "Running" => OnTime

HandOver == TypeOK /\ Course /\ FeedHasTask /\ Awake /\ QuoteSeen /\ AwakeOnTime

\* Tasks are added at the end and taken from the front.
LEMMA TaskAdded ==
    ASSUME NEW tasks \in Seq(Tasks), NEW new \in Tasks
    PROVE  /\ Append(tasks, new) \in Seq(Tasks)
           /\ Holds(Append(tasks, new), new)
           /\ \A task : Holds(tasks, task) => Holds(Append(tasks, new), task)
  BY DEF Holds

LEMMA TaskTaken ==
    ASSUME NEW tasks \in Seq(Tasks), tasks # <<>>
    PROVE  /\ Tail(tasks) \in Seq(Tasks)
           /\ \A task : Holds(tasks, task) /\ task # Head(tasks) => Holds(Tail(tasks), task)
<1> SUFFICES ASSUME NEW i \in DOMAIN tasks, tasks[i] # Head(tasks)
             PROVE  i - 1 \in DOMAIN Tail(tasks) /\ Tail(tasks)[i - 1] = tasks[i]
  BY DEF Holds
<1> QED OBVIOUS

LEMMA Woken ==
    ASSUME NEW tasks \in Seq(Tasks)
    PROVE  /\ StrandWoken(tasks) \in Seq(Tasks)
           /\ feed = "waiting" => Holds(StrandWoken(tasks), "feed")
           /\ \A task : Holds(tasks, task) => Holds(StrandWoken(tasks), task)
  BY TaskAdded DEF StrandWoken, Tasks

\* A quote that has not been replayed comes after the trader's last one.
LEMMA QuoteAfter ==
    ASSUME TypeOK, QuoteSeen, HasQuote
    PROVE  /\ Quote \in Nat \ {0} /\ mdTime <= Quote
           /\ position + 1 \in 1..Len(QuoteTimes)
           /\ mdTime # NoTime => mdTime < Quote
<1>1. /\ position \in Nat /\ position < Len(QuoteTimes) /\ Len(QuoteTimes) \in Nat
      /\ \A i \in DOMAIN QuoteTimes : QuoteTimes[i] \in Nat \ {0}
      /\ DOMAIN QuoteTimes = 1..Len(QuoteTimes)
      /\ mdTime \in Nat
  BY ReplayAssumption DEF TypeOK, HasQuote
<1>2. Quote = QuoteTimes[position + 1] /\ position + 1 \in DOMAIN QuoteTimes
  BY <1>1 DEF Quote
<1>3. mdTime # NoTime => mdTime < Quote
  <2> SUFFICES ASSUME mdTime # NoTime PROVE mdTime < Quote
    OBVIOUS
  <2>1. position \in DOMAIN QuoteTimes /\ mdTime <= QuoteTimes[position] /\ position < position + 1
    BY <1>1 DEF QuoteSeen
  <2>2. QuoteTimes[position] < QuoteTimes[position + 1]
    BY <1>2, <2>1, ReplayAssumption
  <2> QED BY <1>1, <1>2, <2>1, <2>2
<1> QED BY <1>1, <1>2, <1>3 DEF NoTime

\* Going to wait: on the timer if the appointment is ahead, and then the feed goes on.
LEMMA HandOverOnAwait ==
    ASSUME HandOver, NEW d \in Nat \ {0}, Await(d), ContextFree,
           pc' \in {"round", "checked", "cancelled", "pending"}, ~Ended, left' \in Nat, Course'
    PROVE  HandOver'
<1> USE DEF HandOver, TypeOK
<1>1. next' \in OfTheDay /\ endTime' \in OfTheDay
  BY DEF Course, Typed
<1>2. next' = AddMarketDuration(next, d)
      /\ UNCHANGED <<status, endTime, mdTime, position, subscribed, bookRunning, registered>>
  BY DEF Await
<1>3. next' \in Nat \ {0} /\ endTime' \in Nat
  BY <1>1, SessionAssumption DEF OfTheDay
<1>4. CASE Ahead(next')
  <2>1. strategy' = "waiting" /\ feed' = FeedWoken /\ strand' = StrandWoken(strand) /\ status = "Running"
    BY <1>2, <1>4 DEF Await, Ahead
  <2>2. /\ strand' \in Seq(Tasks) /\ (feed = "waiting" => Holds(strand', "feed"))
        /\ \A task : Holds(strand, task) => Holds(strand', task)
    BY <2>1, Woken DEF Tasks
  <2>3. TypeOK'
    BY <1>2, <1>3, <2>1, <2>2 DEF FeedWoken, Tasks
  <2>4. FeedHasTask'
    BY <1>2, <2>1, <2>2 DEF FeedHasTask, FeedWoken
  <2>5. Awake'
    BY <1>2, <2>1 DEF Awake, FeedWoken
  <2>6. QuoteSeen' /\ AwakeOnTime'
    BY <1>2, <2>1 DEF QuoteSeen, AwakeOnTime
  <2> QED BY <2>3, <2>4, <2>5, <2>6
<1>5. CASE ~Ahead(next')
  <2>1. strategy' = "ready" /\ UNCHANGED <<feed, strand>>
    BY <1>2, <1>5 DEF Await
  <2>2. TypeOK' /\ FeedHasTask' /\ Awake' /\ QuoteSeen'
    BY <1>2, <1>3, <2>1 DEF FeedHasTask, Awake, QuoteSeen
  <2>3. status = "Running" => next' <= mdTime
    BY <1>3, <1>5 DEF Ahead
  <2>4. AwakeOnTime'
    BY <1>2, <1>3, <2>3 DEF AwakeOnTime, OnTime, DueAt, NoTime, QuotePeriod
  <2> QED BY <2>2, <2>4
<1> QED BY <1>4, <1>5

LEMMA HandOverInit == Init => HandOver
<1> SUFFICES ASSUME Init PROVE HandOver
  OBVIOUS
<1>1. Course
  BY CourseInit
<1>2. endTime \in Nat /\ left \in Nat /\ next \in Nat
  BY <1>1, SessionAssumption DEF Course, Typed, OfTheDay
<1>3. strand \in Seq(Tasks) /\ Holds(strand, "subscribe") /\ Len(QuoteTimes) \in Nat
  BY ReplayAssumption DEF Init, Tasks, Holds
<1>4. /\ status = "Running" /\ pc = "round" /\ strategy = "waiting" /\ mdTime = NoTime
      /\ feed = "none" /\ position = 0
  BY DEF Init
<1>5. subscribed \in BOOLEAN /\ bookRunning \in BOOLEAN /\ registered \in BOOLEAN
  BY DEF Init
<1>6. position \in 0..Len(QuoteTimes) /\ mdTime \in Nat
  BY <1>4, <1>3 DEF NoTime
<1>7. TypeOK
  BY <1>2, <1>3, <1>4, <1>5, <1>6 DEF TypeOK, Tasks, NoTime
<1> QED BY <1>1, <1>3, <1>7 DEF Init, HandOver, FeedHasTask, Awake, QuoteSeen, AwakeOnTime

\* The steps of the strategy.
LEMMA StrategyHandOver == HandOver /\ Course' /\ Strategy => HandOver'
<1> SUFFICES ASSUME HandOver, Course', Strategy PROVE HandOver'
  OBVIOUS
<1> USE DEF HandOver, TypeOK, Ended
<1>0. left' \in Nat
  BY DEF Course, Typed
<1>1. ASSUME NEW d \in Durations \cup {left}, TradeRound(d) PROVE HandOver'
  <2>1. d \in Nat \ {0}
    BY <1>1, ReplayAssumption DEF TradeRound
  <2> QED BY <1>0, <1>1, <2>1, HandOverOnAwait DEF TradeRound, AtRound, Resumes
<1>2. CASE CancelFirst
  <2>1. CancelWait \in Nat \ {0}
    BY DEF CancelWait
  <2> QED BY <1>0, <1>2, <2>1, HandOverOnAwait DEF CancelFirst, AtRound, Resumes
<1>3. CASE TradeAfterCancel
  <2>1. left \in Nat \ {0}
    BY <1>3 DEF TradeAfterCancel, Resumes, Course, Stretched, Typed
  <2> QED BY <1>0, <1>3, <2>1, HandOverOnAwait DEF TradeAfterCancel, Resumes
<1>4. CASE AwaitPending
  <2>1. 10 \in Nat \ {0}
    OBVIOUS
  <2> QED BY <1>0, <1>4, <2>1, HandOverOnAwait DEF AwaitPending, Resumes
<1>5. CASE TradeOnNothing
  BY <1>5 DEF TradeOnNothing, feedVars, FeedHasTask, Awake, QuoteSeen, AwakeOnTime
<1>6. CASE FinishStrategy
  <2>1. /\ pc' = "done" /\ status' = "Final"
        /\ UNCHANGED <<strategy, endTime, left, next, position, subscribed, bookRunning, registered>>
    BY <1>6 DEF FinishStrategy, StopTrader
  <2>2. CASE status = "Running"
    <3>1. /\ mdTime' = NoTime /\ strand' = StrandWoken(Append(strand, "unsubscribe")) /\ feed' = FeedWoken
      BY <1>6, <2>2 DEF FinishStrategy, StopTrader
    <3>2. /\ Append(strand, "unsubscribe") \in Seq(Tasks)
          /\ \A task : Holds(strand, task) => Holds(Append(strand, "unsubscribe"), task)
      BY TaskAdded DEF Tasks
    <3>3. /\ strand' \in Seq(Tasks) /\ (feed = "waiting" => Holds(strand', "feed"))
          /\ \A task : Holds(strand, task) => Holds(strand', task)
      BY <3>1, <3>2, Woken
    <3>4. TypeOK'
      BY <2>1, <3>1, <3>3 DEF FeedWoken, Tasks, NoTime
    <3>5. FeedHasTask'
      BY <2>1, <3>1, <3>3 DEF FeedHasTask, FeedWoken
    <3> QED BY <2>1, <3>1, <3>4, <3>5 DEF Awake, QuoteSeen, AwakeOnTime
  <2>3. CASE status # "Running"
    <3>1. UNCHANGED <<status, mdTime, strand, feed>>
      BY <1>6, <2>3 DEF FinishStrategy
    <3> QED BY <2>1, <3>1 DEF FeedHasTask, Awake, QuoteSeen, AwakeOnTime
  <2> QED BY <2>2, <2>3
<1>7. CASE CancelOutOfBest
  <2>1. OutOfBestWait \in Nat \ {0}
    BY <1>7 DEF CancelOutOfBest, OutOfBestWait, CancelWait
  <2> QED BY <1>0, <1>7, <2>1, HandOverOnAwait DEF CancelOutOfBest, Resumes
<1> QED BY <1>1, <1>2, <1>3, <1>4, <1>5, <1>6, <1>7 DEF Strategy

\* The steps of the feed.
LEMMA FeedHandOver == HandOver /\ Course' /\ Feed => HandOver'
<1> SUFFICES ASSUME HandOver, Course', Feed PROVE HandOver'
  OBVIOUS
<1> USE DEF HandOver, TypeOK, Ended, traderVars
<1>1. CASE FeedSubscribe
  <2>1. /\ Tail(strand) \in Seq(Tasks) /\ strand' = Append(Tail(strand), "feed")
        /\ feed' = "ready" /\ subscribed' = TRUE /\ UNCHANGED <<traderVars, position, bookRunning, registered>>
    BY <1>1, TaskTaken DEF FeedSubscribe, StrandTask, Tasks
  <2>2. strand' \in Seq(Tasks) /\ Holds(strand', "feed")
    BY <2>1, TaskAdded DEF Tasks
  <2> QED BY <2>1, <2>2 DEF FeedHasTask, Awake, QuoteSeen, AwakeOnTime, OnTime, DueAt, Tasks
<1>2. CASE FeedUnsubscribe
  <2>1. /\ strand' \in Seq(Tasks) /\ subscribed' = FALSE
        /\ UNCHANGED <<traderVars, feed, position, bookRunning, registered>>
        /\ \A task : Holds(strand, task) /\ task # "unsubscribe" => Holds(strand', task)
    BY <1>2, TaskTaken DEF FeedUnsubscribe, StrandTask, Tasks
  <2> QED BY <2>1 DEF FeedHasTask, Awake, QuoteSeen, AwakeOnTime, OnTime, DueAt, Tasks
<1>3. CASE FeedResume
  <2>1. /\ strand' \in Seq(Tasks) /\ feed' = "running"
        /\ UNCHANGED <<traderVars, position, subscribed, bookRunning, registered>>
    BY <1>3, TaskTaken DEF FeedResume, StrandTask, Tasks
  <2> QED BY <2>1 DEF FeedHasTask, Awake, QuoteSeen, AwakeOnTime, OnTime, DueAt, Tasks
<1>4. CASE DeliverDue \/ DeliverEarly \/ DeliverUnheard
  <2>1. /\ HasQuote /\ feed = "running" /\ position' = position + 1
        /\ UNCHANGED <<status, pc, endTime, left, next, subscribed, strand, bookRunning, registered>>
    BY <1>4 DEF DeliverDue, DeliverEarly, DeliverUnheard, HasQuote
  <2>2. /\ Quote \in Nat \ {0} /\ mdTime <= Quote /\ position + 1 \in 1..Len(QuoteTimes)
        /\ mdTime # NoTime => mdTime < Quote
    BY <2>1, QuoteAfter
  <2>3. Quote = QuoteTimes[position']
    BY <2>1 DEF Quote
  <2>4. CASE DeliverDue
    <3>1. /\ mdTime' = Quote /\ feed' = "waiting" /\ strategy' = "ready" /\ status = "Running"
          /\ Quote + QuotePeriod >= next
      BY <2>4 DEF DeliverDue, DueAt
    <3>2. TypeOK' /\ FeedHasTask' /\ Awake'
      BY <2>1, <2>2, <3>1 DEF FeedHasTask, Awake
    <3>3. QuoteSeen'
      BY <2>1, <2>2, <2>3, <3>1 DEF QuoteSeen
    <3>4. AwakeOnTime'
      BY <2>1, <2>2, <3>1 DEF AwakeOnTime, OnTime, DueAt, NoTime
    <3> QED BY <3>2, <3>3, <3>4
  <2>5. CASE DeliverEarly
    <3>1. /\ mdTime' = Quote /\ UNCHANGED <<strategy, feed>> /\ status = "Running"
          /\ ~(Quote + QuotePeriod >= next)
      BY <2>5 DEF DeliverEarly, DueAt
    <3>2. TypeOK' /\ FeedHasTask' /\ Awake'
      BY <2>1, <2>2, <3>1 DEF FeedHasTask, Awake
    <3>3. QuoteSeen'
      BY <2>1, <2>2, <2>3, <3>1 DEF QuoteSeen
    <3>4. ~(strategy = "ready" /\ pc \in {"round", "checked"})
      BY <2>2, <3>1 DEF AwakeOnTime, OnTime, DueAt, QuotePeriod
    <3>5. AwakeOnTime'
      BY <2>1, <3>1, <3>4 DEF AwakeOnTime
    <3> QED BY <3>2, <3>3, <3>5
  <2>6. CASE DeliverUnheard
    <3>1. /\ UNCHANGED <<mdTime, feed>>
          /\ strategy' = strategy \/ (strategy' = "ready" /\ status = "Final")
      BY <2>6 DEF DeliverUnheard
    <3>2. TypeOK' /\ FeedHasTask' /\ Awake'
      BY <2>1, <2>2, <3>1 DEF FeedHasTask, Awake
    <3>3. QuoteSeen'
      BY <2>1, <2>2, <2>3, <3>1 DEF QuoteSeen
    <3>4. AwakeOnTime'
      BY <2>1, <3>1 DEF AwakeOnTime, OnTime, DueAt
    <3> QED BY <3>2, <3>3, <3>4
  <2> QED BY <1>4, <2>4, <2>5, <2>6
<1>5. CASE FeedEnds
  <2>1. /\ strand' = Append(strand, "finish") /\ feed' = "ended"
        /\ UNCHANGED <<traderVars, position, subscribed, bookRunning, registered>>
    BY <1>5 DEF FeedEnds
  <2>2. strand' \in Seq(Tasks) /\ Holds(strand', "finish")
    BY <2>1, TaskAdded DEF Tasks
  <2> QED BY <2>1, <2>2 DEF FeedHasTask, Awake, QuoteSeen, AwakeOnTime, OnTime, DueAt, Tasks
<1>6. CASE FeedFinish
  <2>1. /\ Tail(strand) \in Seq(Tasks)
        /\ \A task : Holds(strand, task) /\ task # "finish" => Holds(Tail(strand), task)
        /\ UNCHANGED <<pc, endTime, left, next, feed, position, subscribed>>
        /\ bookRunning' = FALSE /\ registered' = FALSE
    BY <1>6, TaskTaken DEF FeedFinish, StrandTask, Tasks
  <2>2. CASE status = "Running"
    <3>1. /\ status' = "Final" /\ mdTime' = NoTime /\ strategy' = "ready"
          /\ strand' = StrandWoken(Append(Tail(strand), "unsubscribe"))
      BY <1>6, <2>2 DEF FeedFinish, StopTrader
    <3>2. /\ Append(Tail(strand), "unsubscribe") \in Seq(Tasks)
          /\ \A task : Holds(Tail(strand), task) => Holds(Append(Tail(strand), "unsubscribe"), task)
      BY <2>1, TaskAdded DEF Tasks
    <3>3. /\ strand' \in Seq(Tasks)
          /\ \A task : Holds(strand, task) /\ task # "finish" => Holds(strand', task)
      BY <2>1, <3>1, <3>2, Woken
    <3> QED BY <2>1, <3>1, <3>3 DEF FeedHasTask, Awake, QuoteSeen, AwakeOnTime, Tasks, NoTime
  <2>3. CASE status # "Running"
    <3>1. strand' = Tail(strand) /\ UNCHANGED <<status, mdTime, strategy>>
      BY <1>6, <2>3 DEF FeedFinish
    <3> QED BY <2>1, <2>3, <3>1 DEF FeedHasTask, Awake, QuoteSeen, AwakeOnTime, Tasks
  <2> QED BY <2>2, <2>3
<1> QED BY <1>1, <1>2, <1>3, <1>4, <1>5, <1>6 DEF Feed

LEMMA HandOverStep == HandOver /\ [Next]_vars => HandOver'
<1>1. HandOver /\ [Next]_vars => Course'
  BY CourseStep DEF HandOver
<1>2. HandOver /\ UNCHANGED vars => HandOver'
  <2> SUFFICES ASSUME HandOver, UNCHANGED vars PROVE HandOver'
    OBVIOUS
  <2>1. Course' /\ TypeOK'
    BY <1>1 DEF HandOver, TypeOK, vars, traderVars, feedVars
  <2> QED BY <2>1 DEF HandOver, FeedHasTask, Awake, QuoteSeen, AwakeOnTime, OnTime, DueAt, Holds, Ended,
                      vars, traderVars, feedVars
<1> QED BY <1>1, <1>2, StrategyHandOver, FeedHandOver DEF Next

\* Every variable of a backtest has its type.
THEOREM BackTestTyped == Spec => []TypeOK
<1>1. HandOver => TypeOK
  BY DEF HandOver
<1> QED BY <1>1, HandOverInit, HandOverStep, PTL DEF Spec

\* The one timer both coroutines wait on never has both asleep: whoever goes to wait
\* wakes the other, and a trader that stops leaves nobody behind.
THEOREM OneIsAlwaysAwake == Spec => []NeverBothWaiting
<1>1. HandOver => NeverBothWaiting
  <2> SUFFICES ASSUME HandOver PROVE NeverBothWaiting
    OBVIOUS
  <2> QED BY DEF HandOver, TypeOK, FeedHasTask, Awake, NeverBothWaiting, Holds
<1> QED BY <1>1, HandOverInit, HandOverStep, PTL DEF Spec

\* No round starts before the replay has come to its time, whoever woke the strategy:
\* the replay at the appointment, an appointment already past, or the trader's end.
THEOREM RoundsAreOnTime == Spec => RoundsStartOnTime
<1>1. HandOver /\ [Next]_vars => [(pc \in {"round", "checked"} /\ (left' < left \/ pc' = "cancelled")) => OnTime]_vars
  <2> SUFFICES ASSUME HandOver, Next, pc \in {"round", "checked"}, left' < left \/ pc' = "cancelled"
               PROVE  OnTime
    OBVIOUS
  <2>1. ~Feed
    <3> SUFFICES ASSUME Feed PROVE FALSE
      OBVIOUS
    <3>1. UNCHANGED <<left, pc>>
      BY DEF Feed, traderVars, FeedSubscribe, FeedUnsubscribe, FeedResume, DeliverDue,
             DeliverEarly, DeliverUnheard, FeedEnds, FeedFinish
    <3> QED BY <3>1 DEF HandOver, TypeOK
  <2>2. strategy = "ready" /\ status = "Running"
    BY <2>1 DEF Next, Strategy, CancelOutOfBest, TradeRound, CancelFirst, TradeAfterCancel, TradeOnNothing,
                AwaitPending, FinishStrategy, AtRound, Resumes, HandOver, TypeOK
  <2> QED BY <2>2 DEF HandOver, AwakeOnTime
<1> QED BY <1>1, HandOverInit, HandOverStep, PTL DEF Spec, RoundsStartOnTime
==============================================================================
