---------------------------- MODULE ReplaySession ----------------------------
(***************************************************************************)
(* A backtest (QuoteMode::REPLAY): the quote feed (quote/QuoteFeedReplay)   *)
(* and the trader's schedule (algo/AlgoTrader) are two coroutines on one   *)
(* single-threaded context that hand the time line to each other through   *)
(* one timer that never expires (common/waiting.h).  Whoever waits on it   *)
(* first wakes the other: the strategy sleeps until the replay reaches its *)
(* next appointment (replayNextQuoteTime), the feed sleeps while the       *)
(* strategy catches up with the quote it was just given.                   *)
(*                                                                         *)
(* Times are seconds of one day.  The strategy's decisions are left out:   *)
(* its rounds are waits of one of Durations that together use up the       *)
(* duration of the algo, as SliceExecution splits it; the last slice and   *)
(* the last round may begin with a wait of their own, after cancelling     *)
(* orders.                                                                 *)
(***************************************************************************)
EXTENDS MarketTime, Sequences

CONSTANTS
    QuoteTimes,   \* the quotes of the trader's symbol, in order
    StartTimes,   \* startTime and endTime the client may ask for
    EndTimes,
    RandDelays,   \* rand_d, the delay of the first slice
    Durations     \* how long a round may be

-----------------------------------------------------------------------------
(* AlgoTrader::preStartCheck, for a backtest *)

Accepted(start, end) ==
    start < end /\ GetAvailableStartMarketTime(start) <= ClosingAuctionBegin

\* No later than the closing auction, and not in the break.
AdjustedEnd(end) ==
    LET e == IF end > ClosingAuctionBegin THEN ClosingAuctionBegin ELSE end
    IN  IF IsAfternoonBreakTime(e) THEN MorningClose ELSE e

AlgoDuration(start, end) ==
    GetMarketDuration(GetAvailableStartMarketTime(start), AdjustedEnd(end))

\* An algo lasts longer than the delay of its first slice.
ASSUME ReplayAssumption ==
    /\ QuoteTimes \in Seq(Nat \ {0}) /\ QuoteTimes # <<>>
    /\ \A i, j \in DOMAIN QuoteTimes : i < j => QuoteTimes[i] < QuoteTimes[j]
    /\ StartTimes \subseteq Nat /\ EndTimes \subseteq Nat
    /\ RandDelays \subseteq Nat
    /\ \A s \in StartTimes, e \in EndTimes, d \in RandDelays :
          Accepted(s, e) => d < AlgoDuration(s, e)
    /\ Durations \subseteq Nat \ {0}

QuotePeriod == 3   \* the seconds a quote may come before the appointment it serves
CancelWait == 3    \* the seconds to wait for cancellations, at most

NoTime == 0        \* m_md before the first quote and after the stop

VARIABLES
    status,      \* algoPerf.algoStatus, "Running" or "Final"
    pc,          \* where the strategy resumes
    strategy,    \* "ready" to resume, or "waiting" on the timer
    endTime,
    left,        \* what is left of algoDuration
    next,        \* replayNextQuoteTime
    mdTime,      \* quoteTime of the trader's m_md
    feed,        \* what co_run is doing
    position,    \* quotes replayed so far
    subscribed,  \* the trader is in the feed's subscriber maps
    strand,      \* tasks of the feed's strand, "feed" being the coroutine itself
    bookRunning, \* the order book of the backtest
    registered   \* the feed is in QuoteFeedService

traderVars == <<status, pc, strategy, endTime, left, next, mdTime>>
feedVars == <<feed, position, subscribed, strand, bookRunning, registered>>
vars == <<traderVars, feedVars>>

(* AlgoTrader::start up to the first awaitMarketTime(rand_d) of schedual:
   subscribed to the feed, which is not started before that task runs. *)
Init ==
    /\ status = "Running"
    /\ pc = "round"
    /\ strategy = "waiting"
    /\ \E s \in StartTimes, e \in EndTimes, d \in RandDelays :
         /\ Accepted(s, e)
         /\ endTime = AdjustedEnd(e)
         /\ left = AlgoDuration(s, e) - d
         /\ next = AddMarketDuration(GetAvailableStartMarketTime(s), d)
    /\ mdTime = NoTime
    /\ feed = "none"
    /\ position = 0
    /\ subscribed = FALSE
    /\ strand = <<"subscribe">>
    /\ bookRunning = TRUE
    /\ registered = TRUE

\* The process has not died and no coroutine is running: the context is free.
ContextFree == feed # "running" /\ pc # "crashed"

\* Wait2Resume::clear, for the feed: a woken coroutine resumes behind the tasks
\* its strand already has.
FeedWoken == IF feed = "waiting" THEN "ready" ELSE feed
\* Wrong on purpose: the wake-up is lost.
StrandUnwoken(tasks) == tasks

StrandWoken(tasks) == IF feed = "waiting" THEN Append(tasks, "feed") ELSE tasks

-----------------------------------------------------------------------------
\* Wrong on purpose: compares the appointment it has just kept.
AheadOfOld(time) == status = "Running" /\ next > mdTime

\* The appointment is after the last quote and the algo still runs.
Ahead(time) == status = "Running" /\ time > mdTime

(* awaitMarketTime(d) of the running strategy: with the appointment ahead of the
   last quote wait on the timer, which wakes the feed; else only yield. *)
Await(d) ==
    /\ next' = AddMarketDuration(next, d)
    /\ IF Ahead(AddMarketDuration(next, d))
       THEN /\ strategy' = "waiting"
            /\ feed' = FeedWoken
            /\ strand' = StrandWoken(strand)
       ELSE /\ strategy' = "ready"
            /\ UNCHANGED <<feed, strand>>
    /\ UNCHANGED <<status, endTime, mdTime, position, subscribed, bookRunning, registered>>

Resumes(at) == ContextFree /\ strategy = "ready" /\ pc = at

AtRound == Resumes("round") \/ Resumes("checked")

\* Wrong on purpose: the last round is as long as the others.
TradeRoundWhole(d) ==
    /\ AtRound
    /\ status = "Running" /\ left > 0
    /\ left' = left - d
    /\ pc' = "round"
    /\ Await(d)

\* All but the last second of a short slice.
OutOfBestWait == IF left - CancelWait > 1 THEN CancelWait ELSE left - 1

(* executeSlicer for the last slice with orders that are not at the best price:
   cancel them, wait, and plan without looking at the status again. *)
CancelOutOfBest ==
    /\ Resumes("round")
    /\ status = "Running" /\ left > 1
    /\ left' = left - OutOfBestWait
    /\ pc' = "checked"
    /\ Await(OutOfBestWait)

(* A round of slicePolicy or lastSlicePolicy: trade on m_md, then wait. *)
TradeRound(d) ==
    /\ AtRound
    /\ status = "Running" /\ d <= left /\ left > 0
    /\ left' = left - d
    /\ pc' = "round"
    /\ Await(d)

(* The last round of lastSlicePolicy with orders pending: cancel them and wait
   for that; what is left of the slice is stretched to leave time for the rest. *)
CancelFirst ==
    /\ AtRound
    /\ status = "Running" /\ left > 0
    /\ left' = IF left - CancelWait > CancelWait THEN left - CancelWait ELSE CancelWait
    /\ pc' = "cancelled"
    /\ Await(CancelWait)

(* The rest of that round, which does not look at the status again. *)
TradeAfterCancel ==
    /\ Resumes("cancelled")
    /\ mdTime # NoTime
    /\ left' = 0
    /\ pc' = "round"
    /\ Await(left)

(* After either wait once stop() has reset m_md: a null pointer is dereferenced, in
   executeSlicer only for an order with a participation rate. *)
TradeOnNothing ==
    /\ Resumes("cancelled") \/ Resumes("checked")
    /\ mdTime = NoTime
    /\ pc' = "crashed"
    /\ UNCHANGED <<status, strategy, endTime, left, next, mdTime, feedVars>>

(* The slices are done with orders pending: wait ten more seconds for them. *)
AwaitPending ==
    /\ Resumes("round")
    /\ status = "Running" /\ left = 0
    /\ pc' = "pending"
    /\ UNCHANGED left
    /\ Await(10)

(* AlgoTrader::stop of a trader that has not stopped: wake the feed if it waits,
   leave the feed and the book, forget the quote. *)
StopTrader(tasks) ==
    /\ status' = "Final"
    /\ mdTime' = NoTime
    /\ strand' = StrandWoken(Append(tasks, "unsubscribe"))

(* schedual() is over and start() returns. *)
FinishStrategy ==
    /\ \/ AtRound /\ (status = "Final" \/ left = 0)
       \/ Resumes("pending")
    /\ IF status = "Running"
       THEN StopTrader(strand) /\ feed' = FeedWoken
       ELSE UNCHANGED <<status, mdTime, strand, feed>>
    /\ pc' = "done"
    /\ UNCHANGED <<strategy, endTime, left, next, position, subscribed, bookRunning, registered>>

-----------------------------------------------------------------------------
StrandTask(task) == ContextFree /\ strand # <<>> /\ Head(strand) = task

(* _subscribe and run(): the first subscriber starts the replay. *)
FeedSubscribe ==
    /\ StrandTask("subscribe")
    /\ subscribed' = TRUE
    /\ strand' = Append(Tail(strand), "feed")
    /\ feed' = "ready"
    /\ UNCHANGED <<traderVars, position, bookRunning, registered>>

FeedUnsubscribe ==
    /\ StrandTask("unsubscribe")
    /\ subscribed' = FALSE
    /\ strand' = Tail(strand)
    /\ UNCHANGED <<traderVars, feed, position, bookRunning, registered>>

(* co_run starts, or goes on after the wait inside co_onMarketDepth: a final
   status ends the turn of the subscribers, and so does being the only one. *)
FeedResume ==
    /\ StrandTask("feed")
    /\ feed' = "running"
    /\ strand' = Tail(strand)
    /\ UNCHANGED <<traderVars, position, subscribed, bookRunning, registered>>

HasQuote == feed = "running" /\ pc # "crashed" /\ position < Len(QuoteTimes)

Quote == QuoteTimes[position + 1]

\* onMarketDepth, then co_onMarketDepth: the quote is close to the appointment.
DueAt(time) == time + QuotePeriod >= next

(* A quote the running trader has an appointment at: keep it, wait and so wake
   the strategy. *)
DeliverDue ==
    /\ HasQuote
    /\ subscribed /\ status = "Running" /\ DueAt(Quote)
    /\ position' = position + 1
    /\ mdTime' = Quote
    /\ feed' = "waiting"
    /\ strategy' = "ready"
    /\ UNCHANGED <<status, pc, endTime, left, next, subscribed, strand, bookRunning, registered>>

(* A quote it has not. *)
DeliverEarly ==
    /\ HasQuote
    /\ subscribed /\ status = "Running" /\ ~DueAt(Quote)
    /\ position' = position + 1
    /\ mdTime' = Quote
    /\ UNCHANGED <<status, pc, strategy, endTime, left, next, feed, subscribed, strand,
                   bookRunning, registered>>

(* A quote after the trader has stopped: it only goes to the book, and wakes the
   strategy if the trader is still subscribed. *)
DeliverUnheard ==
    /\ HasQuote
    /\ ~subscribed \/ status = "Final"
    /\ position' = position + 1
    /\ strategy' = IF subscribed THEN "ready" ELSE strategy
    /\ UNCHANGED <<status, pc, endTime, left, next, mdTime, feed, subscribed, strand,
                   bookRunning, registered>>

\* Wrong on purpose: tells nobody.
FeedEndsSilently ==
    /\ feed = "running" /\ pc # "crashed"
    /\ position = Len(QuoteTimes)
    /\ feed' = "ended"
    /\ UNCHANGED <<traderVars, position, subscribed, strand, bookRunning, registered>>

(* co_run returns and stop() posts the end of the feed. *)
FeedEnds ==
    /\ feed = "running" /\ pc # "crashed"
    /\ position = Len(QuoteTimes)
    /\ feed' = "ended"
    /\ strand' = Append(strand, "finish")
    /\ UNCHANGED <<traderVars, position, subscribed, bookRunning, registered>>

(* The posted end: on this context the callbacks run at once, the book's first,
   then the trader's stop; the feed leaves QuoteFeedService. *)
FeedFinish ==
    /\ StrandTask("finish")
    /\ bookRunning' = FALSE
    /\ registered' = FALSE
    /\ IF status = "Running"
       THEN StopTrader(Tail(strand)) /\ strategy' = "ready"
       ELSE strand' = Tail(strand) /\ UNCHANGED <<status, mdTime, strategy>>
    /\ UNCHANGED <<pc, endTime, left, next, feed, position, subscribed>>

-----------------------------------------------------------------------------
Strategy ==
    \/ \E d \in Durations \cup {left} : TradeRound(d)
    \/ CancelOutOfBest \/ CancelFirst \/ TradeAfterCancel
    \/ TradeOnNothing \/ AwaitPending \/ FinishStrategy

Feed ==
    \/ FeedSubscribe \/ FeedUnsubscribe \/ FeedResume
    \/ DeliverDue \/ DeliverEarly \/ DeliverUnheard
    \/ FeedEnds \/ FeedFinish

Next == Strategy \/ Feed

\* The context runs what is ready; both kinds of work get their turn.
Spec == Init /\ [][Next]_vars /\ WF_vars(Strategy) /\ WF_vars(Feed)

-----------------------------------------------------------------------------
(* Properties *)

\* Every variable has its type.
TypeOK ==
    /\ status \in {"Running", "Final"}
    /\ pc \in {"round", "checked", "cancelled", "pending", "done", "crashed"}
    /\ strategy \in {"ready", "waiting"}
    /\ endTime \in Nat /\ left \in Nat /\ next \in Nat /\ mdTime \in Nat
    /\ feed \in {"none", "ready", "running", "waiting", "ended"}
    /\ position \in 0..Len(QuoteTimes)
    /\ strand \in Seq({"subscribe", "unsubscribe", "feed", "finish"})
    /\ subscribed \in BOOLEAN /\ bookRunning \in BOOLEAN /\ registered \in BOOLEAN

Ended == pc \in {"done", "crashed"}

\* The two coroutines never wait for each other: while the feed waits on the
\* shared timer the strategy is awake, and while the strategy waits the feed is
\* on its way (started, resumed or about to post its end).
NeverBothWaiting ==
    /\ (feed = "waiting" /\ ~Ended) => strategy = "ready"
    /\ (strategy = "waiting" /\ ~Ended) =>
          \/ feed = "running"
          \/ \E i \in DOMAIN strand : strand[i] \in {"subscribe", "feed", "finish"}

\* A backtest keeps to its window whatever the rounds and the break cut it into:
\* what is left of its duration is the market time from its next appointment to
\* its end; waiting for cancellations and for late updates may take it a few
\* seconds beyond.
KeepsItsWindow ==
    /\ pc \in {"round", "checked"} /\ left > 0 => Elapsed(next) + left = Elapsed(endTime)
    /\ pc \in {"round", "checked", "cancelled"} => Elapsed(next) <= Elapsed(endTime) + 2 * CancelWait
    /\ Elapsed(next) <= Elapsed(endTime) + 2 * CancelWait + 10

OnTime == mdTime # NoTime /\ DueAt(mdTime)

\* A round starts only when the replay has reached its time (give or take the
\* one quote period), whatever woke the strategy.
RoundsStartOnTime ==
    [][(pc \in {"round", "checked"} /\ (left' < left \/ pc' = "cancelled")) => OnTime]_vars

\* A backtest comes to its end, or dies on the null pointer: the strategy returns,
\* the trader is final, the book has stopped and the feed is out of the registry.
BackTestEnds ==
    <>(pc = "crashed" \/ (pc = "done" /\ status = "Final" /\ ~bookRunning /\ ~registered))
==============================================================================
