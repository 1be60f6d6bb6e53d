# A verification development of AlgoPulse

AlgoPulse executes algorithmic stock orders (TWAP, VWAP, an intraday "shot"
strategy), live, against simulated order books fed by live quotes, or as a
backtest over replayed quotes.  This directory holds TLA+ modules of its core,
TLC configurations that check them on small instances, and TLAPS proofs, for
instances of any size, about the simulated order book, the trader that works
against it from another thread, the slices of an algo, the two coroutines of a
backtest, the backtest queue and the client sessions.  Paths below are relative to the
repository's `src/`.

## Inventory

One process; every component's work is dispatched to boost::asio contexts, most
of them single-threaded, and to strands.  Concurrency is therefore queues of
tasks, atomics, and pointers that outlive the task that sent them.

| component | state | operations | what is hard |
|---|---|---|---|
| `orderbook/Order.h`, statuses | an order record | `isNewerThan`, `isFinalStatus` | decides which of two versions of an order wins |
| `quote/MarketDepth` | five levels a side | `tryMathWithinPrice`, `getPricezVol` | cumulative levels, rounding |
| `orderbook/OrderBookSim` | orders by number, resting orders and the volume ahead of them, last quotes, accounts, subscribers | subscribe, place, cancel, quote, stop | maps and account kept consistent over long sequences; orders are shared with other threads by pointer |
| `orderbook/OrderService` | books by account | create, find, remove | a book found while it stops |
| `algo/AlgoPerformance` | the trader's copies of its orders, counters | request, update | counters by differences from a copy that may be stale |
| `algo/AlgoTrader` | status, slices, appointment, quote, book and feed pointers | start, slices, place, cancel, update, stop, await | coroutine resumed after stop, late updates |
| `algo/Algo` (TWAP, VWAP), `executeSlicer` | the plan of slices; what the current slice may still make, take and wait | plan, round, last round, final order | last-lot adjustment; plans made from counters that move |
| `algo/AlgoPlacer` | fusion orders in progress | place, report, cancel, finish | an order whose trader fails to start |
| `quote/QuoteFeedReplay`, `common/waiting.h` | position, subscribers, one shared timer | subscribe, replay, stop | two coroutines waking each other |
| `quote/QuoteFeedInternet` | whether it runs, subscription counts, callbacks, last quotes | run, poll, answer, distribute, stop, subscribe | two starts at once; late and reordered answers; quotes shared by pointer |
| `services/AlgoService` | algos by number, backtest queue, two counters | create, update, finish, pop | counters changed by other threads between test and use |
| `services/TCPSession` | sessions, send queues, cached messages | login, send, resend | reconnection, resending |
| `shot/` and `quote/LimitedQueue` | sub-tasks, signals, price window | start, quote, signal, cancel, sub-task done | three threads, the last sub-task, a window that drops what the strategy measures from |
| `common/`: ids, market clock, reference counts | a count per quote | new id; add and measure market time; retain, release | lunch break; a release too many or too few |
| `client/`, storage, configuration, reference data | | | I/O |

How they meet: the dispatcher thread of `AlgoService` creates a trader and
starts its coroutine on a worker context.  The trader obtains a feed and a book,
subscribes to both, and then acts in slices.  Its requests are dispatched to the
book's strand, and the book's updates are dispatched back to the worker context
with a raw pointer to the order.  In a live simulation the book has a context of
its own; in a backtest feed, book and trader share one.

What makes each part correct: an order never fills beyond its size and is never
changed once final; accounts balance; resting orders are exactly the open ones;
the trader's view lags but never leads; the algo never exceeds its target; every
final update arrives; no queued backtest is forgotten; replay and strategy never
wait for each other; no slice trades before its time, and a backtest ends with
its window; slices never commit more than the target and leave nothing of it
undone; a trader's quotes only get newer and live as long as they are used; a
parallel backtest is summarised after its last sub-task.

## Modules

| module | models | composed of |
|---|---|---|
| `Orders` | the order record, its statuses, `isNewerThan` | |
| `MatchEngine` | what one quote does to one order (pure) | `Orders` |
| `OrderBookSim` | the simulated book with its accounts and callbacks | `MatchEngine` |
| `OrderLife` | abstract: what a record of orders promises | |
| `AlgoExecution` | one algo trader against the book, two threads | `OrderBookSim` |
| `SliceExecution` | an algo's target cut into slices, rounds and orders | |
| `AlgoService` | the dispatcher, the backtest queue, finishing traders | |
| `MarketTime` | the trading day and its market durations (pure) | |
| `ReplaySession` | replay coroutine and strategy coroutine on one context | `MarketTime` |
| `QuoteFeed` | the live feed, its subscribers and the reference counts of quotes | |
| `TcpSessions` | the server's end of the client connections | |
| `ShotExecution` | the intraday strategy, its window and fusion orders; the parent of a parallel backtest | |
| `OrderBookSimProofs` | lemmas about one match and about `SumFunctionOnSet`; the book's safety, accounts and queues; it implements `OrderLife` | `OrderBookSim`, `TLAPS` |
| `AlgoExecutionProofs` | the trader's view, counters and target; its view implements `OrderLife` | `AlgoExecution`, `OrderBookSimProofs` |
| `SliceExecutionProofs`, `ReplaySessionProofs`, `AlgoServiceProofs`, `TcpSessionsProofs`, `ShotExecutionProofs`, `QuoteFeedProofs` | theorems | the module named, `TLAPS` |
| `MC*` | values of the constants for TLC | the module named |

### Orders, MatchEngine

Statuses keep their numbers because `isNewerThan` compares with `<= SENTOK`.
Prices are ticks and quantities shares, so the source's comparisons of doubles
within 0.00001 become integer comparisons.  `TryMatch` keeps the source's
cumulative `mathQty`: level *k* contributes the shares of levels 1 to *k*.
`Match` is the whole per-order `simOrderMatchFill`; market time is reduced to the
flag "continuous trading".

### OrderBookSim

Each handler runs on the strand, so handlers do not overlap.  Two are split where
another thread sees the middle: the loop of a quote over the resting orders
publishes after each order (`OnMarketDepth`, then `MatchUpdates` or `MatchQueues`
for each one in the order of the map), and a cancellation writes `status` and
later `cancelQty` into the object that queued callbacks point to (`CancelMark`,
`CancelFinish`).  A queued update is that very object exactly when it equals the
book's record, so `CancelMark` and `CancelFinish` also change the queued updates.
`Stop` is `stop` with its `release`.  `Deliver` is the subscriber's side, which
`AlgoExecution` replaces by the trader's handler.

In the module's own `Next` the book is that of a backtest: a dispatched callback
runs at once, so nothing else happens before it is delivered.

### OrderLife

The abstract specification: an order keeps its terms, fills only while it is open
and never beyond its size, ends once, and once its cancellation is complete is
split exactly into what was filled and what was not.  Its one variable is `life`.
`OrderBookSim` instantiates it with the book's orders (`BookKeepsOrderLife`),
`AlgoExecution` with the trader's copies of them (`ViewKeepsOrderLife`).  A record
at a distance may skip steps but never sees one undone, which is why `Advances` is
a relation between any two moments of an order and not one operation.  The phase
`ending` is the cancellation half written, which both records can hold.

### AlgoExecution

The trader's tasks (`requests`), its callbacks, quotes, the book's stop, the stop
of the trader and the client's cancel interleave freely.  `view` is
`orderId2Order`; `perf` holds the counters.  How much to order, at which price
and when is left open within what `slicePolicy` and `lastSlicePolicy` enforce:
the algo runs and no more than `qtyTarget - qty` is ordered.  `Crashed` is the
process after a null dereference.

### AlgoService

The dispatcher runs one task at a time from a first-in first-out queue; the pop
task is two steps because it counts the trader after it has started it.  A
finishing trader takes three steps: two decrements and a post.  Counters are
unsigned and wrap.

### SliceExecution

`Init` is the plan of `schedual`: `TWAP` or `VWAP`, in whole shares.  `StartSlice`
is `executeSlicer` for all slices but the last: what may be made and what may be
taken, from the counters of that moment, and the number of rounds; `SliceRound` is
`slicePolicy`.  The last slice is `StartLast`, `CancelOutOfBest` and `PlanLast` (its
first cancellations, and the plan made after waiting for them), `LastRound`, and
`CancelAll` with `FinalOrder`.  A last slice of less than a second makes the wait of
`CancelOutOfBest` negative: in a backtest the appointment goes back by it, live there
is no wait, and either may happen.  Between the waits, fills, rejections, answers to
cancellations and traded volume arrive in any order (`Outside`).  Orders appear
only as sums: filled, resting, and resting with a cancellation asked for; that the
counters are such sums is `CountersMatchView` of `AlgoExecution`.

Things the model shows which no document speaks of: making and taking are planned
from the same remainder, so a slice that is not the last can commit the whole
target; `getQtyPendingAtBestPrice` is a stub that returns nothing, so a slice that
is not the last never cancels; while the market's volume has not moved the
participation rate is not applied, and a round that takes does not count what rests
against it; an order that is skipped is deducted from its slice all the same; the
final order is too small by whatever is cancelled after it was computed.  The
history variable `excused` names the cases in which the target is not reached.

### MarketTime, ReplaySession

`MarketTime` holds the functions of `AshareMarketTime` a backtest uses, over whole
seconds of one day with its sessions as constants.  `Elapsed` is not in the source:
it is the trading time since the open, and the functions are right where they
agree with it.

`ReplaySession` starts with the window the client asks for, as `preStartCheck`
accepts and adjusts it.  The strategy is a number of rounds that use up `left`, the
rest of `algoDuration`; the last slice may begin with a wait for the orders it has
cancelled (`CancelOutOfBest`; a slice of one second does not), and the last round may
cancel, wait for that and then wait the rest (`CancelFirst`, `TradeAfterCancel`).  A
task queue stands for the
context: the feed's tasks and the resumption of its coroutine.  `Await` is
`awaitMarketTime` in a backtest, `DeliverDue` the wait inside `co_onMarketDepth`.
`TradeOnNothing` is the null pointer that is found after either wait for
cancellations when the quotes have ended meanwhile: `README.md:42` has the coroutine go on only once the
replay has reached its time, but `stop` wakes it early and has reset `m_md`.

Outside the model because `ReplayAssumption` excludes it: a window that lies inside
the lunch break is accepted although its duration is 0.

### QuoteFeed

`Run` is `createQuoteFeed` with `run`, which looks at `m_keepRuning` before the
coroutine that sets it has begun; of two coroutines started so, the second returns
at once, and its completion (`Finish`) stops the feed that is running.  `Poll`
asks the web service for batches of the symbols that have subscribers; `Trade`,
`Answer` and `Fail` are the service, whose answers are of the moment it gives them
and are handled in any order, after a stop too.  `OnMarketDepth` is the distribution
of one answer on the feed's strand; `Restart` is the other end of a coroutine, by
an exception; `Deliver` runs a posted callback on a trader's
context.  `refs` is `m_refcount`: an entry is an object that has not been
destroyed.  `counts` outlive a stop, so a symbol nobody is called back for is asked
for until its trader unsubscribes.

Abstracted: a quote is its symbol and time, the time being the number of trades;
which symbols are left out of a poll because their quote is less than two seconds
old is open; a quote whose date does not parse gets the current time in the source
and is not distinguished here.  The last poll after the close refers to local
variables of a coroutine that is gone; the model has it ask nothing.

### TcpSessions

Three queues of tasks stand for the threads: `logins` for the dispatcher,
`strand` for the strand of `TCPSessionManager` (tasks of `send`, `reSend` and
`sendMessagesOffset`), and `posted` for each session's own strand on its network
thread (`queueSendMessage2C` and the next `_send`).  `writing` and `reading` are
the outstanding asynchronous operations, `removing` the sessions whose thread
waits for the manager's mutex inside `safeDisConnect`.  `messages` are the numbered
packages.  Their numbers do not ascend: `NewId` is the millisecond of the wall
clock and the low bits of a counter, as in `IdGenerator.h:25-43`, so a later message
has a lower number when the counter wraps within the millisecond or the clock is
set back.  That a number is new is the one thing assumed: equal ones need 65536
messages in a millisecond, or as many before the clock is set back to the same one.
The order of sending is kept in the history field `nth`.
`acctKey2TCPSessions` is the registry under native handles.  A handle is
free for a new socket as soon as the old one is closed, before
`removeTCPSession` has run, and a closed session may still be logged in by a task
that waited on the dispatcher; both orders are in the model.  `sent`, `since`
and `notified` are history.

A consequence of the numbers: a client that logs in anew names the last number it
has received and is sent what is numbered from there; a later message with a lower
number is not among it.  `NothingMissed` promises what was asked for, which is
stated in numbers; `NoneOvertakes` is about `nth` and holds whatever the numbers.

Abstracted: a message is its account, command and whether it is cached; a
connection sends one login; what waits in the queues of a closed socket is
dropped because nothing can be sent on it; the offset stored under the empty
account for an answer is left out because nobody logs in with that account.
`start` stores the native handle after it has started the first read; the model
takes it that no login is handled in between.  A client that is gone before `start`
asks for its address makes it throw (`TCPSession.cpp:28`), which ends the server:
the specification lets a behaviour end at any step, and says nothing more of it.

### ShotExecution

`parallel` (`useMultiThread`) chooses between the two forms of `ShotTrader`.

Alone and live, everything runs on one context, so actions are whole tasks.
`OnMarketDepth` is `onMarketDepth` with `LimitedQueue::append` (`Shifted`),
`triggerShotMinMax` and, on a signal, `placeAlgoOrder`, which runs the new
`AlgoTrader` up to its first wait.  A trader that fails there has already
reported, but its completion (`AlgoInstanceFinished`) is a task of its own, since
boost posts the completion of a coroutine that never suspended; so the order is
in the map when it is erased.  `AlgoUpdate` and `AlgoStop` are what the
`AlgoTrader` reports, turned into the state of one order by `FusionStatus`.
`Cancel` leaves a running `AlgoTrader` as it is: `AlgoTrader::cancel` has no
effect on one (`AlgoExecution` shows it), so it ends by its end time or its fills.
One that has stopped but is still in the placer's map is told to cancel too: it
overwrites a final status that has already been reported and that nobody reads
again, or uses its book, which is gone, and the process ends.  Both are in
`AlgoExecution` (`Cancel`, `Crashed`) and not repeated here.  An `AlgoTrader` that
fails to start has no quote, and `stop` reads the quote's time for the log
(`AlgoTrader.cpp:285`); the model takes it that it survives that.

The parent's `StartParallel` creates one sub-trader per worker.  A sub-trader's
coroutine (`SubStart`, `SubLoop`), the callbacks of its quotes (`SubSignal`,
`SubQuotesEnd`) and the parent's context (`SubTaskBackTestDone`, `Cancel`,
`ShotLoop`) interleave freely, which also covers the context a sub-trader uses
before one is assigned to it (`ShotTrader.cpp:15`).

Abstracted: the algo has an amount, as `algoShot` finds no signal for one with a
quantity; the optional filters of a signal are off; sub-traders find a signal or
not, without prices; backtests of a single trader are the sub-traders.

Operators commented "Wrong on purpose" are variants of the operator after them
with a plausible error, used only to see that a property notices it; nothing in
a specification refers to them.

## Runs

| run | configuration | asks |
|---|---|---|
| `order_book` | `MCOrderBookSim.cfg` | is the book consistent after any sequence of operations, and an `OrderLife`? |
| `algo_execution` | `MCAlgoExecution.cfg` | is the trader's view safe over two threads, does every final update arrive, does every cancel take effect, is the view an `OrderLife`? |
| `backtest_queue` | `MCAlgoService.cfg` | is a waiting backtest ever lost (one category)? |
| `slicing` | `MCSliceExecution.cfg` | do slices stay within the target and on schedule, and reach the target? |
| `replay` | `MCReplaySession.cfg` | do replay and strategy stay in step, keep to the window, and end? |
| `quote_feed` | `MCQuoteFeed.cfg` | do traders get newer quotes only, alive as long as they read them, from a feed that starts twice? |
| `sessions` | `MCTcpSessions.cfg` | does a client receive each message once, in order, and all of them? |
| `shot` | `MCShotExecution.cfg` | is the strategy's end complete: alone after its orders, as a parent after its sub-tasks? |
| `algo_filled_twice` | `MCAlgoFilledTwice.cfg` | counterexample: fills counted again after a stop |
| `algo_client_cancel` | `MCAlgoClientCancel.cfg` | counterexample: a client's cancel is ignored |
| `backtest_mixed` | `MCAlgoServiceMixed.cfg` | counterexample: mixed categories starve the queue |
| `shot_low` | `MCShotWindow.cfg` | counterexample: the low of the window is its highest price |

The last four state what a comment, a protocol file or the README says and the
code does not do; `PROJECT.json` quotes each one.

Bounds, and why they reach the interesting cases:

- `order_book`: one symbol, two orders of three kinds (a buy that pegs at the bid,
  a buy that can take the ask, a sell), five quotes chosen so that each kind is
  aggressive, pegged, passive and outside trading hours, filling partly and
  completely.  Two orders are enough for the loop over resting orders to matter:
  all state is per order except the accounts, which add up over both.
  `AccountsBalance` and `PlaceInQueueKept` need a quote before the first order
  and whole lots; the comments at them say why.
- `algo_execution`: two orders, sizes 200 and 300, target 400,
  so that a second order is possible only after a cancellation or a partial
  result; the book may start without a quote.  Quotes, cancels and stops are
  unbounded; queues are bounded by what two orders can cause.
- `backtest_queue`: four backtests, a live algo and an order without a trader in
  four requests, two workers: both counters reach their limit with two waiting.
  `CounterSize` 16 stands for 2^32; it only has to exceed the number of traders.
- `replay`: a day with a break, eight quotes with gaps in the morning and over the
  break; windows that begin before the open, in both sessions and in the break and
  end in the morning, in the break, in the afternoon and after the close; rounds
  shorter and longer than a quote period, than a gap, and across the break.
- `slicing`: a buy of six lots in four slices of up to three rounds, a volume curve
  that puts most of it in the first, so that the last slice is padded to a lot and
  the plan falls (507, 500, 500, 600), an amount per order that makes the rounds of
  a slice fewer than its lots, two lengths of the last slice (shorter and
  longer than the wait for cancellations), participation limits below and at the
  target, and quotes that take one lot or three.  Fills, rejections and answers come
  a lot at a time or all at once.
- `quote_feed`: two symbols that trade twice and once, one trader of the second and
  one of both, requests of up to two symbols, at most two requests or answers under
  way, two calls of `run`: a batch carries two quotes, two traders share one, answers
  overtake each other, and the feed is started twice at once, or again after its end.
  The two calls are interchangeable, hence the symmetry.
- `sessions`: two connections of one account on one reused handle or two, an order
  report and a quote of which at most two are sent, so that a write is under way
  while a second message and the login's answer arrive.  The clock shows either of
  two milliseconds, in any order, and the counter wraps after two numbers: the four
  messages of a behaviour get the numbers 4, 5, 8 and 9 in ascending and descending
  orders.  The first client wants no old messages, the second names number 5.  The
  two handles are interchangeable, hence the symmetry.  `NothingMissed` speaks of sessions whose handle no other
  session used: on a reused handle the registry can hold a session that is closed,
  and the second disconnection of an old session erases a new one.  A client that
  names a later order than algo message gets order reports from before the number it
  named, since `reSend` tests an order that failed its own test as an algo message
  (`TCPSession.cpp:481`); `NothingMissed` does not mind what comes besides.
- `shot`: four sub-orders on two workers, so that two wait and both kinds of
  completion (with and without a successor) happen in any order.  A window of two
  and eleven quotes of three prices, each more than the range above the one below,
  leave room for a low, a high, a signal and all of it again; quotes drop out of
  the window throughout.  The second tick is the first the algo may act on, so the
  window fills before.  Two fills per order: none, some, all.

Deadlock is not checked: each system stops when its work is done.

## Fairness

- `AlgoExecution`: the strand finishes its handler (weak), takes its next task
  (strong: it is first-in first-out, so quotes, which disable the step while they
  are handled, cannot pass a waiting task for ever), and the worker context runs
  callbacks (weak).  No quote, order, cancel or stop is promised.
- `AlgoService`: the dispatcher's thread runs its queue, and each trader
  eventually ends: a live one has an end time, a backtest ends when its quotes
  do (which `replay` shows).
- `ReplaySession`: the single context runs what is ready; strategy and feed each
  get their turn.
- `ShotExecution`: the contexts run ready tasks and timers fire (`ShotLoop`,
  `SubStart`, `SubLoop`, `SubTaskBackTestDone`, `AlgoInstanceFinished`), replays
  end (`SubQuotesEnd`), an `AlgoTrader` has an end time (`AlgoStop`).  No quote,
  fill or cancel is promised.
- `TcpSessions`, `SliceExecution` and `QuoteFeed` state safety only and assume no
  fairness: no client, market or web service promises an answer.

## Proofs

### The book

For all symbols, order numbers, prices, quotes and requests that satisfy
`OrdersAssumption` and `BookAssumption` (numbers and prices are naturals,
requests ask for a positive quantity, quotes are five-level records), TLAPS
checks:

- `BookTyped`: `Spec => []TypeOK`
- `OpenOrdersAlwaysRest`: `Spec => []OpenOrdersRest`
- `QuantitiesAlwaysMatchStatus`: `Spec => []QuantitiesMatchStatus`
- `FinalOrdersStayFrozen`: `Spec => FinalOrdersAreFrozen`
- `BookImplementsOrderLife`: `Spec => BookKeepsOrderLife`
- `AccountsAlwaysBalance`: `Spec => []AccountsBalance`, under `PricedAndQuoted`
- `PlacesAreKept`: `Spec => PlaceInQueueKept`, under `WholeLots`

The argument begins with what one quote can do to one order
(`MatchEffect`): it keeps the order's identity, adds a fill between 0 and what is
left, and makes it FILLED exactly when nothing is left.  That needs bounds on the
cumulative match (`TryMatchBounds`).  None of the three invariants is inductive
alone: a match is harmless only for an order that is open, orders that are
matched come from the resting ones, and those are open only because
`OpenOrdersRest` holds; the second half of a cancellation must find the mark of
the first.  `IInv` is the conjunction of the three with `StrandInv` (a quote and
a cancellation are never in progress together, and the order being cancelled is
marked and resting).  `InvariantHolds` proves it by one lemma per action;
`FinalOrdersStayFrozen` follows from the same lemmas.

`BookImplementsOrderLife` (`Spec => BookKeepsOrderLife`) is the refinement: under
the mapping of `OrderBookSim`, an empty book is an empty record, and each step is
`Learn` (a new order, also one refused), `Advance` (a match, either half of a
cancellation), `Forget` (the stop) or leaves the record alone.  `IInv` makes every
order `Sound`; `Advance` then needs that only open orders are matched and only an
`ending` one is finished, which `IInv` says too.

`AccountsAlwaysBalance` needs `PricedAndQuoted`: every symbol has a quote from the
start and no order is without a limit price.  Without the first nothing is frozen
for an order and its cancellation still gives money back
(`OrderBookSim.cpp:239`); without the second a market order freezes at the dearest
price of the quote and is settled at its limit price, which is none.  `BalanceInv` adds to `IInv` that the orders are
finitely many, that quotes stay, and the balance over the whole account.  Each
step moves one term of a sum: the lemmas about `SumFunctionOnSet` say what that
does to it.  They are inductions over a finite set, which the
provers cannot do, and are proved by a least counterexample instead
(`LeastSubset`: a non-empty collection of subsets of a finite set has a minimal
one, by the well-foundedness of the strict subset relation).

`PlacesAreKept` needs `WholeLots`: every volume of a quote is a multiple of 100.
With odd lots a measured queue can fall to exactly -1, which is the mark of an
order that has not been measured (`OrderBookSim.cpp:617`), and an unmeasured one
can fall below it and then counts as measured.  In lots neither happens: a volume
ahead is a multiple of 100 or the mark (`QueueInv`), and a trade that passes an
unmeasured order is larger than `PegSlack` and fills it (`MatchKeepsPlace`).

### The trader

For every set of orders, requests, quotes and symbols and every target:

- `TraderAndBookTyped`: `ExecSpec => []ExecTypeOK`
- `ViewIsNeverAhead`: `ExecSpec => []ViewNeverAhead`
- `CountersAlwaysMatch`: `ExecSpec => []CountersMatchView`
- `NeverTradesBeyondTarget`: `ExecSpec => []NeverOvertrades`
- `ViewImplementsOrderLife`: `ExecSpec => ViewKeepsOrderLife`

None is inductive.  `ExecInv` is `IInv` of the book with `TraderInv`, whose core is
a chain (`UpdatesFollow`): of one order, the trader's copy, each update still
queued, in their order in the queue, and the book's record each *follow* from the
one before.  `Follows` says what may become of an order seen earlier: same terms,
no fill lost, nothing after the end, and, the point that makes a copy that waits in
a queue harmless although the book writes into the object it points to, an
order that is still open and has no more fills is the same record, value for value.
`TasksWait` says of an order on its way to the book that nobody else has it,
`NumbersKnown` that every number in use was handed out, `BookRemembers` that a
running book forgets nothing.

The target is a matter of sums.  `NeverOvertrades` holds because of an equality that
the code never writes down (`BudgetKept`): while the trader is connected to a
running book, `qty` is what the book may take, plus what it has been asked to take,
plus what the trader has yet to hear it gave up (`LagTotal`, never negative because
the view is never ahead).  A new order adds to `qty` and to what is asked for; a
request taken by the strand moves from what is asked for to the book; a match or
cancellation moves from the book to the lag; an update takes its difference out
of the lag and out of `qty`.  `CountersMatchView` is proved with it, from the same
differences.  `BudgetInv` is `ExecInv` with the three.

### The time of a backtest

`BackTestKeepsItsWindow` (`Spec => []KeepsItsWindow`), for every trading day with
two sessions, all windows, delays and lengths of rounds that satisfy
`SessionAssumption` and `ReplayAssumption`, and every list of quotes.  Two lemmas
carry the arithmetic: `AddIsElapsed` (adding a market duration moves `Elapsed` by
it, up to the close) and `DurationIsElapsed` (a market duration is a difference of
`Elapsed`).  Both hold under conditions only, which the invariant must keep:
waits of 0 seconds must not begin in the break, and the end must not lie inside
it.  `Course` strengthens the property by the types of the times, by what the wait
after a cancellation may add (`Stretched`) and by the bound after the last wait
(`Over`).

`BackTestTyped`, `OneIsAlwaysAwake` (`Spec => []NeverBothWaiting`) and
`RoundsAreOnTime` (`Spec => RoundsStartOnTime`) are about the two coroutines.
`HandOver` adds to `Course`: a feed that does not wait has its task on the strand
(`FeedHasTask`), while it waits the strategy is awake (`Awake`), the trader's quote
is one that was replayed (`QuoteSeen`), and a strategy that is awake with an
appointment was woken at it, or by the end (`AwakeOnTime`).  `SessionAssumption`
asks that the market opens after midnight, since the time 0 stands for none.

### Slices

All four invariants of `slicing` hold for every target, lot size, number of slices
and rounds, duration, plan and participation limit (`SliceTyped`,
`SliceStaysWithinTarget`, `SliceOnSchedule`, `SliceEndsOnTarget`).  Two
assumptions are about the code's constants: a slice lasts at least a second
(`AlgoTrader` gives 40 or 60), and a lot is no larger than the smallest order
(the sizes `StockDataTypes` fills in: lots of 100 in orders of 100 or more, or of 1
in orders of 200 or more; sizes read from the reference data are taken to agree).
That `amountLot` is no smaller than the smallest order is how the code makes it:
`minAmountPerOrder` can only widen the size the rounds are counted in
(`AlgoTrader.cpp:660`).  `PlanAssumption`, that the plan has
a number for each slice, is what `TWAP` and `VWAP` guarantee by recursion over the
curve and is evaluated for the instance only.  `SliceInv` adds to the properties:
`Placement` (which slice goes with which place in `schedual`, and nothing rests
before the first), `Timed` (the clock and what is left of a slice add up to its
end, wherever it is) and `Reached`.  `NeverBeyondTarget` needs that a round which
makes and takes found room for both parts (`RoundStaysWithin`); the schedule needs
that the last round of a slice waits for all that is left, and that the negative
wait of a last slice shorter than a second comes after at least one other slice;
`EndsOnTarget` needs that after the final order nothing is being cancelled.

### The backtest queue

For any number of traders, requests and workers: `ServiceTyped`
(`Spec => []TypeOK`) and, when all backtests that have a trader cost the same
(`SameCategory`), `CountersAlwaysExact` (`Spec => []CountersExact`) and
`WakeupsNeverLost` (`Spec => []NoLostWakeup`).  Without `SameCategory` both are
false, which is the finding of `backtest_mixed`.  `CountInv` says where an order is
(`EachInItsPlace`: in one posted request, in the batch or in the queue), who can be
in a counter (`OnlyStartable`), and by how much a counter may be off
(`CountersLag`): by the popped trader that runs and is not counted yet, and when
that one ends first the unsigned counter is at its largest value for a moment.
`ServiceAssumption` says that an order number is used once (a second one is refused,
`AlgoService.cpp:407`) and that counters are wider than the number of traders.

### The sessions

For any number of connections, handles, accounts and messages: `SessionsTyped`,
`WritesTakeTurns` (`Spec => []OneWriteAtATime`), `LinesAreOrdered`
(`Spec => []NoneOvertakes`) and `NothingIsMissed` (`Spec => []NothingMissed`).  They
speak of the *line* of a session: what it has sent, what waits in its queue and
what is posted to it, in this order.  `LineInv` says that a session's write chain is
neither broken nor doubled, that nothing travels without a number, and that the
lines of clients that asked for no old messages are in the order of sending, before
their login too, with nothing assumed of the numbers but that they are new;
`DeliveryInv` adds that the registry knows a session under its own handle and that
a message is in the line of whoever is logged in.

### The intraday strategy

For every window, set of prices, number of fusion orders, sub-orders and workers:
`ShotTyped` (`Spec => []TypeOK`), `UserStopComplete` (`Spec => []UserStopIsComplete`),
`ParallelSummaryComplete` (`Spec => []SummarisedAfterAll`) and `FinalReportLast`
(`Spec => FinalReportIsLast`).  `ShotInv` has a part for each form of the strategy.
`Alone`: a fusion order's status and its callback follow its AlgoTrader (`Fusions`),
and one that runs is in the placer's map (`RunningKnown`), which is what the loop
waits for.  `Parent`: a parent places no orders of its own (`ParentTradesNothing`),
the list holds the sub-orders 1 to its length, exactly those that wait, and
`subTraders` is exactly the rest that is not done (`EachSubInItsPlace`); so the
parent cannot run out of traders while the list has one, since the completion that
shortens the list adds the trader it starts.  That the window has a lowest quote to
reset to (`HighestExists`; `resetLow` moves towards the higher one) is again proved
by a least counterexample.

### The live quotes

For finitely many symbols and runs, any number of traders and any `Wants`:
`FeedTyped` (`Spec => []TypeOK`), `QuotesLiveAsLongAsUsed`
(`Spec => []QuotesOutliveTheirUse`), `SubscribersKeepUp` (`Spec => []NobodyBehind`)
and `QuotesOnlyAscend` (`Spec => QuotesAscend`).  The inductive invariant says of a
quote (`Sound`) that, unless the feed was stopped since, the feed has none that is
older of its symbol; of a trader's queue (`Ascending`) that it ascends from what the
trader keeps, so that a quote is posted to a trader once; and of the counts
(`RefsExact`) that they are one for the feed, one for each queue with the quote and
one for each trader that keeps it, which each step changes by what it does to the
three.  A stop takes the callbacks with the quotes, and a trader that subscribes
afterwards has kept nothing yet (`TradersKnown`): this is why the feed may accept
an older answer after a stop, and still no trader falls back.  That a queue has a
last place of a symbol (`LastPlace`) is proved from the place with the fewest behind
it, as there is no induction.

Only model-checked: liveness (`EventuallyInformed`, `CancelTakesEffect`,
`QueueEventuallyRuns`, `BackTestEnds`, `ShotEnds`), which is beyond the prover.  So
are the recursive plans of `TWAP` and `VWAP`: their definition, unlike that of a sum,
is not by subsets of a finite set.

## Not modelled

Listed with reasons in `PROJECT.json`.  In short:

- prices, and the statistics of the performance record that choose between making
  and taking: doubles, and the safety of what follows does not depend on them;
- the live clock but for its handling of a negative wait: `AlgoTrader::awaitMarketTime`
  skips the break only for a wait that begins before it, so an algo started inside
  the break trades on no market; no document says what it should do;
- the registry of order books (`OrderService`) and the client library, which are the
  next components worth a module;
- the pools of vectors and messages, storage, configuration, reference data, HTTP,
  sockets and wire formats: input and output;
- wording, logging and delay statistics.

## Plan

1. Done: `Orders`, `MatchEngine`, `OrderBookSim`, `AlgoExecution`, `AlgoService`,
   `ReplaySession`, and the proofs about the book.
2. Done: `TcpSessions`, and `ShotExecution` with `AlgoPlacer` and `LimitedQueue`.
3. Done: `OrderLife` and the refinement proof, `SliceExecution`, `MarketTime` with the
   window of a backtest and its proof, `QuoteFeed` with the reference counts.
4. Proofs: done for the book, the trader, slices, the backtest, its queue, the
   sessions, the intraday strategy and the live quotes: every safety property and
   every action property that a run checks is a theorem.
5. `OrderService`: a book found while it stops; the client's `SendContext`:
   reconnection against `TcpSessions`.
6. `ShotExecution`: `cancelAlgoOrder` and `getVWAP` of `AlgoPlacer`, the filters of a
   signal; the cancelled quantity among the trader's counters.
