----------------------------- MODULE QuoteFeed -----------------------------
(***************************************************************************)
(* The live quotes (quote/QuoteFeedInternet, which QuoteFeedLive names):   *)
(* a polling coroutine asks a web service for the subscribed symbols, the  *)
(* answers come back in any order or not at all, and the feed's strand     *)
(* posts each new quote to the contexts of its subscribers.  A quote is    *)
(* one object with a reference count (common/KeepAlive.h) that the feed,   *)
(* the posted callbacks and the traders share.                             *)
(*                                                                         *)
(* The quote time of a symbol is the number of its trades; that quotes     *)
(* less than two seconds old are not asked for again is left open.  The    *)
(* feed's finish callbacks stop traders, which may stop at any time anyway.*)
(* Order books, which are handed each quote in the same loop and hold it   *)
(* through a pointer of their own, are left out.                           *)
(***************************************************************************)
EXTENDS Integers, Sequences, FiniteSets, SequencesExt

CONSTANTS
    Symbols,
    Traders,      \* subscribe keys: each trader subscribes once
    Wants,        \* the symbols of each trader
    BatchSize,    \* symbols in one request (500)
    Runs,         \* calls of run(): a bound
    MaxTrades,    \* bound: trades of each symbol
    MaxOpen       \* bound: requests and answers under way

ASSUME FeedAssumption ==
    /\ Wants \in [Traders -> SUBSET Symbols]
    /\ BatchSize \in Nat \ {0} /\ IsFiniteSet(Symbols) /\ IsFiniteSet(Runs)
    /\ MaxTrades \in [Symbols -> Nat] /\ MaxOpen \in Nat

VARIABLES
    market,      \* trades of each symbol: what the web service knows
    keepRuning,  \* m_keepRuning
    loops,       \* what each call of run() has come to
    stops,       \* stop() tasks waiting on the strand
    era,         \* stop() tasks executed
    keys,        \* keys of m_subscribeKey2SymbolCallBack
    counts,      \* m_symbolSubCounts; no entry is 0
    callbacks,   \* m_symbol2SubscribeCallBack
    mds,         \* m_symbol2md
    refs,        \* m_refcount of each live quote
    asked,       \* batches of symbols requested
    answers,     \* quotes answered and not yet handled: symbol -> time
    trader,      \* "new", "running" or "stopped"
    posted,      \* quotes posted to each trader's context
    held         \* the last quote of each symbol a trader keeps

loopVars == <<keepRuning, loops>>
subVars == <<keys, counts, callbacks>>
quoteVars == <<mds, refs, posted, held>>
netVars == <<market, asked, answers>>
vars == <<loopVars, stops, era, subVars, quoteVars, netVars, trader>>

NoQuote == [symbol |-> "none", time |-> 0, era |-> 0]

\* A quote the feed accepts; the same snapshot may be accepted again after a stop.
QuoteOf(s, t) == [symbol |-> s, time |-> t, era |-> era]

Init ==
    /\ market = [s \in Symbols |-> 0]
    /\ keepRuning = FALSE
    /\ loops = [r \in Runs |-> "none"]
    /\ stops = 0 /\ era = 0
    /\ keys = {}
    /\ counts = [s \in Symbols |-> 0]
    /\ callbacks = [s \in Symbols |-> {}]
    /\ mds = [s \in Symbols |-> NoQuote]
    /\ refs = <<>>
    /\ asked = {} /\ answers = {}
    /\ trader = [k \in Traders |-> "new"]
    /\ posted = [k \in Traders |-> <<>>]
    /\ held = [k \in Traders |-> [s \in Symbols |-> NoQuote]]

-----------------------------------------------------------------------------
(* KeepAlivePool *)

\* Wrong on purpose: the last one to let go forgets to destroy the quote.
ReleaseKeeping(counters, quotes) ==
    [q \in DOMAIN counters |-> IF q \in quotes THEN counters[q] - 1 ELSE counters[q]]

\* The counts after one reference to each quote of a set is gone; who gives up the
\* last one destroys the quote.
Release(counters, quotes) ==
    [q \in {x \in DOMAIN counters : x \notin quotes \/ counters[x] > 1} |->
        IF q \in quotes THEN counters[q] - 1 ELSE counters[q]]

\* The counts after each quote of a set gained a reference.
RetainAlive(counters, quotes) ==
    [q \in DOMAIN counters |-> IF q \in quotes THEN counters[q] + 1 ELSE counters[q]]

-----------------------------------------------------------------------------
(* The polling coroutine *)

(* createQuoteFeed and run(): nothing is running yet, as far as one can see; the
   coroutine starts later, on the feed's context. *)
Run(r) ==
    /\ loops[r] = "none"
    /\ ~keepRuning
    /\ loops' = [loops EXCEPT ![r] = "spawned"]
    /\ UNCHANGED <<keepRuning, stops, era, subVars, quoteVars, netVars, trader>>

\* co_run is over: its completion calls stop(), which posts the rest.
Finish(r) ==
    /\ loops' = [loops EXCEPT ![r] = "ended"]
    /\ keepRuning' = FALSE
    /\ stops' = stops + 1

(* co_run begins.  If another has begun in the meantime it returns, and so stops
   the feed that is running. *)
Begin(r) ==
    /\ loops[r] = "spawned"
    /\ IF keepRuning THEN Finish(r)
       ELSE /\ keepRuning' = TRUE
            /\ loops' = [loops EXCEPT ![r] = "polling"]
            /\ UNCHANGED stops
    /\ UNCHANGED <<era, subVars, quoteVars, netVars, trader>>

\* genSymbolBatchs2Fetch: the symbols with subscribers, less some that have a fresh
\* quote, in batches of which at most one is not full.
Batches ==
    {batches \in SUBSET {b \in SUBSET Symbols : b # {} /\ Cardinality(b) <= BatchSize} :
        /\ \A a, b \in batches : a # b => a \cap b = {}
        /\ Cardinality({b \in batches : Cardinality(b) < BatchSize}) <= 1
        /\ \A s \in UNION batches : counts[s] > 0
        /\ \A s \in Symbols : counts[s] > 0 /\ mds[s] = NoQuote => s \in UNION batches}

(* Once a second: ask for the symbols. *)
Poll(r) ==
    /\ loops[r] = "polling" /\ keepRuning
    /\ \E batches \in Batches :
         /\ Cardinality(asked \cup batches) + Cardinality(answers) <= MaxOpen
         /\ asked' = asked \cup batches
    /\ UNCHANGED <<loopVars, stops, era, subVars, quoteVars, market, answers, trader>>

(* The loop finds the feed stopped, or ends two minutes after the close.  The task
   of its last poll finds the locals it refers to gone: here, it asks nothing. *)
EndLoop(r) ==
    /\ loops[r] = "polling"
    /\ Finish(r)
    /\ UNCHANGED <<era, subVars, quoteVars, netVars, trader>>

(* The loop ends with an exception: its completion calls run() again instead, which
   spawns another loop, and any other one that polls finds the feed stopped. *)
Restart(r) ==
    /\ loops[r] = "polling"
    /\ keepRuning' = FALSE
    /\ loops' = [loops EXCEPT ![r] = "spawned"]
    /\ UNCHANGED <<stops, era, subVars, quoteVars, netVars, trader>>

\* Wrong on purpose: the callbacks of before the stop stay.
StopTaskKeeping ==
    /\ stops > 0
    /\ stops' = stops - 1
    /\ era' = era + 1
    /\ refs' = Release(refs, {mds[s] : s \in Symbols} \ {NoQuote})
    /\ mds' = [s \in Symbols |-> NoQuote]
    /\ UNCHANGED <<loopVars, keys, counts, callbacks, posted, held, netVars, trader>>

(* The task of stop(): the callbacks and the quotes go, the keys and their counts
   stay. *)
StopTask ==
    /\ stops > 0
    /\ stops' = stops - 1
    /\ era' = era + 1
    /\ callbacks' = [s \in Symbols |-> {}]
    /\ refs' = Release(refs, {mds[s] : s \in Symbols} \ {NoQuote})
    /\ mds' = [s \in Symbols |-> NoQuote]
    /\ UNCHANGED <<loopVars, keys, counts, posted, held, netVars, trader>>

-----------------------------------------------------------------------------
(* Subscribing: tasks of the strand *)

Subscribe(k) ==
    /\ trader[k] = "new"
    /\ trader' = [trader EXCEPT ![k] = "running"]
    /\ keys' = keys \cup {k}
    /\ counts' = [s \in Symbols |-> counts[s] + (IF s \in Wants[k] THEN 1 ELSE 0)]
    /\ callbacks' = [s \in Symbols |-> callbacks[s] \cup (IF s \in Wants[k] THEN {k} ELSE {})]
    /\ UNCHANGED <<loopVars, stops, era, quoteVars, netVars>>

(* The trader stops, asks to be unsubscribed and lets its quotes go. *)
StopTrader(k) ==
    /\ trader[k] = "running"
    /\ trader' = [trader EXCEPT ![k] = "stopped"]
    /\ refs' = Release(refs, {held[k][s] : s \in Symbols} \ {NoQuote})
    /\ held' = [held EXCEPT ![k] = [s \in Symbols |-> NoQuote]]
    /\ UNCHANGED <<loopVars, stops, era, subVars, mds, posted, netVars>>

Unsubscribe(k) ==
    /\ trader[k] = "stopped" /\ k \in keys
    /\ keys' = keys \ {k}
    /\ counts' = [s \in Symbols |->
                    IF s \in Wants[k] /\ counts[s] > 0 THEN counts[s] - 1 ELSE counts[s]]
    /\ callbacks' = [s \in Symbols |->
                       IF s \in Wants[k] THEN callbacks[s] \ {k} ELSE callbacks[s]]
    /\ UNCHANGED <<loopVars, stops, era, quoteVars, netVars, trader>>

-----------------------------------------------------------------------------
(* Quotes *)

\* The market trades.
Trade(s) ==
    /\ market[s] < MaxTrades[s]
    /\ market' = [market EXCEPT ![s] = @ + 1]
    /\ UNCHANGED <<loopVars, stops, era, subVars, quoteVars, asked, answers, trader>>

(* The web service answers with what it knows at that moment; a line that does not
   parse, or a symbol that has not traded, is left out. *)
Answer(batch) ==
    /\ asked' = asked \ {batch}
    /\ \E parsed \in SUBSET {s \in batch : market[s] > 0} :
         answers' = answers \cup ({[s \in parsed |-> market[s]]} \ {<<>>})
    /\ UNCHANGED <<loopVars, stops, era, subVars, quoteVars, market, trader>>

(* It does not: requestErrorCallback only logs. *)
Fail(batch) ==
    /\ asked' = asked \ {batch}
    /\ UNCHANGED <<loopVars, stops, era, subVars, quoteVars, market, answers, trader>>

\* Wrong on purpose: whatever comes last is the newest.
NewerOfAll(answer) == {s \in DOMAIN answer : answer[s] # mds[s].time}

\* The first of its symbol, or newer than the one before.
Newer(answer) == {s \in DOMAIN answer : mds[s] = NoQuote \/ answer[s] > mds[s].time}

\* Wrong on purpose: a callback does not keep its quote alive.
RetainedNot(s) == 1

\* References to a new quote of s: the feed's, and one for each callback posted.
Retained(s) == 1 + Cardinality(callbacks[s])

\* The quotes are posted one after the other.
Posted(k, quotes) == posted[k] \o SetToSeq({q \in quotes : k \in callbacks[q.symbol]})

(* onMarketDepth, for one answer. *)
OnMarketDepth(answer) ==
    LET new == {QuoteOf(s, answer[s]) : s \in Newer(answer)}
        old == {mds[s] : s \in Newer(answer)} \ {NoQuote}
        rest == Release(refs, old)
    IN  /\ answers' = answers \ {answer}
        /\ mds' = [s \in Symbols |-> IF s \in Newer(answer) THEN QuoteOf(s, answer[s]) ELSE mds[s]]
        /\ refs' = [q \in DOMAIN rest \cup new |->
                      IF q \in new THEN Retained(q.symbol) ELSE rest[q]]
        /\ posted' = [k \in Traders |-> Posted(k, new)]
        /\ UNCHANGED <<loopVars, stops, era, subVars, held, market, asked, trader>>

(* A posted callback runs on the trader's context: a trader that has not stopped
   keeps the quote instead of the one before, and the callback releases it. *)
Deliver(k) ==
    /\ posted[k] # <<>>
    /\ LET q == Head(posted[k])
           s == q.symbol
       IN  IF trader[k] = "running"
           THEN /\ held' = [held EXCEPT ![k][s] = q]
                /\ refs' = Release(Release(RetainAlive(refs, {q}), {held[k][s]}), {q})
           ELSE /\ refs' = Release(refs, {q})
                /\ UNCHANGED held
    /\ posted' = [posted EXCEPT ![k] = Tail(@)]
    /\ UNCHANGED <<loopVars, stops, era, subVars, mds, netVars, trader>>

-----------------------------------------------------------------------------
Next ==
    \/ \E r \in Runs : Run(r) \/ Begin(r) \/ Poll(r) \/ EndLoop(r) \/ Restart(r)
    \/ StopTask
    \/ \E k \in Traders : Subscribe(k) \/ StopTrader(k) \/ Unsubscribe(k) \/ Deliver(k)
    \/ \E s \in Symbols : Trade(s)
    \/ \E b \in asked : Answer(b) \/ Fail(b)
    \/ \E a \in answers : OnMarketDepth(a)

Spec == Init /\ [][Next]_vars

-----------------------------------------------------------------------------
(* Properties *)

IsQuote(q) == q.symbol \in Symbols /\ q.time \in 1..market[q.symbol] /\ q.era \in 0..era

\* Every variable has its type.
TypeOK ==
    /\ \A s \in Symbols : market[s] \in 0..MaxTrades[s]
    /\ keepRuning \in BOOLEAN
    /\ loops \in [Runs -> {"none", "spawned", "polling", "ended"}]
    /\ stops \in Nat /\ era \in 0..Cardinality(Runs)
    /\ keys \subseteq Traders
    /\ counts \in [Symbols -> Nat]
    /\ callbacks \in [Symbols -> SUBSET Traders]
    /\ \A s \in Symbols : mds[s] # NoQuote => IsQuote(mds[s])
    /\ \A q \in DOMAIN refs : IsQuote(q) /\ refs[q] \in Nat \ {0}
    /\ asked \subseteq SUBSET Symbols
    /\ \A a \in answers : \A s \in DOMAIN a : s \in Symbols /\ a[s] \in 1..market[s]
    /\ trader \in [Traders -> {"new", "running", "stopped"}]
    /\ \A k \in Traders : \A i \in DOMAIN posted[k] : IsQuote(posted[k][i])
    /\ \A k \in Traders, s \in Symbols : held[k][s] # NoQuote => IsQuote(held[k][s])

\* References to q: the feed's, those of posted callbacks, those of traders.
Holders(q) ==
      Cardinality({s \in Symbols : mds[s] = q})
    + Cardinality({p \in UNION {{k} \X DOMAIN posted[k] : k \in Traders} : posted[p[1]][p[2]] = q})
    + Cardinality({k \in Traders : \E s \in Symbols : held[k][s] = q})

InUse ==
    {mds[s] : s \in Symbols} \cup (UNION {Range(posted[k]) : k \in Traders})
    \cup (UNION {Range(held[k]) : k \in Traders})

\* A quote lives exactly as long as someone holds it: it is never destroyed under a
\* callback still queued or a trader still reading, whoever lets go last, and
\* nothing keeps it when all have.
QuotesOutliveTheirUse ==
    /\ InUse \ {NoQuote} = DOMAIN refs
    /\ \A q \in DOMAIN refs : refs[q] = Holders(q)

\* No subscriber is left on an older quote: the last one posted to it, or else the
\* one it keeps, is the feed's newest of the symbol, unless it has had none yet.
NobodyBehind ==
    \A s \in Symbols : \A k \in callbacks[s] :
        LET places == {i \in DOMAIN posted[k] : posted[k][i].symbol = s}
        IN  /\ \A i \in places : (\A j \in places : j <= i) => posted[k][i] = mds[s]
            /\ places = {} => held[k][s] \in {NoQuote, mds[s]}

\* What a trader keeps is followed by newer quotes only, although answers overtake
\* each other and the feed forgets what it had when it stops and starts again.
QuotesAscend ==
    [][\A k \in Traders, s \in Symbols :
         (held'[k][s] # held[k][s] /\ held'[k][s] # NoQuote) => held'[k][s].time > held[k][s].time]_vars
=============================================================================
