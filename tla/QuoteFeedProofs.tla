-------------------------- MODULE QuoteFeedProofs --------------------------
(***************************************************************************)
(* The live quotes, for every set of symbols, traders and calls of run():  *)
(* a quote lives exactly as long as somebody holds it, a subscriber is     *)
(* never left on an old quote, and none it keeps is followed by an older   *)
(* one.                                                                    *)
(***************************************************************************)
EXTENDS QuoteFeed, FiniteSetTheorems, SequenceTheorems, TLAPS

AllQuotes == [symbol : Symbols, time : Nat \ {0}, era : Nat]

-----------------------------------------------------------------------------
(* The inductive invariant *)

QuotesTyped ==
    /\ market \in [Symbols -> Nat] /\ era \in Nat
    /\ callbacks \in [Symbols -> SUBSET Traders]
    /\ trader \in [Traders -> {"new", "running", "stopped"}]
    /\ mds \in [Symbols -> AllQuotes \cup {NoQuote}]
    /\ posted \in [Traders -> Seq(AllQuotes)]
    /\ held \in [Traders -> [Symbols -> AllQuotes \cup {NoQuote}]]

\* What can be said of a quote somebody holds: the market has made it, and the feed
\* has none that is older of the same symbol, unless it was stopped in between.
Sound(q) ==
    /\ q \in AllQuotes /\ q.time <= market[q.symbol] /\ q.era <= era
    /\ q.era = era => (mds[q.symbol] # NoQuote /\ q.time <= mds[q.symbol].time)

QuotesSound ==
    /\ \A s \in Symbols : mds[s] # NoQuote => Sound(mds[s]) /\ mds[s].symbol = s
    /\ \A k \in Traders : \A i \in DOMAIN posted[k] : Sound(posted[k][i])
    /\ \A k \in Traders, s \in Symbols :
         held[k][s] # NoQuote => Sound(held[k][s]) /\ held[k][s].symbol = s

\* What is posted to a trader is newer than what it keeps, and the later the newer.
Ascending ==
    \A k \in Traders : \A i \in DOMAIN posted[k] :
        /\ held[k][posted[k][i].symbol].time < posted[k][i].time
        /\ \A j \in DOMAIN posted[k] :
             (i < j /\ posted[k][i].symbol = posted[k][j].symbol) =>
                 posted[k][i].time < posted[k][j].time

\* A trader has quotes posted from its subscription on, and keeps them while it runs.
TradersKnown ==
    /\ IsFiniteSet({k \in Traders : trader[k] # "new"})
    /\ \A k \in Traders : trader[k] = "new" =>
         posted[k] = <<>> /\ \A s \in Symbols : k \notin callbacks[s]
    /\ \A k \in Traders : trader[k] # "running" => \A s \in Symbols : held[k][s] = NoQuote

\* Who holds a quote: the feed once, a trader once in its queue and once for itself.
FeedHolds(q) == IF mds[q.symbol] = q THEN 1 ELSE 0
PostedTo(q) == {k \in Traders : q \in Range(posted[k])}
KeptBy(q) == {k \in Traders : held[k][q.symbol] = q}
Count(q) == FeedHolds(q) + Cardinality(PostedTo(q)) + Cardinality(KeptBy(q))

\* A table of counts that has an entry for each quote with a count above 0.
Exact(counters, h) ==
    /\ DOMAIN counters = {q \in AllQuotes : h[q] > 0}
    /\ \A q \in DOMAIN counters : counters[q] = h[q]

RefsExact == Exact(refs, [q \in AllQuotes |-> Count(q)])

QuoteInv ==
    /\ QuotesTyped /\ QuotesSound /\ Ascending /\ TradersKnown
    /\ RefsExact /\ NobodyBehind

\* Each run that ends has stopped the feed or will.
Ended == {r \in Runs : loops[r] = "ended"}

SideInv ==
    /\ \A s \in Symbols : market[s] \in 0..MaxTrades[s]
    /\ keepRuning \in BOOLEAN
    /\ loops \in [Runs -> {"none", "spawned", "polling", "ended"}]
    /\ stops \in Nat /\ era \in Nat /\ era + stops = Cardinality(Ended)
    /\ keys \subseteq Traders /\ counts \in [Symbols -> Nat]
    /\ asked \subseteq SUBSET Symbols
    /\ \A a \in answers : \A s \in DOMAIN a : s \in Symbols /\ a[s] \in 1..market[s]

FeedInv == QuoteInv /\ SideInv

-----------------------------------------------------------------------------
(* Sequences of quotes *)

\* A finite set in some order: each element once.
LEMMA SetToSeqFacts ==
    ASSUME NEW S, IsFiniteSet(S)
    PROVE  /\ Cardinality(S) \in Nat /\ SetToSeq(S) \in [1..Cardinality(S) -> S]
           /\ \A i, j \in 1..Cardinality(S) : SetToSeq(S)[i] = SetToSeq(S)[j] => i = j
           /\ \A x \in S : \E i \in 1..Cardinality(S) : SetToSeq(S)[i] = x
  <1> DEFINE n == Cardinality(S)
             f == SetToSeq(S)
  <1>1. n \in Nat /\ ExistsBijection(1..n, S) BY FS_CardinalityType
  <1>2. \E g \in [1..n -> S] : IsInjective(g)
    BY <1>1 DEF ExistsBijection, Bijection, Injection
  <1>3. f \in [1..n -> S] /\ IsInjective(f) BY <1>2 DEF SetToSeq
  <1>4. f \in Injection(1..n, S) BY <1>3 DEF Injection
  <1>5. Cardinality(1..n) = n
    <2> HIDE DEF n
    <2>1. n \in Int /\ 1 \in Int BY <1>1
    <2> QED BY <1>1, <2>1, FS_Interval
  <1>6. f \in Surjection(1..n, S)
    <2> HIDE DEF f
    <2> QED BY <1>4, <1>5, FS_Injection
  <1>7. \A x \in S : \E i \in 1..n : f[i] = x
    <2> HIDE DEF f, n
    <2> QED BY <1>6 DEF Surjection
  <1> HIDE DEF f
  <1> QED BY <1>1, <1>3, <1>7 DEF IsInjective, f

\* Some quotes at the end of a queue.
LEMMA Queued ==
    ASSUME NEW s \in Seq(AllQuotes), NEW S \in SUBSET AllQuotes, IsFiniteSet(S)
    PROVE  LET p == s \o SetToSeq(S)
           IN  /\ p \in Seq(AllQuotes) /\ Len(s) \in Nat /\ Len(p) \in Nat
               /\ DOMAIN s = 1..Len(s) /\ DOMAIN p = 1..Len(p) /\ Len(s) <= Len(p)
               /\ \A i \in 1..Len(s) : p[i] = s[i]
               /\ \A i \in (Len(s) + 1)..Len(p) : p[i] \in S
               /\ \A i, j \in (Len(s) + 1)..Len(p) : p[i] = p[j] => i = j
               /\ \A x \in S : \E i \in (Len(s) + 1)..Len(p) : p[i] = x
  <1> DEFINE f == SetToSeq(S)
             n == Cardinality(S)
             p == s \o f
  <1>1. /\ n \in Nat /\ f \in [1..n -> S]
        /\ \A i, j \in 1..n : f[i] = f[j] => i = j
        /\ \A x \in S : \E i \in 1..n : f[i] = x
    BY SetToSeqFacts
  <1> HIDE DEF f, n
  <1>2. f \in Seq(AllQuotes) /\ Len(f) = n BY <1>1
  <1>3. Len(s) \in Nat /\ DOMAIN s = 1..Len(s) BY LenProperties
  <1>4. /\ p \in Seq(AllQuotes) /\ Len(p) = Len(s) + n
        /\ \A i \in 1..(Len(s) + n) : p[i] = IF i <= Len(s) THEN s[i] ELSE f[i - Len(s)]
    BY <1>2, ConcatProperties
  <1>5. DOMAIN p = 1..Len(p)
    <2> HIDE DEF p
    <2> QED BY <1>4, LenProperties
  <1> HIDE DEF p
  <1>6. \A i \in (Len(s) + 1)..Len(p) : i - Len(s) \in 1..n /\ p[i] = f[i - Len(s)]
    BY <1>1, <1>3, <1>4
  <1>7. ASSUME NEW x \in S PROVE \E i \in (Len(s) + 1)..Len(p) : p[i] = x
    <2>1. PICK j \in 1..n : f[j] = x BY <1>1
    <2>2. Len(s) + j \in (Len(s) + 1)..Len(p) /\ (Len(s) + j) - Len(s) = j
      BY <1>1, <1>3, <1>4
    <2>3. p[Len(s) + j] = f[j] BY <1>6, <2>2
    <2> QED BY <2>1, <2>2, <2>3
  <1>8. \A i, j \in (Len(s) + 1)..Len(p) : p[i] = p[j] => i = j
    <2> SUFFICES ASSUME NEW i \in (Len(s) + 1)..Len(p), NEW j \in (Len(s) + 1)..Len(p),
                        p[i] = p[j]
                 PROVE  i = j
      OBVIOUS
    <2>1. i - Len(s) = j - Len(s) BY <1>1, <1>6
    <2> QED BY <1>3, <2>1
  <1>9. /\ \A i \in (Len(s) + 1)..Len(p) : p[i] \in S
        /\ \A i \in 1..Len(s) : p[i] = s[i] /\ Len(s) <= Len(p) /\ Len(p) \in Nat
    BY <1>1, <1>3, <1>4, <1>6
  <1>10. Len(s) <= Len(p) /\ Len(p) \in Nat BY <1>1, <1>3, <1>4
  <1> QED BY <1>3, <1>4, <1>5, <1>7, <1>8, <1>9, <1>10 DEF p, f

-----------------------------------------------------------------------------
(* Counts *)

\* Release takes one from each quote of a set, and forgets those nobody holds.
LEMMA ReleaseExact ==
    ASSUME NEW counters, NEW h \in [AllQuotes -> Nat], Exact(counters, h), NEW Q,
           \A q \in Q \cap AllQuotes : h[q] > 0
    PROVE  Exact(Release(counters, Q), [q \in AllQuotes |-> IF q \in Q THEN h[q] - 1 ELSE h[q]])
  BY DEF Exact, Release

LEMMA RetainExact ==
    ASSUME NEW counters, NEW h \in [AllQuotes -> Nat], Exact(counters, h), NEW Q,
           \A q \in Q \cap AllQuotes : h[q] > 0
    PROVE  Exact(RetainAlive(counters, Q), [q \in AllQuotes |-> IF q \in Q THEN h[q] + 1 ELSE h[q]])
  BY DEF Exact, RetainAlive

\* The holders of a quote can be counted, and whoever holds one holds a sound one.
LEMMA CountFacts ==
    ASSUME QuotesTyped, TradersKnown, NEW q \in AllQuotes
    PROVE  /\ IsFiniteSet(PostedTo(q)) /\ Cardinality(PostedTo(q)) \in Nat
           /\ IsFiniteSet(KeptBy(q)) /\ Cardinality(KeptBy(q)) \in Nat
           /\ FeedHolds(q) \in {0, 1} /\ Count(q) \in Nat
           /\ Count(q) > 0 <=> (mds[q.symbol] = q \/ PostedTo(q) # {} \/ KeptBy(q) # {})
  <1> DEFINE K == {k \in Traders : trader[k] # "new"}
  <1>1. IsFiniteSet(K) BY DEF TradersKnown
  <1>2. PostedTo(q) \subseteq K
    <2> SUFFICES ASSUME NEW k \in Traders, q \in Range(posted[k]) PROVE trader[k] # "new"
      BY DEF PostedTo
    <2>1. Range(<<>>) = {} BY DEF Range
    <2> QED BY <2>1 DEF TradersKnown
  <1>3. q # NoQuote /\ q.symbol \in Symbols BY DEF AllQuotes, NoQuote
  <1>4. KeptBy(q) \subseteq K BY <1>3 DEF KeptBy, TradersKnown
  <1> HIDE DEF K
  <1>5. IsFiniteSet(PostedTo(q)) /\ IsFiniteSet(KeptBy(q)) BY <1>1, <1>2, <1>4, FS_Subset
  <1>6. /\ Cardinality(PostedTo(q)) \in Nat /\ Cardinality(KeptBy(q)) \in Nat
        /\ Cardinality(PostedTo(q)) = 0 <=> PostedTo(q) = {}
        /\ Cardinality(KeptBy(q)) = 0 <=> KeptBy(q) = {}
    BY <1>5, FS_CardinalityType, FS_EmptySet
  <1> QED BY <1>5, <1>6 DEF FeedHolds, Count

\* The numbers a step gives the quotes' holders are those of the table it leaves.
LEMMA ExactSame ==
    ASSUME NEW counters, NEW h, NEW g, Exact(counters, h),
           \A q \in AllQuotes : g[q] = h[q]
    PROVE  Exact(counters, g)
  BY DEF Exact

-----------------------------------------------------------------------------
(* Steps that leave the quotes alone *)

LEMMA QuotesUndisturbed ==
    ASSUME QuoteInv, UNCHANGED <<era, callbacks, trader, mds, refs, posted, held>>,
           market' \in [Symbols -> Nat], \A s \in Symbols : market[s] <= market'[s]
    PROVE  QuoteInv'
  <1>1. QuotesTyped' BY DEF QuoteInv, QuotesTyped
  <1>2. \A q : Sound(q) => Sound(q)'
    <2> SUFFICES ASSUME NEW q, Sound(q) PROVE Sound(q)'
      OBVIOUS
    <2>1. q.symbol \in Symbols /\ q.time \in Nat BY DEF Sound, AllQuotes
    <2>2. market[q.symbol] \in Nat /\ market'[q.symbol] \in Nat
      BY <2>1 DEF QuoteInv, QuotesTyped
    <2> QED BY <2>1, <2>2 DEF Sound
  <1>3. QuotesSound' BY <1>2 DEF QuoteInv, QuotesSound
  <1>4. Ascending' /\ TradersKnown' /\ NobodyBehind'
    BY DEF QuoteInv, Ascending, TradersKnown, NobodyBehind
  <1>5. RefsExact'
    BY DEF QuoteInv, RefsExact, Exact, Count, FeedHolds, PostedTo, KeptBy
  <1> QED BY <1>1, <1>3, <1>4, <1>5 DEF QuoteInv

\* A trader has no quote when it subscribes.
LEMMA SubscribeQuotes ==
    ASSUME QuoteInv, NEW k \in Traders, Subscribe(k)
    PROVE  QuoteInv'
  <1>1. /\ trader[k] = "new" /\ trader' = [trader EXCEPT ![k] = "running"]
        /\ callbacks' = [s \in Symbols |-> callbacks[s] \cup (IF s \in Wants[k] THEN {k} ELSE {})]
        /\ UNCHANGED <<era, market, mds, refs, posted, held>>
    BY DEF Subscribe, quoteVars, netVars
  <1>2. QuotesTyped /\ TradersKnown BY DEF QuoteInv
  <1>3. QuotesTyped' BY <1>1, <1>2 DEF QuotesTyped
  <1>4. QuotesSound' /\ Ascending' BY <1>1 DEF QuoteInv, QuotesSound, Sound, Ascending
  <1>5. TradersKnown'
    <2> DEFINE K == {j \in Traders : trader[j] # "new"}
    <2>1. {j \in Traders : trader'[j] # "new"} = K \cup {k} BY <1>1, <1>2 DEF QuotesTyped
    <2>2. IsFiniteSet(K) BY <1>2 DEF TradersKnown
    <2>3. IsFiniteSet(K \cup {k})
      <3> HIDE DEF K
      <3> QED BY <2>2, FS_AddElement
    <2> HIDE DEF K
    <2>4. \A j \in Traders : trader'[j] = "new" =>
            j # k /\ trader[j] = "new" /\ \A s \in Symbols : j \notin callbacks'[s]
      BY <1>1, <1>2 DEF QuotesTyped, TradersKnown
    <2>5. \A j \in Traders : trader'[j] # "running" => trader[j] # "running"
      BY <1>1, <1>2 DEF QuotesTyped
    <2> QED BY <1>1, <1>2, <2>1, <2>3, <2>4, <2>5 DEF TradersKnown
  <1>6. NobodyBehind'
    <2> SUFFICES ASSUME NEW s \in Symbols, NEW j \in callbacks'[s]
                 PROVE  LET places == {i \in DOMAIN posted[j] : posted[j][i].symbol = s}
                        IN  /\ \A i \in places : (\A m \in places : m <= i) => posted[j][i] = mds[s]
                            /\ places = {} => held[j][s] \in {NoQuote, mds[s]}
      BY <1>1 DEF NobodyBehind
    <2>1. CASE j \in callbacks[s] BY <2>1 DEF QuoteInv, NobodyBehind
    <2>2. CASE j = k
      <3>1. posted[j] = <<>> /\ held[j][s] = NoQuote BY <1>1, <1>2, <2>2 DEF TradersKnown
      <3>2. DOMAIN posted[j] = {} BY <3>1
      <3> QED BY <3>1, <3>2
    <2> QED BY <1>1, <2>1, <2>2
  <1>7. RefsExact'
    BY <1>1 DEF QuoteInv, RefsExact, Exact, Count, FeedHolds, PostedTo, KeptBy
  <1> QED BY <1>3, <1>4, <1>5, <1>6, <1>7 DEF QuoteInv

LEMMA UnsubscribeQuotes ==
    ASSUME QuoteInv, NEW k \in Traders, Unsubscribe(k)
    PROVE  QuoteInv'
  <1>1. /\ callbacks' = [s \in Symbols |->
                           IF s \in Wants[k] THEN callbacks[s] \ {k} ELSE callbacks[s]]
        /\ UNCHANGED <<era, market, mds, refs, posted, held, trader>>
    BY DEF Unsubscribe, quoteVars, netVars
  <1>2. QuotesTyped' BY <1>1 DEF QuoteInv, QuotesTyped
  <1>3. QuotesSound' /\ Ascending' BY <1>1 DEF QuoteInv, QuotesSound, Sound, Ascending
  <1>4. \A s \in Symbols : callbacks'[s] \subseteq callbacks[s] BY <1>1
  <1>5. TradersKnown' BY <1>1, <1>4 DEF QuoteInv, TradersKnown
  <1>6. NobodyBehind' BY <1>1, <1>4 DEF QuoteInv, NobodyBehind
  <1>7. RefsExact'
    BY <1>1 DEF QuoteInv, RefsExact, Exact, Count, FeedHolds, PostedTo, KeptBy
  <1> QED BY <1>2, <1>3, <1>5, <1>6, <1>7 DEF QuoteInv

-----------------------------------------------------------------------------
(* Steps that let quotes go *)

LEMMA NoQuoteFacts == NoQuote \notin AllQuotes /\ NoQuote.time = 0
  BY DEF AllQuotes, NoQuote

\* stop(): the feed lets its quotes go, and what is left belongs to an earlier era.
LEMMA StopTaskQuotes ==
    ASSUME QuoteInv, StopTask
    PROVE  QuoteInv'
  <1> DEFINE Q == {mds[s] : s \in Symbols} \ {NoQuote}
             h == [q \in AllQuotes |-> Count(q)]
  <1>1. /\ era' = era + 1 /\ callbacks' = [s \in Symbols |-> {}]
        /\ refs' = Release(refs, Q) /\ mds' = [s \in Symbols |-> NoQuote]
        /\ UNCHANGED <<market, posted, held, trader>>
    BY DEF StopTask, netVars
  <1>2. QuotesTyped /\ QuotesSound /\ TradersKnown /\ RefsExact BY DEF QuoteInv
  <1>3. QuotesTyped' BY <1>1, <1>2 DEF QuotesTyped
  <1>4. \A q : Sound(q) => Sound(q)' BY <1>1, <1>2 DEF Sound, AllQuotes, QuotesTyped
  <1>5. QuotesSound' BY <1>1, <1>2, <1>4 DEF QuotesSound
  <1>6. Ascending' /\ TradersKnown' /\ NobodyBehind'
    BY <1>1 DEF QuoteInv, Ascending, TradersKnown, NobodyBehind
  <1>7. \A q \in AllQuotes : q \in Q <=> mds[q.symbol] = q
    BY <1>2, NoQuoteFacts DEF QuotesSound, AllQuotes
  <1>8. RefsExact'
    <2>1. h \in [AllQuotes -> Nat] BY <1>2, CountFacts
    <2>2. Exact(refs, h) BY <1>2 DEF RefsExact
    <2>3. \A q \in AllQuotes : q \in Q => h[q] > 0 BY <1>2, <1>7, CountFacts
    <2> DEFINE g == [q \in AllQuotes |-> IF q \in Q THEN h[q] - 1 ELSE h[q]]
    <2>4. Exact(refs', g)
      <3> HIDE DEF Q, h
      <3> QED BY <1>1, <2>1, <2>2, <2>3, ReleaseExact
    <2>5. ASSUME NEW q \in AllQuotes PROVE Count(q)' = g[q]
      <3>1. PostedTo(q)' = PostedTo(q) /\ KeptBy(q)' = KeptBy(q)
        BY <1>1 DEF PostedTo, KeptBy
      <3>2. FeedHolds(q)' = 0 BY <1>1, NoQuoteFacts DEF FeedHolds, AllQuotes
      <3>3. FeedHolds(q) = IF q \in Q THEN 1 ELSE 0 BY <1>7 DEF FeedHolds
      <3>4. Cardinality(PostedTo(q)) \in Nat /\ Cardinality(KeptBy(q)) \in Nat
        BY <1>2, CountFacts
      <3>5. Count(q)' = FeedHolds(q)' + Cardinality(PostedTo(q)) + Cardinality(KeptBy(q))
        BY <3>1 DEF Count
      <3> HIDE DEF Q
      <3> QED BY <3>2, <3>3, <3>4, <3>5 DEF Count
    <2> HIDE DEF g
    <2>6. Exact(refs', [q \in AllQuotes |-> Count(q)']) BY <2>4, <2>5, ExactSame
    <2> QED BY <2>6 DEF RefsExact
  <1> QED BY <1>3, <1>5, <1>6, <1>8 DEF QuoteInv

\* A trader that stops lets its quotes go.
LEMMA StopTraderQuotes ==
    ASSUME QuoteInv, NEW k \in Traders, StopTrader(k)
    PROVE  QuoteInv'
  <1> DEFINE Q == {held[k][s] : s \in Symbols} \ {NoQuote}
             h == [q \in AllQuotes |-> Count(q)]
  <1>1. /\ trader' = [trader EXCEPT ![k] = "stopped"]
        /\ trader[k] = "running" /\ refs' = Release(refs, Q)
        /\ held' = [held EXCEPT ![k] = [s \in Symbols |-> NoQuote]]
        /\ UNCHANGED <<market, era, callbacks, mds, posted>>
    BY DEF StopTrader, netVars, subVars
  <1>2. QuotesTyped /\ QuotesSound /\ Ascending /\ TradersKnown /\ RefsExact /\ NobodyBehind
    BY DEF QuoteInv
  <1>3. QuotesTyped' BY <1>1, <1>2 DEF QuotesTyped
  <1>4. \A s \in Symbols : held'[k][s] = NoQuote BY <1>1, <1>2 DEF QuotesTyped
  <1>5. \A j \in Traders : j # k => held'[j] = held[j] /\ trader'[j] = trader[j]
    BY <1>1, <1>2 DEF QuotesTyped
  <1>6. QuotesSound' BY <1>1, <1>2, <1>4, <1>5 DEF QuotesSound, Sound
  <1>7. Ascending'
    <2> SUFFICES ASSUME NEW j \in Traders, NEW i \in DOMAIN posted[j]
                 PROVE  held'[j][posted[j][i].symbol].time < posted[j][i].time
      BY <1>1, <1>2 DEF Ascending
    <2>1. posted[j][i] \in AllQuotes BY <1>2 DEF QuotesSound, Sound
    <2>2. CASE j = k BY <1>4, <2>1, <2>2, NoQuoteFacts DEF AllQuotes
    <2>3. CASE j # k BY <1>2, <1>5, <2>3 DEF Ascending
    <2> QED BY <2>2, <2>3
  <1>8. TradersKnown'
    <2>1. \A j \in Traders : trader'[j] # "new" <=> trader[j] # "new"
      BY <1>1, <1>2 DEF QuotesTyped
    <2>2. {j \in Traders : trader'[j] # "new"} = {j \in Traders : trader[j] # "new"}
      BY <2>1
    <2>3. \A j \in Traders : trader'[j] # "running" => \A s \in Symbols : held'[j][s] = NoQuote
      BY <1>2, <1>4, <1>5 DEF TradersKnown
    <2> QED BY <1>1, <1>2, <2>1, <2>2, <2>3 DEF TradersKnown
  <1>9. NobodyBehind'
    <2>1. \A s \in Symbols, j \in Traders : held'[j][s] \in {NoQuote, held[j][s]}
      BY <1>4, <1>5
    <2>2. \A s \in Symbols : callbacks[s] \subseteq Traders BY <1>2 DEF QuotesTyped
    <2> QED BY <1>1, <1>2, <2>1, <2>2 DEF NobodyBehind
  <1>10. \A q \in AllQuotes : q \in Q <=> k \in KeptBy(q)
    BY <1>2, NoQuoteFacts DEF QuotesSound, AllQuotes, KeptBy
  <1>11. RefsExact'
    <2>1. h \in [AllQuotes -> Nat] BY <1>2, CountFacts
    <2>2. Exact(refs, h) BY <1>2 DEF RefsExact
    <2>3. \A q \in AllQuotes : q \in Q => h[q] > 0 BY <1>2, <1>10, CountFacts
    <2> DEFINE g == [q \in AllQuotes |-> IF q \in Q THEN h[q] - 1 ELSE h[q]]
    <2>4. Exact(refs', g)
      <3> HIDE DEF Q, h
      <3> QED BY <1>1, <2>1, <2>2, <2>3, ReleaseExact
    <2>5. ASSUME NEW q \in AllQuotes PROVE Count(q)' = g[q]
      <3>1. PostedTo(q)' = PostedTo(q) /\ FeedHolds(q)' = FeedHolds(q)
        BY <1>1 DEF PostedTo, FeedHolds
      <3>2. KeptBy(q)' = KeptBy(q) \ {k}
        BY <1>4, <1>5, NoQuoteFacts DEF KeptBy, AllQuotes
      <3>3. /\ Cardinality(PostedTo(q)) \in Nat /\ Cardinality(KeptBy(q)) \in Nat
            /\ FeedHolds(q) \in {0, 1} /\ IsFiniteSet(KeptBy(q))
        BY <1>2, CountFacts
      <3>4. Cardinality(KeptBy(q) \ {k}) = IF q \in Q THEN Cardinality(KeptBy(q)) - 1
                                           ELSE Cardinality(KeptBy(q))
        <4> HIDE DEF Q
        <4> QED BY <1>10, <3>3, FS_RemoveElement
      <3>5. Count(q)' = FeedHolds(q) + Cardinality(PostedTo(q)) + Cardinality(KeptBy(q) \ {k})
        BY <3>1, <3>2 DEF Count
      <3> HIDE DEF Q
      <3> QED BY <3>3, <3>4, <3>5 DEF Count
    <2> HIDE DEF g
    <2>6. Exact(refs', [q \in AllQuotes |-> Count(q)']) BY <2>4, <2>5, ExactSame
    <2> QED BY <2>6 DEF RefsExact
  <1> QED BY <1>3, <1>6, <1>7, <1>8, <1>9, <1>11 DEF QuoteInv

-----------------------------------------------------------------------------
(* A quote reaches a trader *)

LEMMA Dequeued ==
    ASSUME NEW S, NEW s \in Seq(S), s # <<>>
    PROVE  /\ Tail(s) \in Seq(S) /\ Head(s) = s[1] /\ Head(s) \in S
           /\ Len(s) \in Nat \ {0} /\ DOMAIN s = 1..Len(s) /\ DOMAIN Tail(s) = 1..(Len(s) - 1)
           /\ \A i \in 1..(Len(s) - 1) : Tail(s)[i] = s[i + 1]
  <1>1. Len(s) \in Nat /\ DOMAIN s = 1..Len(s) BY LenProperties
  <1>2. Len(s) # 0 BY <1>1, EmptySeq
  <1>3. /\ Head(s) \in S /\ Tail(s) \in Seq(S) /\ Len(Tail(s)) = Len(s) - 1
        /\ \A i \in 1..Len(Tail(s)) : Tail(s)[i] = s[i + 1]
    BY HeadTailProperties
  <1>4. DOMAIN Tail(s) = 1..(Len(s) - 1) BY <1>3, LenProperties
  <1>5. Head(s) = s[1] OBVIOUS
  <1> QED BY <1>1, <1>2, <1>3, <1>4, <1>5

\* The head of a queue is in it once, and is not the quote its trader keeps.
LEMMA HeadOnce ==
    ASSUME QuoteInv, NEW k \in Traders, posted[k] # <<>>
    PROVE  LET q == Head(posted[k])
           IN  /\ q \in AllQuotes /\ Sound(q) /\ held[k][q.symbol].time < q.time
               /\ \A x : x \in Range(Tail(posted[k])) <=> (x \in Range(posted[k]) /\ x # q)
               /\ q \in Range(posted[k])
               /\ \A i \in DOMAIN Tail(posted[k]) :
                    Tail(posted[k])[i].symbol = q.symbol => q.time < Tail(posted[k])[i].time
  <1> DEFINE p == posted[k]
             q == Head(p)
             n == Len(p)
  <1>1. p \in Seq(AllQuotes) /\ p # <<>> BY DEF QuoteInv, QuotesTyped
  <1>2. /\ Tail(p) \in Seq(AllQuotes) /\ q = p[1] /\ q \in AllQuotes
        /\ n \in Nat \ {0} /\ DOMAIN p = 1..n /\ DOMAIN Tail(p) = 1..(n - 1)
        /\ \A i \in 1..(n - 1) : Tail(p)[i] = p[i + 1]
    <2> HIDE DEF p
    <2> QED BY <1>1, Dequeued
  <1>3. Sound(q) /\ held[k][q.symbol].time < q.time
    BY <1>2 DEF QuoteInv, QuotesSound, Ascending
  <1>4. \A j \in 2..n : p[j].symbol = q.symbol => q.time < p[j].time
    <2>1. \A j \in DOMAIN p : (1 < j /\ p[1].symbol = p[j].symbol) => p[1].time < p[j].time
      BY <1>2 DEF QuoteInv, Ascending
    <2> HIDE DEF p, n
    <2> QED BY <1>2, <2>1
  <1> HIDE DEF p, q, n
  <1>5. \A i \in 1..(n - 1) : i + 1 \in 2..n /\ i + 1 \in DOMAIN p BY <1>2
  <1>6. \A i \in DOMAIN Tail(p) : Tail(p)[i].symbol = q.symbol => q.time < Tail(p)[i].time
    BY <1>2, <1>4, <1>5
  <1>7. ASSUME NEW x, x \in Range(Tail(p)) PROVE x \in Range(p) /\ x # q
    <2>1. PICK i \in DOMAIN Tail(p) : x = Tail(p)[i] BY <1>7 DEF Range
    <2>2. x = p[i + 1] BY <1>2, <2>1
    <2>3. x # q
      <3>1. q.time \in Nat BY <1>2 DEF AllQuotes
      <3> QED BY <1>6, <2>1, <3>1
    <2> QED BY <1>2, <1>5, <2>1, <2>2, <2>3 DEF Range
  <1>8. ASSUME NEW x, x \in Range(p), x # q PROVE x \in Range(Tail(p))
    <2>1. PICK i \in 1..n : x = p[i] BY <1>2, <1>8 DEF Range
    <2>2. i # 1 BY <1>2, <1>8, <2>1
    <2>3. i - 1 \in 1..(n - 1) /\ (i - 1) + 1 = i BY <1>2, <2>1, <2>2
    <2>4. Tail(p)[i - 1] = x BY <1>2, <2>1, <2>3
    <2> QED BY <1>2, <2>3, <2>4 DEF Range
  <1>9. q \in Range(p) BY <1>2 DEF Range
  <1> QED BY <1>2, <1>3, <1>6, <1>7, <1>8, <1>9 DEF p, q

LEMMA DeliverQuotes ==
    ASSUME QuoteInv, NEW k \in Traders, Deliver(k)
    PROVE  QuoteInv'
  <1> DEFINE q == Head(posted[k])
             s == q.symbol
             p == Tail(posted[k])
             old == held[k][s]
             runs == trader[k] = "running"
             h == [x \in AllQuotes |-> Count(x)]
  <1>1. /\ posted[k] # <<>> /\ posted' = [posted EXCEPT ![k] = p]
        /\ runs => /\ held' = [held EXCEPT ![k][s] = q]
                   /\ refs' = Release(Release(RetainAlive(refs, {q}), {old}), {q})
        /\ ~runs => refs' = Release(refs, {q}) /\ held' = held
        /\ UNCHANGED <<market, era, callbacks, trader, mds>>
    BY DEF Deliver, netVars, subVars
  <1>2. QuotesTyped /\ QuotesSound /\ Ascending /\ TradersKnown /\ RefsExact /\ NobodyBehind
    BY DEF QuoteInv
  <1>3. /\ q \in AllQuotes /\ Sound(q) /\ old.time < q.time /\ q \in Range(posted[k])
        /\ \A x : x \in Range(p) <=> (x \in Range(posted[k]) /\ x # q)
        /\ \A i \in DOMAIN p : p[i].symbol = s => q.time < p[i].time
    BY <1>1, HeadOnce
  <1>4. /\ posted[k] \in Seq(AllQuotes) /\ p \in Seq(AllQuotes) /\ q = posted[k][1]
        /\ Len(posted[k]) \in Nat \ {0} /\ DOMAIN posted[k] = 1..Len(posted[k])
        /\ DOMAIN p = 1..(Len(posted[k]) - 1)
        /\ \A i \in DOMAIN p : p[i] = posted[k][i + 1] /\ i + 1 \in DOMAIN posted[k]
    <2>1. posted[k] \in Seq(AllQuotes) BY <1>2 DEF QuotesTyped
    <2>2. /\ p \in Seq(AllQuotes) /\ q = posted[k][1]
          /\ Len(posted[k]) \in Nat \ {0} /\ DOMAIN posted[k] = 1..Len(posted[k])
          /\ DOMAIN p = 1..(Len(posted[k]) - 1)
          /\ \A i \in 1..(Len(posted[k]) - 1) : p[i] = posted[k][i + 1]
      BY <1>1, <2>1, Dequeued
    <2> HIDE DEF p, q
    <2>3. \A i \in DOMAIN p : i + 1 \in DOMAIN posted[k] BY <2>2
    <2> QED BY <2>1, <2>2, <2>3
  <1>5. s \in Symbols /\ q.time \in Nat /\ q # NoQuote /\ q # old
    BY <1>3, NoQuoteFacts DEF AllQuotes
  <1> HIDE DEF p, q, s
  <1>6. posted'[k] = p /\ \A j \in Traders : j # k => posted'[j] = posted[j]
    BY <1>1, <1>2 DEF QuotesTyped
  <1>7. /\ \A j \in Traders, x \in Symbols : (j # k \/ x # s) => held'[j][x] = held[j][x]
        /\ held'[k][s] = IF runs THEN q ELSE NoQuote
    BY <1>1, <1>2, <1>5 DEF QuotesTyped, TradersKnown
  <1>8. QuotesTyped'
    <2>1. posted' \in [Traders -> Seq(AllQuotes)] BY <1>1, <1>2, <1>4 DEF QuotesTyped
    <2>2. held' \in [Traders -> [Symbols -> AllQuotes \cup {NoQuote}]]
      <3>1. q \in AllQuotes \cup {NoQuote} BY <1>3 DEF q
      <3>2. [held EXCEPT ![k][s] = q] \in [Traders -> [Symbols -> AllQuotes \cup {NoQuote}]]
        BY <1>2, <1>5, <3>1 DEF QuotesTyped
      <3> QED BY <1>1, <1>2, <3>2 DEF QuotesTyped
    <2> QED BY <1>1, <1>2, <2>1, <2>2 DEF QuotesTyped
  <1>9. \A i \in DOMAIN p : Sound(p[i]) /\ p[i].symbol \in Symbols /\ p[i].time \in Nat \ {0}
    <2>1. \A i \in DOMAIN posted[k] : Sound(posted[k][i]) BY <1>2 DEF QuotesSound
    <2>2. \A i \in DOMAIN p : Sound(p[i]) BY <1>4, <2>1
    <2> QED BY <2>2 DEF Sound, AllQuotes
  <1>10. QuotesSound'
    <2>1. \A j \in Traders : \A i \in DOMAIN posted'[j] : Sound(posted'[j][i])
      BY <1>2, <1>6, <1>9 DEF QuotesSound
    <2>2. ASSUME NEW j \in Traders, NEW x \in Symbols, held'[j][x] # NoQuote
          PROVE  Sound(held'[j][x]) /\ held'[j][x].symbol = x
      <3>1. CASE j = k /\ x = s /\ runs BY <1>3, <1>7, <2>2, <3>1 DEF s, q
      <3>2. CASE ~(j = k /\ x = s) BY <1>2, <1>7, <2>2, <3>2 DEF QuotesSound
      <3> QED BY <1>7, <2>2, <3>1, <3>2
    <2> QED BY <1>1, <1>2, <2>1, <2>2 DEF QuotesSound, Sound
  <1>11. Ascending'
    <2>1. ASSUME NEW i \in DOMAIN p PROVE held'[k][p[i].symbol].time < p[i].time
      <3>1. p[i].symbol \in Symbols /\ p[i].time \in Nat \ {0} BY <1>9
      <3>2. CASE p[i].symbol # s
        <4>1. held[k][posted[k][i + 1].symbol].time < posted[k][i + 1].time
          BY <1>2, <1>4 DEF Ascending
        <4>2. held'[k][p[i].symbol] = held[k][p[i].symbol] BY <1>7, <3>1, <3>2
        <4> QED BY <1>4, <4>1, <4>2
      <3>3. CASE p[i].symbol = s /\ runs BY <1>3, <1>7, <3>3 DEF s, p, q
      <3>4. CASE p[i].symbol = s /\ ~runs BY <1>7, <3>1, <3>4, NoQuoteFacts
      <3> QED BY <3>2, <3>3, <3>4
    <2>2. ASSUME NEW i \in DOMAIN p, NEW j \in DOMAIN p, i < j, p[i].symbol = p[j].symbol
          PROVE  p[i].time < p[j].time
      <3>1. i + 1 < j + 1 BY <1>4, <2>2
      <3> QED BY <1>2, <1>4, <2>2, <3>1 DEF Ascending
    <2>3. \A j \in Traders : j # k => held'[j] = held[j]
      BY <1>1, <1>2 DEF QuotesTyped
    <2>4. SUFFICES ASSUME NEW j \in Traders, NEW i \in DOMAIN posted'[j]
                   PROVE  /\ held'[j][posted'[j][i].symbol].time < posted'[j][i].time
                          /\ \A m \in DOMAIN posted'[j] :
                               (i < m /\ posted'[j][i].symbol = posted'[j][m].symbol) =>
                                  posted'[j][i].time < posted'[j][m].time
      BY DEF Ascending
    <2>5. CASE j = k BY <1>6, <2>1, <2>2, <2>5
    <2>6. CASE j # k BY <1>2, <1>6, <2>3, <2>6 DEF Ascending
    <2> QED BY <2>5, <2>6
  <1>12. TradersKnown'
    <2>1. trader[k] # "new" BY <1>1, <1>2 DEF TradersKnown
    <2>2. \A j \in Traders : trader[j] # "running" => \A x \in Symbols : held'[j][x] = NoQuote
      BY <1>2, <1>7 DEF TradersKnown
    <2>3. \A j \in Traders : trader[j] = "new" =>
            posted'[j] = <<>> /\ \A x \in Symbols : j \notin callbacks[x]
      BY <1>2, <1>6, <2>1 DEF TradersKnown
    <2> QED BY <1>1, <1>2, <2>2, <2>3 DEF TradersKnown
  <1>13. NobodyBehind'
    <2> SUFFICES ASSUME NEW x \in Symbols, NEW j \in callbacks[x]
                 PROVE  LET places == {i \in DOMAIN posted'[j] : posted'[j][i].symbol = x}
                        IN  /\ \A i \in places : (\A m \in places : m <= i) => posted'[j][i] = mds[x]
                            /\ places = {} => held'[j][x] \in {NoQuote, mds[x]}
      BY <1>1 DEF NobodyBehind
    <2> DEFINE before == {i \in DOMAIN posted[j] : posted[j][i].symbol = x}
               places == {i \in DOMAIN posted'[j] : posted'[j][i].symbol = x}
    <2>1. /\ \A i \in before : (\A m \in before : m <= i) => posted[j][i] = mds[x]
          /\ before = {} => held[j][x] \in {NoQuote, mds[x]}
      BY <1>2 DEF NobodyBehind
    <2>2. j \in Traders BY <1>2 DEF QuotesTyped
    <2>3. CASE j # k
      <3>1. posted'[j] = posted[j] /\ held'[j][x] = held[j][x] BY <1>6, <1>7, <2>2, <2>3
      <3> QED BY <2>1, <3>1
    <2>4. CASE j = k
      <3>1. \A i : i \in places <=> i \in DOMAIN p /\ i + 1 \in before
        BY <1>4, <1>6, <2>4
      <3>2. before \subseteq 1..Len(posted[k]) BY <1>4, <2>4
      <3>3. \A i \in before : i # 1 => i - 1 \in places /\ (i - 1) + 1 = i
        <4> SUFFICES ASSUME NEW i \in before, i # 1 PROVE i - 1 \in places /\ (i - 1) + 1 = i
          OBVIOUS
        <4>1. i \in 1..Len(posted[k]) BY <3>2
        <4> HIDE DEF before, places
        <4>2. (i - 1) + 1 = i /\ i - 1 \in DOMAIN p BY <1>4, <4>1
        <4> QED BY <3>1, <4>2
      <3>4. ASSUME NEW i \in places, \A m \in places : m <= i PROVE posted'[j][i] = mds[x]
        <4>1. i \in DOMAIN p /\ i + 1 \in before BY <3>1, <3>4
        <4>2. \A m \in before : m <= i + 1
          <5> SUFFICES ASSUME NEW m \in before PROVE m <= i + 1
            OBVIOUS
          <5>1. m \in 1..Len(posted[k]) BY <3>2
          <5> HIDE DEF before, places
          <5>2. CASE m = 1 BY <1>4, <4>1, <5>2
          <5>3. CASE m # 1
            <6>1. m - 1 <= i BY <3>3, <3>4, <5>3
            <6> QED BY <1>4, <4>1, <5>1, <6>1
          <5> QED BY <5>2, <5>3
        <4>3. posted[j][i + 1] = mds[x] BY <2>1, <4>1, <4>2
        <4> QED BY <1>4, <1>6, <2>4, <4>1, <4>3
      <3>5. ASSUME places = {} PROVE held'[j][x] \in {NoQuote, mds[x]}
        <4>1. before \subseteq {1}
          <5> HIDE DEF before, places
          <5> QED BY <3>3, <3>5
        <4>2. CASE x = s
          <5>1. 1 \in before BY <1>4, <2>4, <4>2 DEF s
          <5>2. posted[j][1] = mds[x]
            <6> HIDE DEF before
            <6> QED BY <2>1, <4>1, <5>1
          <5> QED BY <1>4, <1>7, <2>4, <4>2, <5>2
        <4>3. CASE x # s
          <5>1. 1 \notin before BY <1>4, <2>4, <4>3 DEF s
          <5>2. before = {} 
            <6> HIDE DEF before
            <6> QED BY <4>1, <5>1
          <5> QED BY <1>7, <2>1, <2>2, <4>3, <5>2
        <4> QED BY <4>2, <4>3
      <3> QED BY <3>4, <3>5
    <2> QED BY <2>3, <2>4
  \* The queue of k gives up its reference to q; if k runs it takes one and gives up
  \* another.
  <1>14. \A x \in AllQuotes : PostedTo(x)' = IF x = q THEN PostedTo(x) \ {k} ELSE PostedTo(x)
    <2> SUFFICES ASSUME NEW x \in AllQuotes, NEW j \in Traders
                 PROVE  x \in Range(posted'[j]) <=> (x \in Range(posted[j]) /\ ~(x = q /\ j = k))
      BY DEF PostedTo
    <2>1. CASE j = k BY <1>3, <1>6, <2>1 DEF p, q
    <2>2. CASE j # k BY <1>6, <2>2
    <2> QED BY <2>1, <2>2
  <1>15. k \in PostedTo(q) BY <1>3 DEF PostedTo
  <1>16. \A x \in AllQuotes : FeedHolds(x)' = FeedHolds(x) BY <1>1 DEF FeedHolds
  <1>17. h \in [AllQuotes -> Nat] /\ Exact(refs, h) /\ h[q] > 0
    <2>1. \A x \in AllQuotes : Count(x) \in Nat BY <1>2, CountFacts
    <2>2. Count(q) > 0 BY <1>2, <1>3, <1>15, CountFacts
    <2> QED BY <1>2, <1>3, <2>1, <2>2 DEF RefsExact
  <1>18. \A x \in AllQuotes :
           /\ Cardinality(PostedTo(x)) \in Nat /\ Cardinality(KeptBy(x)) \in Nat
           /\ Cardinality(PostedTo(x) \ {k}) = IF k \in PostedTo(x)
                THEN Cardinality(PostedTo(x)) - 1 ELSE Cardinality(PostedTo(x))
           /\ Cardinality(KeptBy(x) \ {k}) = IF k \in KeptBy(x)
                THEN Cardinality(KeptBy(x)) - 1 ELSE Cardinality(KeptBy(x))
           /\ Cardinality(KeptBy(x) \cup {k}) = IF k \in KeptBy(x)
                THEN Cardinality(KeptBy(x)) ELSE Cardinality(KeptBy(x)) + 1
           /\ FeedHolds(x) \in {0, 1}
    <2> SUFFICES ASSUME NEW x \in AllQuotes
                 PROVE  /\ IsFiniteSet(PostedTo(x)) /\ IsFiniteSet(KeptBy(x))
                        /\ Cardinality(PostedTo(x)) \in Nat /\ Cardinality(KeptBy(x)) \in Nat
                        /\ FeedHolds(x) \in {0, 1}
      BY FS_AddElement, FS_RemoveElement
    <2> QED BY <1>2, CountFacts
  <1>19. RefsExact'
    <2>1. CASE ~runs
      <3> DEFINE g == [x \in AllQuotes |-> IF x \in {q} THEN h[x] - 1 ELSE h[x]]
      <3>1. Exact(refs', g)
        <4> HIDE DEF h
        <4> QED BY <1>1, <1>17, <2>1, ReleaseExact
      <3>2. ASSUME NEW x \in AllQuotes PROVE Count(x)' = g[x]
        <4>1. KeptBy(x)' = KeptBy(x) BY <1>1, <2>1 DEF KeptBy
        <4>2. Count(x)' = FeedHolds(x) + Cardinality(PostedTo(x)') + Cardinality(KeptBy(x))
          BY <1>16, <4>1 DEF Count
        <4>3. Cardinality(PostedTo(x)') = IF x = q THEN Cardinality(PostedTo(x)) - 1
                                          ELSE Cardinality(PostedTo(x))
          BY <1>14, <1>15, <1>18
        <4>4. g[x] = IF x = q THEN Count(x) - 1 ELSE Count(x) OBVIOUS
        <4> HIDE DEF g
        <4>5. CASE x = q
          <5>1. /\ Cardinality(PostedTo(x)') = Cardinality(PostedTo(x)) - 1
                /\ g[x] = Count(x) - 1
            BY <4>3, <4>4, <4>5
          <5>2. Count(x) = FeedHolds(x) + Cardinality(PostedTo(x)) + Cardinality(KeptBy(x))
            BY DEF Count
          <5>3. /\ Cardinality(PostedTo(x)) \in Nat /\ Cardinality(KeptBy(x)) \in Nat
                /\ FeedHolds(x) \in {0, 1}
            BY <1>18
          <5> QED BY <4>2, <5>1, <5>2, <5>3
        <4>6. CASE x # q BY <1>18, <4>2, <4>3, <4>4, <4>6 DEF Count
        <4> QED BY <4>5, <4>6
      <3> HIDE DEF g
      <3>3. Exact(refs', [x \in AllQuotes |-> Count(x)']) BY <3>1, <3>2, ExactSame
      <3> QED BY <3>3 DEF RefsExact
    <2>2. CASE runs
      <3> DEFINE h1 == [x \in AllQuotes |-> IF x \in {q} THEN h[x] + 1 ELSE h[x]]
                 h2 == [x \in AllQuotes |-> IF x \in {old} THEN h1[x] - 1 ELSE h1[x]]
                 h3 == [x \in AllQuotes |-> IF x \in {q} THEN h2[x] - 1 ELSE h2[x]]
      <3>1. \A x \in AllQuotes :
              KeptBy(x)' = IF x = q THEN KeptBy(x) \cup {k}
                           ELSE IF x = old THEN KeptBy(x) \ {k} ELSE KeptBy(x)
        <4> SUFFICES ASSUME NEW x \in AllQuotes, NEW j \in Traders
                     PROVE  held'[j][x.symbol] = x <=>
                              IF j = k /\ x = q THEN TRUE
                              ELSE IF j = k /\ x = old THEN FALSE ELSE held[j][x.symbol] = x
          BY DEF KeptBy
        <4>1. x.symbol \in Symbols BY DEF AllQuotes
        <4>2. old # NoQuote => old.symbol = s BY <1>2, <1>5 DEF QuotesSound
        <4>3. x # NoQuote BY NoQuoteFacts
        <4>4. CASE j # k \/ x.symbol # s
          BY <1>5, <1>7, <2>2, <4>1, <4>2, <4>3, <4>4 DEF s
        <4>5. CASE j = k /\ x.symbol = s BY <1>5, <1>7, <2>2, <4>5
        <4> QED BY <4>4, <4>5
      <3>2. k \notin KeptBy(q) BY <1>5 DEF KeptBy, s
      <3>3. old \in AllQuotes => k \in KeptBy(old) /\ Count(old) > 0
        <4> SUFFICES ASSUME old \in AllQuotes PROVE k \in KeptBy(old) /\ Count(old) > 0
          OBVIOUS
        <4>1. old.symbol = s BY <1>2, <1>5, NoQuoteFacts DEF QuotesSound
        <4>2. k \in KeptBy(old) BY <4>1 DEF KeptBy
        <4> QED BY <1>2, <4>2, CountFacts
      <3>4. h1 \in [AllQuotes -> Nat] /\ Exact(RetainAlive(refs, {q}), h1)
        <4>1. h1 \in [AllQuotes -> Nat]
          <5> HIDE DEF h
          <5> QED BY <1>17
        <4>2. Exact(RetainAlive(refs, {q}), h1)
          <5> HIDE DEF h
          <5> QED BY <1>17, RetainExact
        <4> QED BY <4>1, <4>2
      <3>5. \A x \in AllQuotes \cap {old} : h1[x] > 0
        BY <1>5, <3>3
      <3>6. h2 \in [AllQuotes -> Nat] /\ Exact(Release(RetainAlive(refs, {q}), {old}), h2)
        <4> HIDE DEF h1, old
        <4>1. h2 \in [AllQuotes -> Nat] BY <3>4, <3>5
        <4>2. Exact(Release(RetainAlive(refs, {q}), {old}), h2) BY <3>4, <3>5, ReleaseExact
        <4> QED BY <4>1, <4>2
      <3>7. h2[q] > 0
        <4>1. h2[q] = h[q] + 1 BY <1>3, <1>5 DEF q
        <4> HIDE DEF h, h2
        <4> QED BY <1>3, <1>17, <4>1 DEF q
      <3>8. Exact(refs', h3)
        <4> HIDE DEF h2, h1, h
        <4> QED BY <1>1, <2>2, <3>6, <3>7, ReleaseExact
      <3>9. ASSUME NEW x \in AllQuotes PROVE Count(x)' = h3[x]
        <4>1. Count(x)' = FeedHolds(x) + Cardinality(PostedTo(x)') + Cardinality(KeptBy(x)')
          BY <1>16 DEF Count
        <4>2. Cardinality(PostedTo(x)') = IF x = q THEN Cardinality(PostedTo(x)) - 1
                                          ELSE Cardinality(PostedTo(x))
          BY <1>14, <1>15, <1>18
        <4>3. Cardinality(KeptBy(x)') = IF x = q THEN Cardinality(KeptBy(x)) + 1
                ELSE IF x = old THEN Cardinality(KeptBy(x)) - 1 ELSE Cardinality(KeptBy(x))
          <5>1. x = q => k \notin KeptBy(x) BY <3>2
          <5>2. x = old => k \in KeptBy(x) BY <3>3
          <5> HIDE DEF old
          <5> QED BY <1>18, <3>1, <5>1, <5>2
        <4>4. h3[x] = IF x = q THEN Count(x) ELSE IF x = old THEN Count(x) - 1 ELSE Count(x)
          <5>1. Count(x) \in Nat BY <1>2, CountFacts
          <5> HIDE DEF old
          <5> QED BY <1>5, <5>1
        <4> HIDE DEF h3, old
        <4>5. /\ Count(x) = FeedHolds(x) + Cardinality(PostedTo(x)) + Cardinality(KeptBy(x))
              /\ Cardinality(PostedTo(x)) \in Nat /\ Cardinality(KeptBy(x)) \in Nat
              /\ FeedHolds(x) \in {0, 1}
          BY <1>18 DEF Count
        <4>6. CASE x = q
          <5>1. /\ Cardinality(PostedTo(x)') = Cardinality(PostedTo(x)) - 1
                /\ Cardinality(KeptBy(x)') = Cardinality(KeptBy(x)) + 1
                /\ h3[x] = Count(x)
            BY <4>2, <4>3, <4>4, <4>6
          <5> QED BY <4>1, <4>5, <5>1
        <4>7. CASE x # q /\ x = old
          <5>1. /\ Cardinality(PostedTo(x)') = Cardinality(PostedTo(x))
                /\ Cardinality(KeptBy(x)') = Cardinality(KeptBy(x)) - 1
                /\ h3[x] = Count(x) - 1
            BY <4>2, <4>3, <4>4, <4>7
          <5> QED BY <4>1, <4>5, <5>1
        <4>8. CASE x # q /\ x # old
          <5>1. /\ Cardinality(PostedTo(x)') = Cardinality(PostedTo(x))
                /\ Cardinality(KeptBy(x)') = Cardinality(KeptBy(x))
                /\ h3[x] = Count(x)
            BY <4>2, <4>3, <4>4, <4>8
          <5> QED BY <4>1, <4>5, <5>1
        <4> QED BY <4>6, <4>7, <4>8
      <3> HIDE DEF h3
      <3>10. Exact(refs', [x \in AllQuotes |-> Count(x)']) BY <3>8, <3>9, ExactSame
      <3> QED BY <3>10 DEF RefsExact
    <2> QED BY <2>1, <2>2
  <1> QED BY <1>8, <1>10, <1>11, <1>12, <1>13, <1>19 DEF QuoteInv

-----------------------------------------------------------------------------
(* The feed hands on an answer *)

\* Of some places in a queue one is the last: the one with the fewest behind it.
LEMMA LastPlace ==
    ASSUME NEW n \in Nat, NEW P \in SUBSET (1..n), P # {}
    PROVE  \E l \in P : \A i \in P : i <= l
  <1> DEFINE T == {n - i : i \in P}
             R == OpToRel(<, Nat)
  <1>1. T \subseteq Nat /\ T # {}
    <2>1. \A i \in P : n - i \in Nat OBVIOUS
    <2> QED BY <2>1
  <1>2. PICK m \in T : \A y \in T : <<y, m>> \notin R
    <2> HIDE DEF T
    <2> QED BY <1>1, WFMin, NatLessThanWellFounded
  <1>3. PICK l \in P : m = n - l OBVIOUS
  <1>4. ASSUME NEW i \in P PROVE i <= l
    <2>1. n - i \in T OBVIOUS
    <2>2. n - i \in Nat /\ m \in Nat BY <1>1, <2>1
    <2> HIDE DEF T
    <2>3. ~(n - i < m) BY <1>2, <2>1, <2>2 DEF OpToRel
    <2> QED BY <1>3, <2>3
  <1> QED BY <1>4

\* A subscriber has nothing newer than the feed.
LEMMA FeedIsNewest ==
    ASSUME QuoteInv, NEW s \in Symbols, NEW k \in callbacks[s]
    PROVE  /\ k \in Traders /\ held[k][s].time <= mds[s].time
           /\ \A i \in DOMAIN posted[k] :
                posted[k][i].symbol = s => mds[s] # NoQuote /\ posted[k][i].time <= mds[s].time
  <1> DEFINE p == posted[k]
             places == {i \in DOMAIN p : p[i].symbol = s}
  <1>1. k \in Traders /\ p \in Seq(AllQuotes) BY DEF QuoteInv, QuotesTyped
  <1>2. Len(p) \in Nat /\ DOMAIN p = 1..Len(p) /\ \A i \in DOMAIN p : p[i] \in AllQuotes
    <2> HIDE DEF p
    <2> QED BY <1>1, LenProperties
  <1>3. /\ \A i \in places : (\A j \in places : j <= i) => p[i] = mds[s]
        /\ places = {} => held[k][s] \in {NoQuote, mds[s]}
    BY DEF QuoteInv, NobodyBehind
  <1>4. held[k][s].time \in Nat /\ mds[s].time \in Nat
    <2>1. \A q \in AllQuotes \cup {NoQuote} : q.time \in Nat BY NoQuoteFacts DEF AllQuotes
    <2>2. held[k][s] \in AllQuotes \cup {NoQuote} /\ mds[s] \in AllQuotes \cup {NoQuote}
      BY <1>1 DEF QuoteInv, QuotesTyped
    <2> QED BY <2>1, <2>2
  <1>5. CASE places = {}
    <2>1. held[k][s].time <= mds[s].time BY <1>3, <1>4, <1>5, NoQuoteFacts
    <2> QED BY <1>1, <1>5, <2>1
  <1>6. CASE places # {}
    <2>1. PICK l \in places : \A i \in places : i <= l
      <3>1. places \in SUBSET (1..Len(p)) BY <1>2
      <3> HIDE DEF places, p
      <3> QED BY <1>2, <1>6, <3>1, LastPlace
    <2>2. p[l] = mds[s] BY <1>3, <2>1
    <2>3. mds[s] \in AllQuotes /\ p[l].symbol = s BY <1>2, <2>1, <2>2
    <2>4. \A i \in places : i = l \/ p[i].time < p[l].time
      <3> SUFFICES ASSUME NEW i \in places, i # l PROVE p[i].time < p[l].time
        OBVIOUS
      <3>1. i < l BY <1>2, <2>1
      <3>2. p[i].symbol = p[l].symbol /\ i \in DOMAIN p /\ l \in DOMAIN p BY <2>1
      <3> QED BY <1>1, <3>1, <3>2 DEF QuoteInv, Ascending
    <2>5. \A i \in places : p[i].time <= mds[s].time
      BY <1>2, <2>2, <2>4 DEF AllQuotes
    <2>6. held[k][s].time < p[l].time BY <1>1, <2>1 DEF QuoteInv, Ascending
    <2>7. held[k][s].time <= mds[s].time BY <1>4, <2>2, <2>6
    <2> QED BY <1>1, <2>3, <2>5, <2>7, NoQuoteFacts
  <1> QED BY <1>5, <1>6

\* The quotes that one answer brings are new to everybody.
LEMMA NewQuotes ==
    ASSUME QuoteInv, NEW a, \A s \in DOMAIN a : s \in Symbols /\ a[s] \in 1..market[s]
    PROVE  LET new == {QuoteOf(s, a[s]) : s \in Newer(a)}
           IN  /\ Newer(a) \subseteq Symbols /\ new \subseteq AllQuotes /\ IsFiniteSet(new)
               /\ \A s \in Newer(a) : mds[s].time < a[s]
               /\ \A q \in new : /\ q.symbol \in Newer(a) /\ q = QuoteOf(q.symbol, a[q.symbol])
                                 /\ q.time = a[q.symbol] /\ q.time <= market[q.symbol]
                                 /\ q.era = era /\ ~Sound(q)
  <1> DEFINE N == Newer(a)
             new == {QuoteOf(s, a[s]) : s \in N}
  <1>1. QuotesTyped BY DEF QuoteInv
  <1>2. N \subseteq Symbols /\ N \subseteq DOMAIN a BY DEF Newer
  <1>3. \A s \in N : a[s] \in Nat \ {0} /\ a[s] <= market[s]
    BY <1>1, <1>2 DEF QuotesTyped
  <1>4. \A s \in N : mds[s].time < a[s]
    BY <1>1, <1>3, NoQuoteFacts DEF Newer, QuotesTyped
  <1>5. \A s \in N : /\ QuoteOf(s, a[s]) \in AllQuotes
                     /\ QuoteOf(s, a[s]).symbol = s /\ QuoteOf(s, a[s]).time = a[s]
                     /\ QuoteOf(s, a[s]).era = era
    BY <1>1, <1>2, <1>3 DEF QuoteOf, AllQuotes, QuotesTyped
  <1>6. \A q \in new : /\ q.symbol \in N /\ q = QuoteOf(q.symbol, a[q.symbol])
                       /\ q.time = a[q.symbol] /\ q.time <= market[q.symbol]
                       /\ q.era = era /\ q \in AllQuotes
    BY <1>3, <1>5
  <1>7. \A q \in new : ~Sound(q)
    <2> SUFFICES ASSUME NEW q \in new, Sound(q) PROVE FALSE
      OBVIOUS
    <2>1. q.time <= mds[q.symbol].time /\ mds[q.symbol] # NoQuote BY <1>6 DEF Sound
    <2>2. mds[q.symbol].time < q.time BY <1>4, <1>6
    <2>3. mds[q.symbol] \in AllQuotes BY <1>1, <1>2, <1>6, <2>1 DEF QuotesTyped
    <2> HIDE DEF new
    <2> QED BY <1>6, <2>1, <2>2, <2>3 DEF AllQuotes
  <1>8. IsFiniteSet(new)
    <2> DEFINE f == [s \in N |-> QuoteOf(s, a[s])]
    <2>1. f \in Surjection(N, new) BY DEF Surjection
    <2>2. IsFiniteSet(N) BY <1>2, FeedAssumption, FS_Subset
    <2> HIDE DEF N, new, f
    <2> QED BY <2>1, <2>2, FS_Surjection
  <1> QED BY <1>2, <1>4, <1>6, <1>7, <1>8

\* Nobody holds a quote that is not sound.
LEMMA CountedSound ==
    ASSUME QuoteInv, NEW q \in AllQuotes
    PROVE  Count(q) \in Nat /\ (Count(q) > 0 => Sound(q))
  <1>1. QuotesTyped /\ QuotesSound /\ TradersKnown BY DEF QuoteInv
  <1>2. /\ Count(q) \in Nat
        /\ Count(q) > 0 => (mds[q.symbol] = q \/ PostedTo(q) # {} \/ KeptBy(q) # {})
    BY <1>1, CountFacts
  <1>3. q # NoQuote /\ q.symbol \in Symbols BY NoQuoteFacts DEF AllQuotes
  <1>4. mds[q.symbol] = q => Sound(q) BY <1>1, <1>3 DEF QuotesSound
  <1>5. PostedTo(q) # {} => Sound(q) BY <1>1 DEF QuotesSound, PostedTo, Range
  <1>6. KeptBy(q) # {} => Sound(q) BY <1>1, <1>3 DEF QuotesSound, KeptBy
  <1> QED BY <1>2, <1>4, <1>5, <1>6

LEMMA OnMarketDepthQuotes ==
    ASSUME QuoteInv, NEW a, \A s \in DOMAIN a : s \in Symbols /\ a[s] \in 1..market[s],
           OnMarketDepth(a)
    PROVE  QuoteInv'
  <1> DEFINE N == Newer(a)
             new == {QuoteOf(s, a[s]) : s \in N}
             old == {mds[s] : s \in N} \ {NoQuote}
             rest == Release(refs, old)
             For(k) == {q \in new : k \in callbacks[q.symbol]}
             h == [q \in AllQuotes |-> Count(q)]
  <1>1. /\ mds' = [s \in Symbols |-> IF s \in N THEN QuoteOf(s, a[s]) ELSE mds[s]]
        /\ refs' = [q \in DOMAIN rest \cup new |->
                      IF q \in new THEN Retained(q.symbol) ELSE rest[q]]
        /\ posted' = [k \in Traders |-> Posted(k, new)]
        /\ UNCHANGED <<market, era, callbacks, trader, held>>
    BY DEF OnMarketDepth, subVars
  <1>2. QuotesTyped /\ QuotesSound /\ Ascending /\ TradersKnown /\ RefsExact /\ NobodyBehind
    BY DEF QuoteInv
  <1>3. /\ N \subseteq Symbols /\ new \subseteq AllQuotes /\ IsFiniteSet(new)
        /\ \A s \in N : mds[s].time < a[s]
        /\ \A q \in new : /\ q.symbol \in N /\ q = QuoteOf(q.symbol, a[q.symbol])
                          /\ q.time = a[q.symbol] /\ q.time <= market[q.symbol]
                          /\ q.era = era /\ ~Sound(q)
    BY NewQuotes
  <1>4. \A s \in N : QuoteOf(s, a[s]) \in new /\ QuoteOf(s, a[s]).symbol = s
    BY DEF QuoteOf
  <1>5. \A s \in Symbols : mds'[s] = IF s \in N THEN QuoteOf(s, a[s]) ELSE mds[s]
    BY <1>1
  \* The queues afterwards.
  <1>6. ASSUME NEW k \in Traders
        PROVE  LET p == posted[k]
                   pn == posted'[k]
               IN  /\ p \in Seq(AllQuotes) /\ pn \in Seq(AllQuotes)
                   /\ Len(p) \in Nat /\ Len(pn) \in Nat /\ Len(p) <= Len(pn)
                   /\ DOMAIN p = 1..Len(p) /\ DOMAIN pn = 1..Len(pn)
                   /\ \A i \in 1..Len(p) : pn[i] = p[i]
                   /\ \A i \in (Len(p) + 1)..Len(pn) : pn[i] \in For(k)
                   /\ \A i, j \in (Len(p) + 1)..Len(pn) : pn[i] = pn[j] => i = j
                   /\ \A q \in For(k) : \E i \in (Len(p) + 1)..Len(pn) : pn[i] = q
    <2>1. posted'[k] = posted[k] \o SetToSeq(For(k)) BY <1>1 DEF Posted
    <2>2. posted[k] \in Seq(AllQuotes) BY <1>2 DEF QuotesTyped
    <2>3. For(k) \in SUBSET AllQuotes /\ For(k) \subseteq new BY <1>3
    <2>4. IsFiniteSet(For(k))
      <3> HIDE DEF For, new
      <3> QED BY <1>3, <2>3, FS_Subset
    <2> DEFINE p == posted[k]
               S == For(k)
               pn == p \o SetToSeq(S)
    <2>5. p \in Seq(AllQuotes) /\ S \in SUBSET AllQuotes /\ IsFiniteSet(S)
      BY <2>2, <2>3, <2>4
    <2> HIDE DEF p, S
    <2>6. /\ p \in Seq(AllQuotes) /\ pn \in Seq(AllQuotes)
          /\ Len(p) \in Nat /\ Len(pn) \in Nat /\ Len(p) <= Len(pn)
          /\ DOMAIN p = 1..Len(p) /\ DOMAIN pn = 1..Len(pn)
          /\ \A i \in 1..Len(p) : pn[i] = p[i]
          /\ \A i \in (Len(p) + 1)..Len(pn) : pn[i] \in S
          /\ \A i, j \in (Len(p) + 1)..Len(pn) : pn[i] = pn[j] => i = j
          /\ \A q \in S : \E i \in (Len(p) + 1)..Len(pn) : pn[i] = q
      BY <2>5, Queued
    <2>7. posted[k] = p /\ For(k) = S /\ posted'[k] = pn BY <2>1 DEF p, S
    <2> HIDE DEF pn, For
    <2> QED BY <2>6, <2>7, Zenon
  <1>7. \A k : \A q \in For(k) : q \in new /\ k \in callbacks[q.symbol] OBVIOUS
  <1> HIDE DEF N, new, old, rest, For, h
  <1>8. QuotesTyped'
    <2>1. mds' \in [Symbols -> AllQuotes \cup {NoQuote}]
      BY <1>1, <1>2, <1>3, <1>4 DEF QuotesTyped
    <2>2. posted' \in [Traders -> Seq(AllQuotes)]
      <3>1. \A k \in Traders : posted'[k] \in Seq(AllQuotes) BY <1>6
      <3>2. posted' = [k \in Traders |-> posted'[k]] BY <1>1
      <3> QED BY <3>1, <3>2
    <2> QED BY <1>1, <1>2, <2>1, <2>2 DEF QuotesTyped
  <1>9. ASSUME NEW q, Sound(q) \/ q \in new PROVE Sound(q)'
    <2>1. CASE q \in new
      <3>1. q \in AllQuotes /\ q.symbol \in N /\ q.symbol \in Symbols BY <1>3, <2>1
      <3>2. mds'[q.symbol] = q BY <1>3, <1>5, <2>1, <3>1
      <3>3. q.time <= q.time /\ q.era <= q.era
        BY <3>1 DEF AllQuotes
      <3> QED BY <1>1, <1>3, <2>1, <3>1, <3>2, <3>3, NoQuoteFacts DEF Sound
    <2>2. CASE Sound(q) /\ q.symbol \in N
      <3>1. q \in AllQuotes /\ q.time \in Nat /\ q.symbol \in Symbols
        BY <2>2 DEF Sound, AllQuotes
      <3>2. q.era = era => mds[q.symbol] # NoQuote /\ q.time <= mds[q.symbol].time
        BY <2>2 DEF Sound
      <3>3. mds'[q.symbol] \in new /\ mds'[q.symbol].symbol = q.symbol BY <1>4, <1>5, <2>2, <3>1
      <3>4. mds'[q.symbol] \in AllQuotes /\ mds'[q.symbol].time = a[q.symbol]
        BY <1>3, <3>3
      <3>5. mds'[q.symbol].time \in Nat BY <3>4 DEF AllQuotes
      <3>6. q.era = era => q.time <= mds'[q.symbol].time
        <4> SUFFICES ASSUME q.era = era PROVE q.time <= mds'[q.symbol].time
          OBVIOUS
        <4>1. mds[q.symbol] \in AllQuotes BY <1>2, <3>1, <3>2 DEF QuotesTyped
        <4>2. mds[q.symbol].time \in Nat BY <4>1 DEF AllQuotes
        <4> QED BY <1>3, <2>2, <3>1, <3>2, <3>4, <3>5, <4>2
      <3> QED BY <1>1, <2>2, <3>4, <3>6, NoQuoteFacts DEF Sound
    <2>3. CASE Sound(q) /\ q.symbol \notin N
      <3>1. q.symbol \in Symbols BY <2>3 DEF Sound, AllQuotes
      <3>2. mds'[q.symbol] = mds[q.symbol] BY <1>5, <2>3, <3>1
      <3> QED BY <1>1, <2>3, <3>2 DEF Sound
    <2> QED BY <1>9, <2>1, <2>2, <2>3
  <1>10. \A k \in Traders : \A i \in DOMAIN posted'[k] :
           \/ i \in DOMAIN posted[k] /\ posted'[k][i] = posted[k][i]
           \/ i \in (Len(posted[k]) + 1)..Len(posted'[k]) /\ posted'[k][i] \in For(k)
    <2> SUFFICES ASSUME NEW k \in Traders, NEW i \in DOMAIN posted'[k]
                 PROVE  \/ i \in DOMAIN posted[k] /\ posted'[k][i] = posted[k][i]
                        \/ /\ i \in (Len(posted[k]) + 1)..Len(posted'[k])
                           /\ posted'[k][i] \in For(k)
      OBVIOUS
    <2>1. i \in 1..Len(posted[k]) \/ i \in (Len(posted[k]) + 1)..Len(posted'[k])
      BY <1>6
    <2> QED BY <1>6, <2>1
  <1>11. QuotesSound'
    <2>1. \A s \in Symbols : mds'[s] # NoQuote =>
            (Sound(mds'[s]) \/ mds'[s] \in new) /\ mds'[s].symbol = s
      BY <1>2, <1>4, <1>5 DEF QuotesSound
    <2>2. \A k \in Traders : \A i \in DOMAIN posted'[k] :
            Sound(posted'[k][i]) \/ posted'[k][i] \in new
      BY <1>2, <1>7, <1>10 DEF QuotesSound
    <2>3. \A k \in Traders, s \in Symbols :
            held'[k][s] # NoQuote => Sound(held'[k][s]) /\ held'[k][s].symbol = s
      BY <1>1, <1>2 DEF QuotesSound
    <2>4. \A q : (Sound(q) \/ q \in new) =>
            /\ q \in AllQuotes /\ q.time <= market'[q.symbol] /\ q.era <= era'
            /\ q.era = era' => (mds'[q.symbol] # NoQuote /\ q.time <= mds'[q.symbol].time)
      BY <1>9 DEF Sound
    <2> QED BY <2>1, <2>2, <2>3, <2>4 DEF QuotesSound, Sound
  <1>12. \A k \in Traders : \A q \in For(k) :
           /\ held[k][q.symbol].time < q.time
           /\ \A i \in DOMAIN posted[k] :
                posted[k][i].symbol = q.symbol => posted[k][i].time < q.time
    <2> SUFFICES ASSUME NEW k \in Traders, NEW q \in For(k)
                 PROVE  /\ held[k][q.symbol].time < q.time
                        /\ \A i \in DOMAIN posted[k] :
                             posted[k][i].symbol = q.symbol => posted[k][i].time < q.time
      OBVIOUS
    <2> DEFINE s == q.symbol
    <2>1. q \in new /\ k \in callbacks[s] /\ s \in N /\ s \in Symbols BY <1>3, <1>7
    <2>2. mds[s].time < q.time BY <1>3, <2>1
    <2>3. /\ held[k][s].time <= mds[s].time
          /\ \A i \in DOMAIN posted[k] : posted[k][i].symbol = s => posted[k][i].time <= mds[s].time
      BY <2>1, FeedIsNewest
    <2>4. held[k][s].time \in Nat /\ mds[s].time \in Nat /\ q.time \in Nat
      <3>1. \A x \in AllQuotes \cup {NoQuote} : x.time \in Nat BY NoQuoteFacts DEF AllQuotes
      <3>2. held[k][s] \in AllQuotes \cup {NoQuote} /\ mds[s] \in AllQuotes \cup {NoQuote}
        BY <1>2, <2>1 DEF QuotesTyped
      <3> HIDE DEF s
      <3> QED BY <1>3, <2>1, <3>1, <3>2
    <2>5. \A i \in DOMAIN posted[k] : posted[k][i].time \in Nat
      BY <1>2 DEF QuotesSound, Sound, AllQuotes
    <2> HIDE DEF s
    <2>6. held[k][s].time < q.time BY <2>2, <2>3, <2>4
    <2>7. \A i \in DOMAIN posted[k] : posted[k][i].symbol = s => posted[k][i].time < q.time
      BY <2>2, <2>3, <2>4, <2>5
    <2> QED BY <2>6, <2>7 DEF s
  <1>13. Ascending'
    <2> SUFFICES ASSUME NEW k \in Traders, NEW i \in DOMAIN posted'[k]
                 PROVE  /\ held[k][posted'[k][i].symbol].time < posted'[k][i].time
                        /\ \A j \in DOMAIN posted'[k] :
                             (i < j /\ posted'[k][i].symbol = posted'[k][j].symbol) =>
                                posted'[k][i].time < posted'[k][j].time
      BY <1>1 DEF Ascending
    <2>1. held[k][posted'[k][i].symbol].time < posted'[k][i].time
      BY <1>2, <1>10, <1>12 DEF Ascending
    <2>2. ASSUME NEW j \in DOMAIN posted'[k], i < j, posted'[k][i].symbol = posted'[k][j].symbol
          PROVE  posted'[k][i].time < posted'[k][j].time
      <3>1. CASE j \in DOMAIN posted[k]
        <4>1. i \in DOMAIN posted[k] /\ posted'[k][i] = posted[k][i]
              /\ posted'[k][j] = posted[k][j]
          <5>1. i \in 1..Len(posted[k]) BY <1>6, <2>2, <3>1
          <5> QED BY <1>6, <3>1, <5>1
        <4> QED BY <1>2, <2>2, <3>1, <4>1 DEF Ascending
      <3>2. CASE j \in (Len(posted[k]) + 1)..Len(posted'[k]) /\ posted'[k][j] \in For(k)
        <4>1. CASE i \in DOMAIN posted[k] /\ posted'[k][i] = posted[k][i]
          BY <1>12, <2>2, <3>2, <4>1
        <4>2. CASE i \in (Len(posted[k]) + 1)..Len(posted'[k]) /\ posted'[k][i] \in For(k)
          <5>1. posted'[k][i] = posted'[k][j] BY <1>3, <1>7, <2>2, <3>2, <4>2
          <5>2. i = j BY <1>6, <3>2, <4>2, <5>1
          <5>3. i \in Nat BY <1>6
          <5> QED BY <2>2, <5>2, <5>3
        <4> QED BY <1>10, <4>1, <4>2
      <3> QED BY <1>10, <3>1, <3>2
    <2> QED BY <2>1, <2>2
  <1>14. TradersKnown'
    <2>1. ASSUME NEW k \in Traders, trader[k] = "new" PROVE posted'[k] = <<>>
      <3>1. posted[k] = <<>> /\ \A s \in Symbols : k \notin callbacks[s]
        BY <1>2, <2>1 DEF TradersKnown
      <3>2. For(k) = {} BY <1>3, <1>7, <3>1
      <3>3. DOMAIN posted'[k] = {} BY <1>10, <3>1, <3>2
      <3>4. Len(posted'[k]) = 0 BY <1>6, <3>3
      <3> QED BY <1>6, <3>4, EmptySeq
    <2> QED BY <1>1, <1>2, <2>1 DEF TradersKnown
  <1>15. NobodyBehind'
    <2> SUFFICES ASSUME NEW s \in Symbols, NEW k \in callbacks[s]
                 PROVE  LET places == {i \in DOMAIN posted'[k] : posted'[k][i].symbol = s}
                        IN  /\ \A i \in places : (\A j \in places : j <= i) => posted'[k][i] = mds'[s]
                            /\ places = {} => held[k][s] \in {NoQuote, mds'[s]}
      BY <1>1 DEF NobodyBehind
    <2> DEFINE before == {i \in DOMAIN posted[k] : posted[k][i].symbol = s}
               places == {i \in DOMAIN posted'[k] : posted'[k][i].symbol = s}
    <2>1. k \in Traders BY <1>2 DEF QuotesTyped
    <2>2. /\ \A i \in before : (\A m \in before : m <= i) => posted[k][i] = mds[s]
          /\ before = {} => held[k][s] \in {NoQuote, mds[s]}
      BY <1>2 DEF NobodyBehind
    <2>3. CASE s \in N
      <3>1. mds'[s] \in For(k) /\ mds'[s].symbol = s BY <1>4, <1>5, <2>3 DEF For
      <3>2. PICK l \in (Len(posted[k]) + 1)..Len(posted'[k]) : posted'[k][l] = mds'[s]
        BY <1>6, <2>1, <3>1
      <3>3. l \in places BY <1>6, <2>1, <3>1, <3>2
      <3>4. ASSUME NEW i \in places, \A j \in places : j <= i PROVE posted'[k][i] = mds'[s]
        <4>1. l <= i /\ i \in 1..Len(posted'[k]) BY <1>6, <2>1, <3>3, <3>4
        <4>2. i \in (Len(posted[k]) + 1)..Len(posted'[k]) BY <1>6, <2>1, <4>1
        <4>3. posted'[k][i] \in For(k) /\ posted'[k][i].symbol = s BY <1>6, <2>1, <4>2
        <4> QED BY <1>3, <1>7, <3>1, <4>3
      <3> QED BY <3>3, <3>4
    <2>4. CASE s \notin N
      <3>1. mds'[s] = mds[s] BY <1>5, <2>4
      <3>2. \A i \in places : i \in before /\ posted'[k][i] = posted[k][i]
        BY <1>3, <1>7, <1>10, <2>1, <2>4
      <3>3. \A i \in before : i \in places BY <1>6, <2>1
      <3> HIDE DEF places, before
      <3>4. places = before BY <3>2, <3>3
      <3>5. \A i \in places : (\A j \in places : j <= i) => posted'[k][i] = mds'[s]
        BY <2>2, <3>1, <3>2, <3>4
      <3>6. places = {} => held[k][s] \in {NoQuote, mds'[s]} BY <2>2, <3>1, <3>4
      <3> QED BY <3>5, <3>6 DEF places
    <2> QED BY <2>3, <2>4
  \* What is posted, and what the feed keeps, of a quote.
  <1>16. \A k \in Traders : \A q : q \in Range(posted'[k]) <=> (q \in Range(posted[k]) \/ q \in For(k))
    <2> SUFFICES ASSUME NEW k \in Traders, NEW q
                 PROVE  q \in Range(posted'[k]) <=> (q \in Range(posted[k]) \/ q \in For(k))
      OBVIOUS
    <2>1. ASSUME q \in Range(posted'[k]) PROVE q \in Range(posted[k]) \/ q \in For(k)
      BY <1>10, <2>1 DEF Range
    <2>2. ASSUME q \in Range(posted[k]) PROVE q \in Range(posted'[k])
      <3>1. PICK i \in DOMAIN posted[k] : q = posted[k][i] BY <2>2 DEF Range
      <3>2. /\ Len(posted[k]) \in Nat /\ Len(posted'[k]) \in Nat
            /\ Len(posted[k]) <= Len(posted'[k])
            /\ DOMAIN posted[k] = 1..Len(posted[k]) /\ DOMAIN posted'[k] = 1..Len(posted'[k])
        BY <1>6
      <3>3. \A j \in 1..Len(posted[k]) : posted'[k][j] = posted[k][j] BY <1>6
      <3>4. i \in 1..Len(posted[k]) BY <3>2
      <3>5. i \in DOMAIN posted'[k] BY <3>2, <3>4
      <3>6. posted'[k][i] = posted[k][i] BY <3>3, <3>4
      <3> QED BY <3>1, <3>5, <3>6 DEF Range
    <2>3. ASSUME q \in For(k) PROVE q \in Range(posted'[k])
      <3>1. PICK i \in (Len(posted[k]) + 1)..Len(posted'[k]) : posted'[k][i] = q
        BY <1>6, <2>3
      <3>2. Len(posted[k]) \in Nat /\ DOMAIN posted'[k] = 1..Len(posted'[k]) BY <1>6
      <3>3. i \in DOMAIN posted'[k] BY <3>1, <3>2
      <3> QED BY <3>1, <3>3 DEF Range
    <2> QED BY <2>1, <2>2, <2>3
  <1>17. \A q \in AllQuotes : KeptBy(q)' = KeptBy(q) BY <1>1 DEF KeptBy
  <1>18. \A q \in AllQuotes : Count(q) \in Nat /\ (Count(q) > 0 => Sound(q))
    BY CountedSound
  <1>19. \A q \in AllQuotes : q \in old <=> (q.symbol \in N /\ mds[q.symbol] = q)
    BY <1>2, <1>3, NoQuoteFacts DEF old, QuotesSound
  <1>20. \A q \in AllQuotes : q \in old => Count(q) > 0 /\ q \notin new
    <2> SUFFICES ASSUME NEW q \in AllQuotes, q \in old PROVE Count(q) > 0 /\ q \notin new
      OBVIOUS
    <2>1. Count(q) > 0 BY <1>2, <1>19, CountFacts
    <2> QED BY <1>3, <1>18, <2>1
  <1> DEFINE left == [q \in AllQuotes |-> IF q \in old THEN h[q] - 1 ELSE h[q]]
  <1>21. Exact(rest, left)
    <2>1. h \in [AllQuotes -> Nat] /\ Exact(refs, h)
      BY <1>2, <1>18 DEF h, RefsExact
    <2>2. \A q \in old \cap AllQuotes : h[q] > 0 BY <1>20 DEF h
    <2> QED BY <2>1, <2>2, ReleaseExact DEF rest
  <1>22. ASSUME NEW q \in new
         PROVE  Count(q)' = Retained(q.symbol) /\ Retained(q.symbol) > 0
    <2>1. q \in AllQuotes /\ q.symbol \in Symbols /\ q.symbol \in N BY <1>3
    <2>2. Count(q) \in Nat /\ ~(Count(q) > 0) BY <1>3, <1>18, <2>1
    <2>3. PostedTo(q) = {} /\ KeptBy(q) = {} BY <1>2, <2>1, <2>2, CountFacts
    <2>4. FeedHolds(q)' = 1 BY <1>3, <1>5, <2>1 DEF FeedHolds
    <2>5. PostedTo(q)' = callbacks[q.symbol]
      <3>1. \A k \in Traders : q \in Range(posted'[k]) <=> q \in For(k)
        BY <1>16, <2>3 DEF PostedTo
      <3>2. \A k \in Traders : q \in For(k) <=> k \in callbacks[q.symbol] BY DEF For
      <3>3. callbacks[q.symbol] \subseteq Traders BY <1>2, <2>1 DEF QuotesTyped
      <3> QED BY <3>1, <3>2, <3>3 DEF PostedTo
    <2>6. Cardinality(callbacks[q.symbol]) \in Nat
      <3> DEFINE K == {k \in Traders : trader[k] # "new"}
      <3>1. callbacks[q.symbol] \subseteq K BY <1>2, <2>1 DEF QuotesTyped, TradersKnown
      <3>2. IsFiniteSet(K) BY <1>2 DEF TradersKnown
      <3> HIDE DEF K
      <3> QED BY <3>1, <3>2, FS_Subset, FS_CardinalityType
    <2>7. Cardinality(KeptBy(q)') = 0 BY <1>17, <2>1, <2>3, FS_EmptySet
    <2>8. Count(q)' = 1 + Cardinality(callbacks[q.symbol])
      <3>1. Count(q)' = FeedHolds(q)' + Cardinality(PostedTo(q)') + Cardinality(KeptBy(q)')
        BY DEF Count
      <3> QED BY <2>4, <2>5, <2>6, <2>7, <3>1
    <2> QED BY <2>6, <2>8 DEF Retained
  <1>23. ASSUME NEW q \in AllQuotes, q \notin new
         PROVE  Count(q)' = left[q]
    <2>1. PostedTo(q)' = PostedTo(q) /\ KeptBy(q)' = KeptBy(q)
      BY <1>7, <1>16, <1>17, <1>23 DEF PostedTo
    <2>2. q.symbol \in Symbols BY DEF AllQuotes
    <2>3. FeedHolds(q)' = IF q \in old THEN 0 ELSE FeedHolds(q)
      <3>1. CASE q.symbol \in N
        <4>1. mds'[q.symbol] # q BY <1>4, <1>5, <1>23, <2>2, <3>1
        <4> QED BY <1>19, <3>1, <4>1 DEF FeedHolds
      <3>2. CASE q.symbol \notin N
        <4>1. mds'[q.symbol] = mds[q.symbol] BY <1>5, <2>2, <3>2
        <4> QED BY <1>19, <3>2, <4>1 DEF FeedHolds
      <3> QED BY <3>1, <3>2
    <2>4. q \in old => FeedHolds(q) = 1 BY <1>19 DEF FeedHolds
    <2>5. /\ Cardinality(PostedTo(q)) \in Nat /\ Cardinality(KeptBy(q)) \in Nat
          /\ FeedHolds(q) \in {0, 1}
      BY <1>2, CountFacts
    <2>6. /\ Count(q)' = FeedHolds(q)' + Cardinality(PostedTo(q)) + Cardinality(KeptBy(q))
          /\ Count(q) = FeedHolds(q) + Cardinality(PostedTo(q)) + Cardinality(KeptBy(q))
      BY <2>1 DEF Count
    <2>7. left[q] = IF q \in old THEN Count(q) - 1 ELSE Count(q) BY DEF h
    <2> HIDE DEF left
    <2>8. CASE q \in old
      <3>1. FeedHolds(q)' = 0 /\ FeedHolds(q) = 1 /\ left[q] = Count(q) - 1
        BY <2>3, <2>4, <2>7, <2>8
      <3> QED BY <2>5, <2>6, <3>1
    <2>9. CASE q \notin old
      <3>1. FeedHolds(q)' = FeedHolds(q) /\ left[q] = Count(q) BY <2>3, <2>7, <2>9
      <3> QED BY <2>6, <3>1
    <2> QED BY <2>8, <2>9
  <1>24. RefsExact'
    <2> HIDE DEF left
    <2>1. DOMAIN rest = {q \in AllQuotes : left[q] > 0} /\ \A q \in DOMAIN rest : rest[q] = left[q]
      BY <1>21 DEF Exact
    <2>2. DOMAIN refs' = DOMAIN rest \cup new
          /\ \A q \in DOMAIN rest \cup new :
               refs'[q] = IF q \in new THEN Retained(q.symbol) ELSE rest[q]
      BY <1>1
    <2>3. \A q \in AllQuotes : q \in DOMAIN refs' <=> Count(q)' > 0
      BY <1>22, <1>23, <2>1, <2>2
    <2>4. DOMAIN refs' \subseteq AllQuotes BY <1>3, <2>1, <2>2
    <2>5. \A q \in DOMAIN refs' : refs'[q] = Count(q)'
      BY <1>22, <1>23, <2>1, <2>2
    <2>6. Exact(refs', [q \in AllQuotes |-> Count(q)']) BY <2>3, <2>4, <2>5 DEF Exact
    <2> QED BY <2>6 DEF RefsExact
  <1> QED BY <1>8, <1>11, <1>13, <1>14, <1>15, <1>24 DEF QuoteInv

-----------------------------------------------------------------------------
(* The runs of the feed, its keys and its answers *)

LEMMA EndedFacts ==
    ASSUME SideInv
    PROVE  /\ IsFiniteSet(Ended) /\ Cardinality(Ended) \in Nat
           /\ Cardinality(Ended) <= Cardinality(Runs) /\ Cardinality(Runs) \in Nat
           /\ \A r \in Runs \ Ended : Cardinality(Ended \cup {r}) = Cardinality(Ended) + 1
  <1>1. IsFiniteSet(Runs) /\ Ended \in SUBSET Runs BY FeedAssumption DEF Ended
  <1>2. IsFiniteSet(Ended) /\ Cardinality(Ended) <= Cardinality(Runs) BY <1>1, FS_Subset
  <1> QED BY <1>1, <1>2, FS_CardinalityType, FS_AddElement

\* A run that ends asks for one more stop.
LEMMA LoopsSide ==
    ASSUME SideInv, NEW r \in Runs, Run(r) \/ Begin(r) \/ EndLoop(r) \/ Restart(r)
    PROVE  SideInv'
  <1>1. UNCHANGED <<era, market, keys, counts, asked, answers>>
    BY DEF Run, Begin, EndLoop, Restart, Finish, subVars, netVars
  <1>2. loops[r] # "ended" /\ loops \in [Runs -> {"none", "spawned", "polling", "ended"}]
    BY DEF Run, Begin, EndLoop, Restart, SideInv
  <1>3. CASE Finish(r)
    <2>1. /\ loops' = [loops EXCEPT ![r] = "ended"] /\ keepRuning' = FALSE /\ stops' = stops + 1
      BY <1>3 DEF Finish
    <2>2. Ended' = Ended \cup {r} /\ r \notin Ended BY <1>2, <2>1 DEF Ended
    <2>3. era' + stops' = Cardinality(Ended')
      <3>1. stops \in Nat /\ era \in Nat /\ era + stops = Cardinality(Ended) BY DEF SideInv
      <3>2. Cardinality(Ended') = Cardinality(Ended) + 1 BY <2>2, EndedFacts
      <3> QED BY <1>1, <2>1, <3>1, <3>2
    <2>4. loops' \in [Runs -> {"none", "spawned", "polling", "ended"}] BY <1>2, <2>1
    <2>5. stops' \in Nat /\ keepRuning' \in BOOLEAN
      <3>1. stops \in Nat BY DEF SideInv
      <3>2. stops' \in Nat BY <2>1, <3>1
      <3>3. keepRuning' \in BOOLEAN BY <2>1
      <3> QED BY <3>2, <3>3
    <2>6. era' \in Nat /\ keys' \subseteq Traders /\ counts' \in [Symbols -> Nat]
      BY <1>1 DEF SideInv
    <2>7. /\ asked' \subseteq SUBSET Symbols
          /\ \A s \in Symbols : market'[s] \in 0..MaxTrades[s]
          /\ \A a \in answers' : \A s \in DOMAIN a : s \in Symbols /\ a[s] \in 1..market'[s]
      BY <1>1 DEF SideInv
    <2> QED BY <2>3, <2>4, <2>5, <2>6, <2>7 DEF SideInv
  <1>4. CASE UNCHANGED stops /\ loops' \in {[loops EXCEPT ![r] = l] : l \in {"spawned", "polling"}}
             /\ keepRuning' \in {TRUE, keepRuning}
    <2>1. PICK l \in {"spawned", "polling"} : loops' = [loops EXCEPT ![r] = l] BY <1>4
    <2>2. Ended' = Ended BY <1>2, <2>1 DEF Ended
    <2>3. loops' \in [Runs -> {"none", "spawned", "polling", "ended"}] BY <1>2, <2>1
    <2>4. keepRuning' \in BOOLEAN BY <1>4 DEF SideInv
    <2> QED BY <1>1, <1>4, <2>2, <2>3, <2>4 DEF SideInv
  <1>5. CASE Restart(r)
    <2>1. loops' = [loops EXCEPT ![r] = "spawned"] /\ UNCHANGED stops BY <1>5 DEF Restart
    <2>2. keepRuning' = FALSE BY <1>5 DEF Restart
    <2>3. Ended' = Ended BY <1>2, <2>1 DEF Ended
    <2>4. loops' \in [Runs -> {"none", "spawned", "polling", "ended"}] BY <1>2, <2>1
    <2> QED BY <1>1, <2>1, <2>2, <2>3, <2>4 DEF SideInv
  <1> QED BY <1>3, <1>4, <1>5 DEF Run, Begin, EndLoop

LEMMA QuotesSide ==
    ASSUME SideInv, QuoteInv,
           \/ StopTask
           \/ \E k \in Traders : Subscribe(k) \/ StopTrader(k) \/ Unsubscribe(k) \/ Deliver(k)
           \/ \E a \in answers : OnMarketDepth(a)
           \/ \E r \in Runs : Poll(r)
           \/ \E s \in Symbols : Trade(s)
           \/ \E b \in asked : Answer(b) \/ Fail(b)
    PROVE  SideInv'
  <1>1. market \in [Symbols -> Nat] BY DEF QuoteInv, QuotesTyped
  <1>2. CASE StopTask
    <2>1. stops \in Nat \ {0} /\ stops' = stops - 1 /\ era \in Nat /\ era' = era + 1
      BY <1>2 DEF StopTask, SideInv
    <2>2. stops' \in Nat /\ era' \in Nat /\ era' + stops' = era + stops BY <2>1
    <2>3. UNCHANGED <<keepRuning, loops, keys, counts, market, asked, answers>>
      BY <1>2 DEF StopTask, loopVars, netVars
    <2> QED BY <2>2, <2>3 DEF SideInv, Ended
  <1>3. ASSUME NEW k \in Traders, Subscribe(k) \/ Unsubscribe(k) PROVE SideInv'
    <2>1. UNCHANGED <<keepRuning, loops, stops, era, market, asked, answers>>
      BY <1>3 DEF Subscribe, Unsubscribe, loopVars, netVars
    <2>2. keys' \subseteq Traders BY <1>3 DEF Subscribe, Unsubscribe, SideInv
    <2>3. counts' \in [Symbols -> Nat] BY <1>3 DEF Subscribe, Unsubscribe, SideInv
    <2> QED BY <2>1, <2>2, <2>3 DEF SideInv, Ended
  <1>4. ASSUME NEW k \in Traders, StopTrader(k) \/ Deliver(k) PROVE SideInv'
    <2>1. UNCHANGED <<keepRuning, loops, stops, era, keys, counts, market, asked, answers>>
      BY <1>4 DEF StopTrader, Deliver, loopVars, subVars, netVars
    <2> QED BY <2>1 DEF SideInv, Ended
  <1>5. ASSUME NEW a \in answers, OnMarketDepth(a) PROVE SideInv'
    <2>1. /\ UNCHANGED <<keepRuning, loops, stops, era, keys, counts, market, asked>>
          /\ answers' = answers \ {a}
      BY <1>5 DEF OnMarketDepth, loopVars, subVars
    <2> QED BY <2>1 DEF SideInv, Ended
  <1>6. ASSUME NEW r \in Runs, Poll(r) PROVE SideInv'
    <2>1. /\ UNCHANGED <<keepRuning, loops, stops, era, keys, counts, market, answers>>
          /\ \E batches \in Batches : asked' = asked \cup batches
      BY <1>6 DEF Poll, loopVars, subVars
    <2>2. asked' \subseteq SUBSET Symbols BY <2>1 DEF Batches, SideInv
    <2> QED BY <2>1, <2>2 DEF SideInv, Ended
  <1>7. ASSUME NEW s \in Symbols, Trade(s) PROVE SideInv'
    <2>1. /\ market[s] < MaxTrades[s] /\ market' = [market EXCEPT ![s] = @ + 1]
          /\ UNCHANGED <<keepRuning, loops, stops, era, keys, counts, asked, answers>>
      BY <1>7 DEF Trade, loopVars, subVars
    <2>2. MaxTrades \in [Symbols -> Nat] BY FeedAssumption
    <2>3. \A x \in Symbols : market'[x] \in 0..MaxTrades[x] /\ market[x] <= market'[x]
      <3> SUFFICES ASSUME NEW x \in Symbols
                   PROVE  market'[x] \in 0..MaxTrades[x] /\ market[x] <= market'[x]
        OBVIOUS
      <3>1. market[x] \in Nat /\ market[x] \in 0..MaxTrades[x] /\ MaxTrades[x] \in Nat
        BY <1>1, <2>2 DEF SideInv
      <3>2. CASE x = s
        <4>1. market'[x] = market[x] + 1 /\ market[x] < MaxTrades[x] BY <1>1, <2>1, <3>2
        <4> QED BY <3>1, <4>1
      <3>3. CASE x # s
        <4>1. market'[x] = market[x] BY <1>1, <2>1, <3>3
        <4> QED BY <3>1, <4>1
      <3> QED BY <3>2, <3>3
    <2>4. \A a \in answers : \A x \in DOMAIN a : x \in Symbols /\ a[x] \in 1..market'[x]
      BY <1>1, <2>1, <2>2, <2>3 DEF SideInv
    <2> QED BY <2>1, <2>3, <2>4 DEF SideInv, Ended
  <1>8. ASSUME NEW b \in asked, Answer(b) PROVE SideInv'
    <2>1. /\ asked' = asked \ {b}
          /\ UNCHANGED <<keepRuning, loops, stops, era, keys, counts, market>>
      BY <1>8 DEF Answer, loopVars, subVars
    <2>2. PICK parsed \in SUBSET {s \in b : market[s] > 0} :
            answers' = answers \cup ({[s \in parsed |-> market[s]]} \ {<<>>})
      BY <1>8 DEF Answer
    <2>3. \A s \in parsed : s \in Symbols /\ market[s] \in 1..market[s] BY <1>1 DEF SideInv
    <2>4. \A a \in answers' : \A s \in DOMAIN a : s \in Symbols /\ a[s] \in 1..market[s]
      BY <2>2, <2>3 DEF SideInv
    <2> QED BY <2>1, <2>4 DEF SideInv, Ended
  <1>9. ASSUME NEW b \in asked, Fail(b) PROVE SideInv'
    <2>1. /\ asked' = asked \ {b}
          /\ UNCHANGED <<keepRuning, loops, stops, era, keys, counts, market, answers>>
      BY <1>9 DEF Fail, loopVars, subVars
    <2> QED BY <2>1 DEF SideInv, Ended
  <1> QED BY <1>2, <1>3, <1>4, <1>5, <1>6, <1>7, <1>8, <1>9

-----------------------------------------------------------------------------
(* The theorems *)

LEMMA InitFeedInv == Init => FeedInv
  <1> SUFFICES ASSUME Init PROVE FeedInv
    OBVIOUS
  <1>1. QuotesTyped BY DEF Init, QuotesTyped
  <1>2. QuotesSound /\ Ascending /\ NobodyBehind
    BY DEF Init, QuotesSound, Ascending, NobodyBehind
  <1>3. TradersKnown
    <2>1. {k \in Traders : trader[k] # "new"} = {} BY DEF Init
    <2> QED BY <2>1, FS_EmptySet DEF Init, TradersKnown
  <1>4. RefsExact
    <2>1. \A q \in AllQuotes : Count(q) = 0
      <3> SUFFICES ASSUME NEW q \in AllQuotes PROVE Count(q) = 0
        OBVIOUS
      <3>1. q.symbol \in Symbols /\ q # NoQuote BY NoQuoteFacts DEF AllQuotes
      <3>2. mds[q.symbol] # q /\ \A k \in Traders : held[k][q.symbol] # q
        BY <3>1 DEF Init
      <3>3. \A k \in Traders : q \notin Range(posted[k]) BY DEF Init, Range
      <3>4. PostedTo(q) = {} /\ KeptBy(q) = {} BY <3>2, <3>3 DEF PostedTo, KeptBy
      <3>5. ~(Count(q) > 0) /\ Count(q) \in Nat BY <1>1, <1>3, <3>2, <3>4, CountFacts
      <3> QED BY <3>5
    <2>2. DOMAIN refs = {} BY DEF Init
    <2> QED BY <2>1, <2>2 DEF RefsExact, Exact
  <1>5. SideInv
    <2>1. Ended = {} BY DEF Init, Ended
    <2>2. Cardinality(Ended) = 0 BY <2>1, FS_EmptySet
    <2>3. \A s \in Symbols : market[s] \in 0..MaxTrades[s]
      <3>1. MaxTrades \in [Symbols -> Nat] BY FeedAssumption
      <3> QED BY <3>1 DEF Init
    <2>4. stops \in Nat /\ era \in Nat /\ era + stops = Cardinality(Ended) BY <2>2 DEF Init
    <2>5. keepRuning \in BOOLEAN /\ loops \in [Runs -> {"none", "spawned", "polling", "ended"}]
      BY DEF Init
    <2>6. keys \subseteq Traders /\ counts \in [Symbols -> Nat] BY DEF Init
    <2>7. asked \subseteq SUBSET Symbols /\ answers = {} BY DEF Init
    <2> QED BY <2>3, <2>4, <2>5, <2>6, <2>7 DEF SideInv
  <1> QED BY <1>1, <1>2, <1>3, <1>4, <1>5 DEF FeedInv, QuoteInv

LEMMA NextFeedInv == FeedInv /\ [Next]_vars => FeedInv'
  <1> SUFFICES ASSUME QuoteInv, SideInv, [Next]_vars PROVE QuoteInv' /\ SideInv'
    BY DEF FeedInv
  <1>1. market \in [Symbols -> Nat] /\ \A s \in Symbols : market[s] <= market[s]
    BY DEF QuoteInv, QuotesTyped
  <1>2. ASSUME NEW r \in Runs, Run(r) \/ Begin(r) \/ EndLoop(r) \/ Restart(r) PROVE QuoteInv' /\ SideInv'
    <2>1. UNCHANGED <<market, era, callbacks, trader, mds, refs, posted, held>>
      BY <1>2 DEF Run, Begin, EndLoop, Restart, Finish, subVars, quoteVars, netVars
    <2>2. QuoteInv' BY <1>1, <2>1, QuotesUndisturbed
    <2> QED BY <1>2, <2>2, LoopsSide
  <1>3. ASSUME NEW r \in Runs, Poll(r) PROVE QuoteInv' /\ SideInv'
    <2>1. UNCHANGED <<market, era, callbacks, trader, mds, refs, posted, held>>
      BY <1>3 DEF Poll, subVars, quoteVars
    <2>2. QuoteInv' BY <1>1, <2>1, QuotesUndisturbed
    <2> QED BY <1>3, <2>2, QuotesSide
  <1>4. CASE StopTask BY <1>4, StopTaskQuotes, QuotesSide
  <1>5. ASSUME NEW k \in Traders, Subscribe(k) \/ StopTrader(k) \/ Unsubscribe(k) \/ Deliver(k)
        PROVE  QuoteInv' /\ SideInv'
    <2>1. SideInv' BY <1>5, QuotesSide
    <2>2. QuoteInv'
      BY <1>5, SubscribeQuotes, StopTraderQuotes, UnsubscribeQuotes, DeliverQuotes
    <2> QED BY <2>1, <2>2
  <1>6. ASSUME NEW s \in Symbols, Trade(s) PROVE QuoteInv' /\ SideInv'
    <2>1. UNCHANGED <<era, callbacks, trader, mds, refs, posted, held>>
      BY <1>6 DEF Trade, subVars, quoteVars
    <2>2. market' = [market EXCEPT ![s] = @ + 1] BY <1>6 DEF Trade
    <2>3. market' \in [Symbols -> Nat] /\ \A x \in Symbols : market[x] <= market'[x]
      BY <1>1, <2>2
    <2>4. QuoteInv' BY <2>1, <2>3, QuotesUndisturbed
    <2> QED BY <1>6, <2>4, QuotesSide
  <1>7. ASSUME NEW b \in asked, Answer(b) \/ Fail(b) PROVE QuoteInv' /\ SideInv'
    <2>1. UNCHANGED <<market, era, callbacks, trader, mds, refs, posted, held>>
      BY <1>7 DEF Answer, Fail, subVars, quoteVars
    <2>2. QuoteInv' BY <1>1, <2>1, QuotesUndisturbed
    <2> QED BY <1>7, <2>2, QuotesSide
  <1>8. ASSUME NEW a \in answers, OnMarketDepth(a) PROVE QuoteInv' /\ SideInv'
    <2>1. \A s \in DOMAIN a : s \in Symbols /\ a[s] \in 1..market[s] BY DEF SideInv
    <2> QED BY <1>8, <2>1, OnMarketDepthQuotes, QuotesSide
  <1>9. CASE UNCHANGED vars
    <2>1. UNCHANGED <<market, era, callbacks, trader, mds, refs, posted, held, keepRuning, loops,
                      stops, keys, counts, asked, answers>>
      BY <1>9 DEF vars, loopVars, subVars, quoteVars, netVars
    <2>2. QuoteInv' BY <1>1, <2>1, QuotesUndisturbed
    <2>3. SideInv' BY <2>1 DEF SideInv, Ended
    <2> QED BY <2>2, <2>3
  <1> QED BY <1>2, <1>3, <1>4, <1>5, <1>6, <1>7, <1>8, <1>9 DEF Next

\* The inductive invariant: who holds which quote, and in which order quotes of a symbol
\* come, in every reachable state of QuoteFeedInternet.
THEOREM FeedSafety == Spec => []FeedInv
  BY InitFeedInv, NextFeedInv, PTL DEF Spec

\* Every variable of the feed has its type, for any number of symbols, traders and runs.
THEOREM FeedTyped == Spec => []TypeOK
  <1>1. FeedInv => TypeOK
    <2> SUFFICES ASSUME QuoteInv, SideInv PROVE TypeOK
      BY DEF FeedInv
    <2>1. QuotesTyped /\ QuotesSound BY DEF QuoteInv
    <2>2. \A q : Sound(q) => IsQuote(q)
      <3> SUFFICES ASSUME NEW q, Sound(q) PROVE IsQuote(q)
        OBVIOUS
      <3>1. q.symbol \in Symbols /\ q.time \in Nat \ {0} /\ q.era \in Nat /\ era \in Nat
        BY <2>1 DEF Sound, AllQuotes, QuotesTyped
      <3>2. market[q.symbol] \in Nat BY <2>1, <3>1 DEF QuotesTyped
      <3> QED BY <3>1, <3>2 DEF Sound, IsQuote
    <2>3. \A q \in DOMAIN refs : IsQuote(q) /\ refs[q] \in Nat \ {0}
      <3> SUFFICES ASSUME NEW q \in DOMAIN refs PROVE IsQuote(q) /\ refs[q] \in Nat \ {0}
        OBVIOUS
      <3>1. q \in AllQuotes /\ Count(q) > 0 /\ refs[q] = Count(q)
        BY DEF QuoteInv, RefsExact, Exact
      <3> QED BY <2>2, <3>1, CountedSound
    <2>4. era \in 0..Cardinality(Runs)
      <3>1. era \in Nat /\ stops \in Nat /\ era + stops = Cardinality(Ended) BY DEF SideInv
      <3>2. Cardinality(Ended) <= Cardinality(Runs) /\ Cardinality(Runs) \in Nat BY EndedFacts
      <3> QED BY <3>1, <3>2
    <2>5. \A k \in Traders : \A i \in DOMAIN posted[k] : IsQuote(posted[k][i])
      BY <2>1, <2>2 DEF QuotesSound
    <2>6. /\ \A s \in Symbols : mds[s] # NoQuote => IsQuote(mds[s])
          /\ \A k \in Traders, s \in Symbols : held[k][s] # NoQuote => IsQuote(held[k][s])
      BY <2>1, <2>2 DEF QuotesSound
    <2> QED BY <2>1, <2>3, <2>4, <2>5, <2>6 DEF TypeOK, SideInv, QuotesTyped
  <1> QED BY <1>1, FeedSafety, PTL

\* A quote is once in the queue of a trader, so its places are as many as its traders.
LEMMA PlacesCounted ==
    ASSUME QuoteInv, NEW q \in AllQuotes
    PROVE  Cardinality({p \in UNION {{k} \X DOMAIN posted[k] : k \in Traders} :
                           posted[p[1]][p[2]] = q}) = Cardinality(PostedTo(q))
  <1> DEFINE P == {p \in UNION {{k} \X DOMAIN posted[k] : k \in Traders} : posted[p[1]][p[2]] = q}
             At(k) == CHOOSE i \in DOMAIN posted[k] : posted[k][i] = q
             f == [k \in PostedTo(q) |-> <<k, At(k)>>]
  <1>1. \A k \in PostedTo(q) :
          k \in Traders /\ At(k) \in DOMAIN posted[k] /\ posted[k][At(k)] = q
    BY DEF PostedTo, Range
  <1>2. \A k \in Traders : \A i, j \in DOMAIN posted[k] :
          (posted[k][i] = q /\ posted[k][j] = q) => i = j
    <2> SUFFICES ASSUME NEW k \in Traders, NEW i \in DOMAIN posted[k], NEW j \in DOMAIN posted[k],
                        posted[k][i] = q, posted[k][j] = q
                 PROVE  i = j
      OBVIOUS
    <2>1. i \in Nat /\ j \in Nat
      <3>1. posted[k] \in Seq(AllQuotes) BY DEF QuoteInv, QuotesTyped
      <3> QED BY <3>1, LenProperties
    <2>2. q.time \in Nat BY DEF AllQuotes
    <2>3. ~(i < j) /\ ~(j < i) BY <2>2 DEF QuoteInv, Ascending
    <2> QED BY <2>1, <2>3
  <1> HIDE DEF At
  <1>3. f \in [PostedTo(q) -> P] BY <1>1
  <1>4. \A k, j \in PostedTo(q) : f[k] = f[j] => k = j OBVIOUS
  <1>5. \A p \in P : \E k \in PostedTo(q) : f[k] = p
    <2> SUFFICES ASSUME NEW p \in P PROVE \E k \in PostedTo(q) : f[k] = p
      OBVIOUS
    <2>1. PICK k \in Traders : p \in {k} \X DOMAIN posted[k] /\ posted[p[1]][p[2]] = q
      OBVIOUS
    <2>2. PICK i \in DOMAIN posted[k] : p = <<k, i>> /\ posted[k][i] = q BY <2>1
    <2>3. k \in PostedTo(q) BY <2>2 DEF PostedTo, Range
    <2>4. At(k) = i BY <1>1, <1>2, <2>2, <2>3
    <2> QED BY <2>2, <2>3, <2>4
  <1>6. f \in Bijection(PostedTo(q), P)
    <2> HIDE DEF f, P
    <2> QED BY <1>3, <1>4, <1>5 DEF Bijection, Injection, Surjection, IsInjective
  <1>7. IsFiniteSet(PostedTo(q)) BY CountFacts DEF QuoteInv
  <1> HIDE DEF P, f
  <1>8. Cardinality(P) = Cardinality(PostedTo(q))
    BY <1>6, <1>7, FS_Bijection DEF ExistsBijection
  <1> QED BY <1>8 DEF P

\* KeepAliveObject: nobody ever reads a quote that was destroyed, none is leaked.
THEOREM QuotesLiveAsLongAsUsed == Spec => []QuotesOutliveTheirUse
  <1>1. FeedInv => QuotesOutliveTheirUse
    <2> SUFFICES ASSUME QuoteInv PROVE QuotesOutliveTheirUse
      BY DEF FeedInv
    <2>1. QuotesTyped /\ QuotesSound /\ TradersKnown /\ RefsExact BY DEF QuoteInv
    <2>2. DOMAIN refs = {q \in AllQuotes : Count(q) > 0} /\ \A q \in DOMAIN refs : refs[q] = Count(q)
      BY <2>1 DEF RefsExact, Exact
    <2>3. \A q \in InUse \ {NoQuote} : q \in AllQuotes
          /\ (mds[q.symbol] = q \/ PostedTo(q) # {} \/ KeptBy(q) # {})
      <3> SUFFICES ASSUME NEW q \in InUse, q # NoQuote
                   PROVE  /\ q \in AllQuotes
                          /\ (mds[q.symbol] = q \/ PostedTo(q) # {} \/ KeptBy(q) # {})
        OBVIOUS
      <3>1. CASE \E s \in Symbols : q = mds[s]
        <4>1. PICK s \in Symbols : q = mds[s] BY <3>1
        <4>2. Sound(mds[s]) /\ mds[s].symbol = s BY <2>1, <4>1 DEF QuotesSound
        <4>3. q \in AllQuotes BY <4>1, <4>2 DEF Sound
        <4>4. q.symbol = s BY <4>1, <4>2
        <4> QED BY <4>1, <4>3, <4>4
      <3>2. CASE \E k \in Traders : q \in Range(posted[k])
        <4>1. PostedTo(q) # {} BY <3>2 DEF PostedTo
        <4>2. q \in AllQuotes BY <2>1, <3>2 DEF QuotesSound, Sound, Range
        <4> QED BY <4>1, <4>2
      <3>3. CASE \E k \in Traders : q \in Range(held[k])
        <4>1. PICK k \in Traders : q \in Range(held[k]) BY <3>3
        <4>2. PICK s \in Symbols : q = held[k][s] BY <2>1, <4>1 DEF QuotesTyped, Range
        <4>3. q \in AllQuotes /\ q.symbol = s BY <2>1, <4>2 DEF QuotesSound, Sound
        <4> QED BY <4>1, <4>2, <4>3 DEF KeptBy
      <3> QED BY <3>1, <3>2, <3>3 DEF InUse
    <2>4. \A q \in AllQuotes : (mds[q.symbol] = q \/ PostedTo(q) # {} \/ KeptBy(q) # {}) =>
            q \in InUse \ {NoQuote}
      <3> SUFFICES ASSUME NEW q \in AllQuotes,
                          mds[q.symbol] = q \/ PostedTo(q) # {} \/ KeptBy(q) # {}
                   PROVE  q \in InUse
        BY NoQuoteFacts
      <3>1. q.symbol \in Symbols BY DEF AllQuotes
      <3>2. CASE mds[q.symbol] = q
        <4>1. q \in {mds[s] : s \in Symbols} BY <3>1, <3>2
        <4> QED BY <4>1 DEF InUse
      <3>3. CASE PostedTo(q) # {} BY <3>3 DEF InUse, PostedTo
      <3>4. CASE KeptBy(q) # {}
        <4>1. PICK k \in Traders : held[k][q.symbol] = q BY <3>4 DEF KeptBy
        <4>2. q \in Range(held[k]) BY <2>1, <3>1, <4>1 DEF QuotesTyped, Range
        <4> QED BY <4>2 DEF InUse
      <3> QED BY <3>2, <3>3, <3>4
    <2>5. \A q \in AllQuotes :
            Count(q) > 0 <=> (mds[q.symbol] = q \/ PostedTo(q) # {} \/ KeptBy(q) # {})
      BY <2>1, CountFacts
    <2>6. InUse \ {NoQuote} = DOMAIN refs BY <2>2, <2>3, <2>4, <2>5
    <2>7. ASSUME NEW q \in AllQuotes PROVE Holders(q) = Count(q)
      <3> DEFINE F == {s \in Symbols : mds[s] = q}
      <3>1. q # NoQuote /\ q.symbol \in Symbols BY NoQuoteFacts DEF AllQuotes
      <3>2. F = IF mds[q.symbol] = q THEN {q.symbol} ELSE {}
        BY <2>1, <3>1 DEF QuotesSound
      <3>3. Cardinality(F) = FeedHolds(q)
        <4> HIDE DEF F
        <4> QED BY <3>2, FS_EmptySet, FS_Singleton DEF FeedHolds
      <3>4. {k \in Traders : \E s \in Symbols : held[k][s] = q} = KeptBy(q)
        BY <2>1, <3>1 DEF QuotesSound, KeptBy
      <3> QED BY <3>3, <3>4, PlacesCounted DEF Holders, Count
    <2> QED BY <2>2, <2>6, <2>7 DEF QuotesOutliveTheirUse
  <1> QED BY <1>1, FeedSafety, PTL

\* onMarketDepth and the posted callbacks: no subscriber is left on an old quote.
THEOREM SubscribersKeepUp == Spec => []NobodyBehind
  <1>1. FeedInv => NobodyBehind BY DEF FeedInv, QuoteInv
  <1> QED BY <1>1, FeedSafety, PTL

\* onMarketDepth: a trader never goes back to an older quote, though answers overtake
\* each other and the feed may stop and start.
THEOREM QuotesOnlyAscend == Spec => QuotesAscend
  <1> DEFINE Up == \A k \in Traders, s \in Symbols :
                     (held'[k][s] # held[k][s] /\ held'[k][s] # NoQuote) =>
                         held'[k][s].time > held[k][s].time
  <1>1. FeedInv /\ [Next]_vars => [Up]_vars
    <2> SUFFICES ASSUME QuoteInv, Next, NEW k \in Traders, NEW s \in Symbols,
                        held'[k][s] # held[k][s], held'[k][s] # NoQuote
                 PROVE  held'[k][s].time > held[k][s].time
      BY DEF FeedInv
    <2>1. QuotesTyped BY DEF QuoteInv
    <2>2. ASSUME NEW j \in Traders, Deliver(j) PROVE held'[k][s].time > held[k][s].time
      <3> DEFINE q == Head(posted[j])
      <3>1. posted[j] # <<>> /\ (held' = held \/ held' = [held EXCEPT ![j][q.symbol] = q])
        BY <2>2 DEF Deliver
      <3>2. q \in AllQuotes /\ held[j][q.symbol].time < q.time BY <3>1, HeadOnce
      <3> HIDE DEF q
      <3>3. j = k /\ q.symbol = s /\ held'[k][s] = q
        <4>1. held' = [held EXCEPT ![j] = [held[j] EXCEPT ![q.symbol] = q]] BY <3>1
        <4>2. held \in [Traders -> [Symbols -> AllQuotes \cup {NoQuote}]] BY <2>1 DEF QuotesTyped
        <4>3. j = k BY <4>1, <4>2
        <4>4. held'[k] = [held[k] EXCEPT ![q.symbol] = q] BY <4>1, <4>2, <4>3
        <4>5. q.symbol = s BY <4>2, <4>4
        <4> QED BY <4>2, <4>3, <4>4, <4>5
      <3>4. held[k][s].time \in Nat /\ q.time \in Nat
        <4>1. \A x \in AllQuotes \cup {NoQuote} : x.time \in Nat BY NoQuoteFacts DEF AllQuotes
        <4>2. held[k][s] \in AllQuotes \cup {NoQuote} BY <2>1 DEF QuotesTyped
        <4> QED BY <3>2, <4>1, <4>2
      <3> QED BY <3>2, <3>3, <3>4
    <2>3. ASSUME NEW j \in Traders, StopTrader(j) PROVE FALSE
      BY <2>1, <2>3 DEF StopTrader, QuotesTyped
    <2>4. CASE ~\E j \in Traders : Deliver(j) \/ StopTrader(j)
      <3>1. held' = held
        BY <2>4 DEF Next, Run, Begin, Finish, Poll, EndLoop, Restart, StopTask, Subscribe, Unsubscribe,
                    Trade, Answer, Fail, OnMarketDepth, quoteVars
      <3> QED BY <3>1
    <2> QED BY <2>2, <2>3, <2>4
  <1>2. Spec => [][Up]_vars BY <1>1, FeedSafety, PTL DEF Spec
  <1> QED BY <1>2 DEF QuotesAscend
=============================================================================
