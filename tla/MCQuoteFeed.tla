---------------------------- MODULE MCQuoteFeed ----------------------------
(* Two symbols, of which one trades twice, a trader of the other one and a
   trader of both. *)
EXTENDS QuoteFeed

CONSTANTS s1, s2, k1, k2, r1, r2

MCSymbols == {s1, s2}
MCTraders == {k1, k2}
MCRuns == {r1, r2}
MCSymmetry == Permutations(MCRuns)
MCMaxTrades == (s1 :> 2) @@ (s2 :> 1)
MCWants == (k1 :> {s2}) @@ (k2 :> {s1, s2})
=============================================================================
