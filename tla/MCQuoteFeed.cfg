SPECIFICATION Spec
CONSTANTS
    s1 = s1
    s2 = s2
    k1 = k1
    k2 = k2
    Symbols <- MCSymbols
    Traders <- MCTraders
    Wants <- MCWants
    BatchSize = 2
    r1 = r1
    r2 = r2
    Runs <- MCRuns
    MaxTrades <- MCMaxTrades
    MaxOpen = 2
SYMMETRY MCSymmetry
INVARIANTS
    TypeOK
    QuotesOutliveTheirUse
    NobodyBehind
PROPERTIES
    QuotesAscend
CHECK_DEADLOCK FALSE
