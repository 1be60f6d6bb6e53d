SPECIFICATION ExecSpec
CONSTANTS
    OrderIds = {1, 2}
    Symbols = {"s"}
    Prices = {10, 11}
    Quotes <- MCQuotes
    Requests <- MCRequests
    OpeningQuote <- MCOpening
    NoQuote = NoQuote
    qtyTarget = 400
INVARIANTS
    ExecTypeOK
    ViewNeverAhead
    NeverOvertrades
    CountersMatchView
PROPERTIES
    EventuallyInformed
    CancelTakesEffect
    ViewKeepsOrderLife
CHECK_DEADLOCK FALSE
