SPECIFICATION Spec
CONSTANTS
    OrderIds = {1, 2}
    Symbols = {"s"}
    Prices = {10, 11}
    Quotes <- MCQuotes
    Requests <- MCRequests
    OpeningQuote <- MCOpening
    NoQuote = NoQuote
INVARIANTS
    TypeOK
    OpenOrdersRest
    QuantitiesMatchStatus
    AccountsBalance
PROPERTIES
    FinalOrdersAreFrozen
    PlaceInQueueKept
    BookKeepsOrderLife
CHECK_DEADLOCK FALSE
