SPECIFICATION ExecSpec
CONSTANTS
    OrderIds = {1, 2}
    Symbols = {"s"}
    Prices = {10, 11}
    Quotes <- MCQuotes
    Requests <- MCOneSize
    OpeningQuote <- MCOpening
    NoQuote = NoQuote
    qtyTarget = 400
PROPERTIES
    CancelStopsARunningAlgo
CHECK_DEADLOCK FALSE
