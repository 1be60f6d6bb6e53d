SPECIFICATION Spec
CONSTANTS
    NumParts = 4
    NumWorkers = 2
    WindowSize = 2
    RangePercent = 1
    Confirm = 1
    Prices <- MCPrices
    StartTime = 2
    MaxTicks = 11
    OrderQty = 2
    NoMd = NoMd
INVARIANTS
    TypeOK
    UserStopIsComplete
    SummarisedAfterAll
PROPERTIES
    FinalReportIsLast
    ShotEnds
CHECK_DEADLOCK FALSE
