SPECIFICATION Spec
CONSTANTS
    Traders <- MCTraders
    BackTest <- MCBackTest
    CreateRequests <- MCRequests
    Categories <- MixedCategories
    m_numAlgoWorkers = 2
    CounterSize = 16
    NoTrader = NoTrader
PROPERTIES
    QueueEventuallyRuns
CHECK_DEADLOCK FALSE
