SPECIFICATION Spec
CONSTANTS
    Traders <- MCTraders
    BackTest <- MCBackTest
    CreateRequests <- MCRequests
    Categories <- OneCategory
    m_numAlgoWorkers = 2
    CounterSize = 16
    NoTrader = NoTrader
INVARIANTS
    TypeOK
    NoLostWakeup
    CountersExact
PROPERTIES
    QueueEventuallyRuns
CHECK_DEADLOCK FALSE
