SPECIFICATION Spec
CONSTANTS
    QuoteTimes <- MCQuoteTimes
    MarketOpen = 9
    MorningClose = 24
    AfternoonOpen = 40
    ClosingAuctionBegin = 56
    MarketClose = 60
    StartTimes = {5, 10, 17, 20, 30, 40}
    EndTimes = {24, 30, 46, 53, 70}
    RandDelays = {0, 1, 2}
    Durations = {1, 2, 3, 4, 5, 7, 12}
INVARIANTS
    TypeOK
    NeverBothWaiting
    KeepsItsWindow
PROPERTIES
    RoundsStartOnTime
    BackTestEnds
CHECK_DEADLOCK FALSE
