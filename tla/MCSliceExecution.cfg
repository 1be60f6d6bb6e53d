SPECIFICATION Spec
CONSTANTS
    qtyTarget = 600
    isBuy = TRUE
    orderInitQtySize = 100
    lotSize = 100
    amountLot = 120
    numOfSlicers = 4
    roundsPerSlicer = 3
    durationPerSlicer = 600
    RemainTimes = {5, 300}
    biasPercent = 5
    VolCurve <- MCVolCurve
    Caps = {200, 600}
    Impacts = {100, 300}
    MaySkip = TRUE
INVARIANTS
    TypeOK
    NeverBeyondTarget
    OnSchedule
    EndsOnTarget
CHECK_DEADLOCK FALSE
