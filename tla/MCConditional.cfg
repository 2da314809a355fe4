SPECIFICATION MCSpec
CONSTANTS
    Apis = {a1, a2}
    Rows <- MCRows
    Terms <- MCTerms
    Prices = {1,2,3,4}
    Price0 = 2
    Held0 = 2
    BpsBase = 4
    FaultKinds = {"crash","lostTick","lostWrite","lostResult","positionGone","armingFails"}
    MaxTrades = 3
    MaxFaults = 1
    Lower = "stop"
    Upper = "take"
    StopBps = 1
    TakeBps = 1
    MaxFilled = 2

CHECK_DEADLOCK FALSE

INVARIANTS
    CondTypeOK ClaimedRowsPlaceOnce ProtectedOnce

PROPERTIES
    TrailOnlyAdvances MetConditionsFire PairsEndTogether FillsGetProtected
