SPECIFICATION Spec
CONSTANTS
    Accts = {a1, a2}
    Prices = {1, 2, 3}
    MaxQty = 3
    MaxOrders = 3
    Depth = 1
    OpenPrice = 1
SYMMETRY Symmetry
INVARIANTS
    PriceTimeSorted
    NeverCrossed
    MatchIsPriceTime
    RestartRebuildsBook
    SnapshotShowsBestLevels
CHECK_DEADLOCK FALSE
