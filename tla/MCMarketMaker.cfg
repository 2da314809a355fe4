SPECIFICATION MCSpec
CONSTANTS
    Ids <- MCIds
    Levels = 1
    MinAdoptable = 1
    FastTicks = 3
    Prices = {4, 6, 7}
    MaxMoves = 1
    MaxTroubles = 1
INVARIANT
    NoSelfCross
PROPERTIES
    SidesStayQuoted
    LadderReturns
