SPECIFICATION FairSpec
CONSTANTS
    a1 = a1
    a2 = a2
    b1 = b1
    s1 = s1
    s2 = s2
    e1 = e1
    e2 = e2
    NoEngine = NoEngine
    NoStage = NoStage
    Accounts <- MCAccounts
    Orders <- PairOrders
    Terms <- PairTerms
    Exempt <- MCExempt
    FeeDivisor = 2
    Cash0 <- MCCash
    Shares0 <- MCShares
    Engines <- OneEngine
    OpenPrice = 1
    MaxCancels = 1
    MaxFaults = 2
    FaultKinds = {"duplicate", "retain", "crash"}
PROPERTIES
    LedgerSettles
    CancelEnds
    MarketOrderEnds
CHECK_DEADLOCK FALSE
