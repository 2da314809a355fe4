SPECIFICATION Spec
CONSTANTS
    a1 = a1
    a2 = a2
    b1 = b1
    s1 = s1
    s2 = s2
    e1 = e1
    e2 = e2
    NoEngine = NoEngine
    NoStage = NoStage
    Accounts <- MCAccounts
    Orders <- MCOrders
    Terms <- MCTerms
    Exempt <- MCExempt
    FeeDivisor = 2
    Cash0 <- MCCash
    Shares0 <- MCShares
    Engines <- OneEngine
    OpenPrice = 1
    MaxCancels = 0
    MaxFaults = 1
    FaultKinds = {"ambiguous"}
INVARIANT
    NoRecordedOverfill
CHECK_DEADLOCK FALSE
