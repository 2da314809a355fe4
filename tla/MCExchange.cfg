SPECIFICATION Spec
CONSTANTS
    a1 = a1
    a2 = a2
    b1 = b1
    s1 = s1
    s2 = s2
    e1 = e1
    e2 = e2
    NoEngine = NoEngine
    NoStage = NoStage
    Accounts <- MCAccounts
    Orders <- MCOrders
    Terms <- MCTerms
    Exempt <- MCExempt
    FeeDivisor = 2
    Cash0 <- MCCash
    Shares0 <- MCShares
    Engines <- TwoEngines
    OpenPrice = 1
    MaxCancels = 1
    MaxFaults = 2
    FaultKinds = {"late_commit", "duplicate", "retain", "crash", "ambiguous", "zombie"}
INVARIANTS
    HoldMatchesActiveOrders
    CloseIsLastWord
    RecordedTradesSettle
    BookAgreesWithLedger
PROPERTY
    ImplementsLedger
SYMMETRY EngineSymmetry
ACTION_CONSTRAINT TwoFaultsWithTwoOrders
CHECK_DEADLOCK FALSE
