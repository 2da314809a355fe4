SPECIFICATION MCSpec
CONSTANTS
    a1 = a1
    a2 = a2
    b1 = b1
    b2 = b2
    s1 = s1
    w1 = w1
    w2 = w2
    MaxRows = 3
    MaxBusRows = 2
    MaxRepeats = 1
    Workers = {w1, w2}
    FeeDivisor = 2
    Accounts <- MCAccounts
    Orders <- MCOrders
    Terms <- MCTerms
    Exempt = {}
    Cash0 <- MCCash
    Shares0 <- MCShares
INVARIANTS
    RecoveryMatchesSettlement
    TrimmedIsSettled
    DebtOnlyOfOldOrders
PROPERTY
    ImplementsMarket
CHECK_DEADLOCK FALSE
