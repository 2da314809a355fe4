SPECIFICATION MCSpec
CONSTANTS
    a1 = a1 a2 = a2 a3 = a3
    b1 = b1 b2 = b2 s1 = s1 s2 = s2
    copy1 = copy1 copy2 = copy2
    old = old new1 = new1 new2 = new2 newer1 = newer1 newer2 = newer2
    NoOrder = NoOrder
    FeeDivisor = 2
    Accounts <- MCAccounts
    Orders <- MCOrders
    Exempt <- MCExempt
    Owner <- MCOwner
    Side <- MCSide
    Qty <- MCQty
    Limit <- MCLimit
    Cash0 <- MCCash
    Shares0 <- MCShares
    Keys = {"k"}
    Requests <- MCRequests
    Ask <- MCAsk
    FaultKinds = {"crash", "redis", "database"}
    MaxFaults = 2
INVARIANTS
    Solvent
    EscrowCoversRemaining
    KeyPlacesOnce
    AmendedWithinOrder
    FilteredCancelsAreWritten
CHECK_DEADLOCK FALSE
