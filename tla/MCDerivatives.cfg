SPECIFICATION MCSpec
CONSTANTS
    rich = rich poor = poor bot = bot
    Users = {rich, poor}
    Bots = {bot}
    Balances <- MCBalances
    FutureUnit = 1
    OptionUnit = 1
    BpsBase = 10
    InitialBps = 3
    MaintenanceBps = 2
    WriterBps = 2
    Strike = 8
    EmergencyBps = 9
    Leverages = {0, 5}
    Marks = {5, 8, 10}
    Premiums = {1, 2}
    Price0 = 10
    Instances = {1, 2}
    MaxCalls = 2
    MaxQty = 2
    MaxOrders = 6
    MaxRuns = 2

CHECK_DEADLOCK FALSE

INVARIANTS
    DerivTypeOK HoldsAreBacked MoneyIsConserved MarginIsExact ClosesAreHeld LiquidationsFit

PROPERTY NewPositionsSurvive
