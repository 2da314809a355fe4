SPECIFICATION LockSpec
CONSTANTS
    c1 = c1 c2 = c2 c3 = c3
    Clients = {c1, c2, c3}
    AccountIds = {1, 2}
    Jobs <- MCJobs
    Start <- MCStart
    Strategies = {"distributed"}
    MaxRetries = 2
    Stallers = {c1}
    NoOne = NoOne

CHECK_DEADLOCK FALSE

INVARIANT NothingIsLost
