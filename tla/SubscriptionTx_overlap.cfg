\* The clock stops at Horizon, and nobody has to use the service.
CHECK_DEADLOCK FALSE
SPECIFICATION TxSpec
CONSTANTS
    Subscriber = {u1}
    Lock = {l1, l2}
    NoLock = NoLock
    Prefs <- TwoPrefs
    DayLen = 2
    WeekLen = 2
    StaleAfter = 2
    MaxAttempt = 2
    BackoffFrom = 1
    BackoffTime = 1
    Horizon = 3
    MaxRows = 2
    MaxOpen = 2
SYMMETRY LockSymmetry
INVARIANTS
    NoUpdateIsLost
PROPERTIES
    IsLeaseStep
