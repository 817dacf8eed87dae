\* The clock stops at Horizon, and nobody has to use the service.
CHECK_DEADLOCK FALSE
SPECIFICATION MCLeaseSpec
CONSTANTS
    Subscriber = {u1}
    Lock = {l1, l2, l3}
    NoLock = NoLock
    Prefs <- MCPrefs
    DayLen = 2
    WeekLen = 2
    StaleAfter = 2
    MaxAttempt = 2
    BackoffFrom = 1
    BackoffTime = 1
    Horizon = 3
    MaxRows = 1
    UserId = {p1, p2}
    Nobody = Nobody
    MaxCalls = 2
    MaxChanges = 1
SYMMETRY PartSymmetry
INVARIANTS
    HistoryShowsAttempt
