\* The clock stops at Horizon and the locks may be used up.
CHECK_DEADLOCK FALSE
SPECIFICATION FairSpec
CONSTANTS
    Subscriber = {u1, u2}
    Worker = {w1}
    Lock = {l1, l2}
    NoLock = NoLock
    Prefs <- OnePref
    DayLen = 3
    WeekLen = 2
    StaleAfter = 2
    MaxAttempt = 1
    BackoffFrom = 1
    BackoffTime = 1
    Horizon = 2
    MaxRows = 2
    MaxRetries = 1
    MaxFaults = 1
PROPERTIES
    LeaseIsReleased
    DueIsClaimed
