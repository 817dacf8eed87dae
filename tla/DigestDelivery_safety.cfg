\* The clock stops at Horizon and the locks may be used up.
CHECK_DEADLOCK FALSE
SPECIFICATION DeliverySpec
CONSTANTS
    Subscriber = {u1}
    Worker = {w1, w2}
    Lock = {l1, l2, l3}
    NoLock = NoLock
    Prefs <- OnePref
    DayLen = 2
    WeekLen = 2
    StaleAfter = 2
    MaxAttempt = 2
    BackoffFrom = 2
    BackoffTime = 1
    Horizon = 5
    MaxRows = 1
    MaxRetries = 1
    MaxFaults = 2
SYMMETRY LockAndWorkerSymmetry
INVARIANTS
    RecordedWasSent
    
    
PROPERTIES
    LeaseSpec
