\* A getter that waits for itself stops the process.
CHECK_DEADLOCK FALSE
SPECIFICATION MCFairSpec
CONSTANTS
    r1 = r1
    Run = {r1, r2}
    NoRun = NoRun
    Latest = Latest
    Request = {request}
    Reload = {reload}
    Subscriber = subscriber
    Free = Free
    MaxEvents = 1
    MaxChanges = 1
INVARIANTS
    ServedIsOneRun
    StaleOnlyIfOverlapped
PROPERTIES
    AnsweredUnlessStuck
