\* Every client can be over.
CHECK_DEADLOCK FALSE
SPECIFICATION MCSpec
CONSTANTS
    r1 = r1
    r2 = r2
    r3 = r3
    m1 = m1
    m2 = m2
    m3 = m3
    Run = {r1, r2}
    Meta = {m1, m2}
    NoMeta = NoMeta
    Post <- ClientPost
    Replica = {a1, a2}
    MetaOf <- RunPaths
    Refresh = TRUE
    MaxFaults = 1
    LastDay = 2
    Supported = TRUE
    Option <- Calls
    MaxStarts = 2
SYMMETRY PubSymmetry
INVARIANTS
    ServedWasPublished
    FailedRunIsNotActive
    StaleOnlyIfExplained
    SearchSplitOnlyIfFailed
    PublishIsSound
