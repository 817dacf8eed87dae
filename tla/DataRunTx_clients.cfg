\* All runs can be over.
CHECK_DEADLOCK FALSE
SPECIFICATION MCSpec
CONSTANTS
    r1 = r1
    r2 = r2
    r3 = r3
    m1 = m1
    m2 = m2
    m3 = m3
    Run = {r1, r2, r3}
    Meta = {m1, m2, m3}
    NoMeta = NoMeta
    Post <- OwnPathPost
    Session = {s1, s2, s3}
    OneClient = TRUE
    d1 = d1
    d2 = d2
    v1 = v1
    v2 = v2
    v3 = v3
    Server = {a1, a2}
    Dataset = {d1, d2}
    NoDataset = NoDataset
    Offered <- Offers
    MaxIndexings = 3
    MaxTroubles = 1
SYMMETRY SessionSymmetry
INVARIANTS
    ActiveMirrorsRun
    SearchIsSound
PROPERTIES
    RegistrySpec
