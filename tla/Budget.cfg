SPECIFICATION FairSpec
CONSTANTS
    m1 = m1
    w1 = w1
    w2 = w2
    e1 = e1
    s1 = s1
    Misses = {m1}
    Warms = {w1, w2}
    Puts = {e1}
    Stagers = {s1}
    Total = 4
    ReservePercent = 25
    WriterWeight = 1
    BlockSizes = {2, 4}
    Weights = {1, 2}
    MaxWrites = 1
    Deadlines = TRUE
INVARIANTS
    TypeOK
    Accounted
PROPERTY
    WarmNotStarved
