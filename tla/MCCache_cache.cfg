SPECIFICATION FairSpec

CONSTANTS
    Clients = {c1, c2}
    Keys = {k1, k2}
    c1 = c1
    c2 = c2
    k1 = k1
    k2 = k2
    LruCapacity = 1
    BatchSize = 2
    ClosedAtExit = TRUE
    MayDie = TRUE
    MaxSets = 3
    MaxLives = 2

INVARIANTS
    WriteBehindInvariant
    BarrierPersists
    ReadsLastSet

PROPERTIES
    RowsMoveForward
    BarriersEndIfAlive

CHECK_DEADLOCK FALSE
