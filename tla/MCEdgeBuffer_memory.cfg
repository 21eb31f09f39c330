SPECIFICATION Spec
CONSTANTS
    Tasks = {t1, t2, t3}
    Sizes = {1, 2}
    Types = {metrics, traces}
    MaxMemory = 2
    TTL = 0
    DrainBatch = 1
    U64 = 64
    SqlitePath = FALSE
    DeleteBacklog = FALSE
    MaxWrites = 4
    MaxLives = 1
    MaxClock = 0
    NoEntry = NoEntry
SYMMETRY TaskSymmetry
INVARIANTS UsageExact OvershootBounded
CHECK_DEADLOCK FALSE
