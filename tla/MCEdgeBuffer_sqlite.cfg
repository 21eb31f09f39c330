SPECIFICATION FairSpec
CONSTANTS
    Tasks = {t1, t2}
    Sizes = {2}
    Types = {metrics}
    MaxMemory = 1
    TTL = 0
    DrainBatch = 1
    U64 = 64
    SqlitePath = TRUE
    DeleteBacklog = TRUE
    MaxWrites = 2
    MaxLives = 2
    MaxClock = 1
    NoEntry = NoEntry
INVARIANTS TypeOK 
PROPERTIES WriteReturns
CHECK_DEADLOCK FALSE
