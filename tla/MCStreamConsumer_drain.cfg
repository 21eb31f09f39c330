SPECIFICATION FairSpec
CONSTANTS
    Workers = {w1, w2}
    LastRecord = 3
    FetchSize = 2
    ChanSize = 1
    MaxRetries = 1
    HasDLQ = TRUE
    PollPatience = TRUE
    WorkPatience = FALSE
    MaxCrashes = 1
    NoRecord = NoRecord
INVARIANTS TypeOK HandedOverOnce  DrainComplete 
PROPERTIES CloseReturns
CHECK_DEADLOCK FALSE
