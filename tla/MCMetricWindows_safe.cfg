SPECIFICATION Spec
CONSTANTS
    w1 = w1
    w2 = w2
    Ticker = Ticker
    Workers = {w1, w2}
    Sizes = {1}
    Stamps = {0, 1}
    Grace = 1
    StaleAge = 1
    Capacity = 2
    Dragonfly = FALSE
    MaxRetries = 0
    MaxBatches = 2
    MaxRestarts = 0
    MaxTime = 3
SYMMETRY WorkerSymmetry
INVARIANTS
    OnTimeOpen
    PublishedAfterGrace
