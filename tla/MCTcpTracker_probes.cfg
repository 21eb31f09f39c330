SPECIFICATION Spec
CONSTANTS
    Threads = {t1, t2}
    Sockets = {a, b}
    V6 = {b}
    Excluded <- Off
    MayFail = TRUE
    FastOpen = FALSE
    MaxEntries = 1
    RingSize = 2
    NoThread = NoThread
    NoEvent = NoEvent
    NoSock = NoSock
    Nothing = Nothing
INVARIANTS TypeOK ConnectTruthful LeftoversUnseen ClosedIsNewest
