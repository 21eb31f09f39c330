SPECIFICATION Spec
CONSTANTS
    Threads = {t1, t2, t3}
    Sockets <- MCSockets
    Port <- MCPort
    Slots = {s1, s2}
    MaxActive = 2
    RingSize = 2
    Rets <- MCRets
    MaxReads = 2
    NoThread = NoThread
    NoSock = NoSock
    NoSlot = NoSlot
INVARIANTS TypeOK OneEventPerEntry LeftoversMissed EventsPlausible
CHECK_DEADLOCK FALSE
SYMMETRY Symmetric
