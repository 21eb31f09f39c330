SPECIFICATION FairObserver
CONSTANTS
    Threads = {t1}
    Sockets = {a}
    V6 <- Off
    Excluded <- Off
    MayFail = TRUE
    FastOpen = FALSE
    MaxEntries = 1
    RingSize = 2
    NoThread = NoThread
    NoEvent = NoEvent
    NoSock = NoSock
    Nothing = Nothing
    Ports <- SomePorts
    ExcludePorts <- Https
    Texts <- SomeTexts
    FlowRing = 1
    MaxEventQueue = 1
    MaxSends = 2
    Configs <- AllKinds
INVARIANTS ObserverTypeOK
PROPERTIES  CloseReported Spec
CHECK_DEADLOCK FALSE
