SPECIFICATION AcceptingSpec
CONSTANTS
    Layers <- NetOnly
    MaxItems = 1
    RawCap = 4
    MaxOutages = 1
    MaxCommands = 1
PROPERTIES ShutdownEnds LoopsStop BufferFlushed
