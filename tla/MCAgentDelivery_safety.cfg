SPECIFICATION Spec
CONSTANTS
    Layers <- MetalEvents
    MaxItems = 1
    RawCap = 3
    MaxOutages = 1
    MaxCommands = 1
INVARIANTS TypeOK Accounted OneOwner 
CHECK_DEADLOCK FALSE
