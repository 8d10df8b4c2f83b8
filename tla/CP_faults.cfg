SPECIFICATION Spec
CONSTANTS
    MaxCommands = 5
    Kinds = {"produce", "dup", "job", "shutdown", "drop"}
    MaxSeg = 3
    MaxDirty = 2
    Headroom = 0
    Linger = FALSE
    Faults = {"barrier", "create", "header", "tail", "flusher"}
    MaxFaults = 2
    DropsPages = FALSE
    MaxKills = 0
    MaxCuts = 1
INVARIANTS
    AckImpliesDurable
    VisibleIsDurable
    MeterExact
    NoWedge
    StopLeavesNothing
    TypeOK
PROPERTIES
    DurableHeadMonotone
    FreezeIsFinal
CHECK_DEADLOCK FALSE
