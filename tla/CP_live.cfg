SPECIFICATION FairSpec
CONSTANTS
    MaxCommands = 4
    Kinds = {"produce", "quiet", "dup", "shed"}
    MaxSeg = 9
    MaxDirty = 2
    Headroom = 2
    Linger = TRUE
    Faults = {"barrier", "flusher"}
    MaxFaults = 1
    DropsPages = TRUE
    MaxKills = 1
    MaxCuts = 0
INVARIANTS
    AckImpliesDurable
    VisibleIsDurable
PROPERTIES
    EveryProduceAnswered
CHECK_DEADLOCK FALSE
