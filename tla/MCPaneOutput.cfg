SPECIFICATION Safe
CONSTANTS
    ModeTailLimit = 5
    MaxPendingPrefix = 3
    DefaultScrollback = 100
    Configs <- MCConfigs
    Units <- MCUnits
    Sizes <- MCSizes
    InitialSize = 2
    ScrollbackCapacity = 2
    WheelRows = 1
    MaxFrames = 3
    MaxResizes = 1
INVARIANTS
    OffsetsExact
    LimitsHold
    PlainTextExact
    ModesExact
    ScrollbackReported
    ReplayMatches
    SeenAtTail
