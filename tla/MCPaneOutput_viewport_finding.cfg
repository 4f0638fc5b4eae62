SPECIFICATION Safe
CONSTANTS
    ModeTailLimit = 5
    MaxPendingPrefix = 3
    DefaultScrollback = 100
    Configs <- FindingConfigs
    Units <- ViewportUnits
    Sizes <- MCSizes
    InitialSize = 2
    ScrollbackCapacity = 2
    WheelRows = 1
    MaxFrames = 4
    MaxResizes = 0
INVARIANT
    ViewStays
