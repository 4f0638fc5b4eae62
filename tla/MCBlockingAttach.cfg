SPECIFICATION Spec
CONSTANTS
    Sizes <- MCSizes
    EmbeddedSize = "embedded"
    FramesPerTick = 1
    DrainPasses = 2
    Options <- MCOptions
    Hosts <- MCHosts
    MaxRuns = 2
    MaxResizes = 1
CHECK_DEADLOCK FALSE
INVARIANTS
    HostHandedBack
    SizesHandedBack
    SurfaceSawAll
    EventsTellOutcome
    BridgeNeverPanics
PROPERTIES
    ChordReturns
