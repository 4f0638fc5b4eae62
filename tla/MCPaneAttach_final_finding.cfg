SPECIFICATION Safe
CONSTANTS
    Sizes <- MCSizes
    UnsupportedSizes <- MCUnsupported
    InitialSize = "small"
    FramesPerTick = 2
    DrainPasses = 2
    QueueCapacity = 1
    ResizePolicies <- BothResizes
    OutputPolicies <- OnlyReplay
INVARIANTS
    FinalTranscriptWhole
