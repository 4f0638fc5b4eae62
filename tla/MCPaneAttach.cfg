SPECIFICATION Spec
CONSTANTS
    Sizes <- MCSizes
    UnsupportedSizes <- MCUnsupported
    InitialSize = "small"
    FramesPerTick = 1
    DrainPasses = 2
    QueueCapacity = 1
    ResizePolicies <- BothResizes
    OutputPolicies <- BothOutputs
INVARIANTS
    HandedBack
    SizesAgree
    OutputKeptOnDetach
PROPERTIES
    DetachUnderFlood
