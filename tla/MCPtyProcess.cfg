SPECIFICATION Spec
CONSTANTS
    ConfiguredCapacity = 1
    MaxReads = 4
    ChunkSizes <- MCChunkSizes
    MaxKillFailures = 1
CHECK_DEADLOCK FALSE
INVARIANTS
    Contiguous
    StreamTruthful
    QueueCountersExact
    ExitedIsLast
PROPERTIES
    ImplementsAccountedStream
    JoinReturns
    EndDelivered
