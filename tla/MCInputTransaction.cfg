SPECIFICATION Spec
CONSTANTS
    MaxText = 4
    ChunkSizes <- MCChunkSizes
    EnterBytes = 2
    MaxTransientRetries = 2
    Timeout = 2
CHECK_DEADLOCK FALSE
INVARIANTS
    OutcomeTruthful
    SubmitOnlyAfterEcho
PROPERTIES
    Returns
