SPECIFICATION DeliverySafe
CONSTANTS
    ConfiguredCapacity = 1
    MaxId = 2
    MaxSpawns = 2
    MaxReads = 0
    MaxInputs = 0
    Outcomes <- MCOutcomes
    Retentions <- MCRetentions
INVARIANTS
    AutoIdFresh
    StreamComplete
    RetainedLogExact
