SPECIFICATION Spec
CONSTANTS
    ConfiguredCapacity = 1
    MaxId = 1
    MaxSpawns = 1
    MaxReads = 3
    MaxInputs = 1
    Outcomes <- RichOutcomes
INVARIANTS
    ExitReportedOnce
    LogExplainsState
    OutputAccounted
PROPERTIES
    ExitNoticed
