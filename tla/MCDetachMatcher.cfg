SPECIFICATION Spec
CONSTANTS
    Chord <- OverlappingChord
    Timeout = 2
    Bytes <- MCBytes
    MaxTyped = 8
CHECK_DEADLOCK FALSE
INVARIANTS
    NothingLost
    DetachExact
    PromptChordDetaches
PROPERTIES
    EverythingForwarded
