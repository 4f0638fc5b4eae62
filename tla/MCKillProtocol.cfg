SPECIFICATION Spec
CONSTANTS
    MaxForks = 3
    Grace = 2
CHECK_DEADLOCK FALSE
INVARIANTS
    KillReachesAll
PROPERTIES
    KillReturns
