CONSTANTS
    MaxStarting = 2
    MaxCuts = 1
    MaxFaults = 1
SPECIFICATION Spec
INVARIANTS
    KilledIsKilled
CHECK_DEADLOCK FALSE
