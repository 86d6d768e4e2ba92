CONSTANTS
    MaxStarting = 2
    MaxCuts = 2
    MaxFaults = 2
SPECIFICATION LiveSpec
INVARIANTS
    TypeOK
    UpdateNotLost
    NoUnknownDaemon
PROPERTIES
    MenuComes
CHECK_DEADLOCK FALSE
