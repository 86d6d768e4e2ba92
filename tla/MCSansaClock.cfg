CONSTANTS
    BYTE = 16
    DAY = 8
    HOUR = 4
    MINUTE = 2
    Starts <- MCStarts
    Readings <- MCReadings
    ApmAt <- MCApmAt
    MaxTicks = 1
SPECIFICATION Spec
INVARIANTS
    TimeRight
    BatteryRight
