CONSTANTS
    Procs = {p1, p2}
    None = None
    PcmLevels <- MCPcmLevels
    LineLevels <- MCLineLevels
    MicLevels <- MCMicLevels
    MaxOps = 3
SPECIFICATION LiveSpec
INVARIANTS
    TypeOK
    ShadowAgrees
    
    SettingsKept
PROPERTIES
    ReadGetsRegister
    LockIsGivenBack
