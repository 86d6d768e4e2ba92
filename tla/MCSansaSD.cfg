CONSTANTS
    NumBlocks = 4
    BLOCKS_PER_BANK = 2
    Minors <- MCMinors
    Parts <- MCParts
    RetryMax = 1
    Data = {d1, d2}
    MaxCount = 2
    MaxFaults = 2
SPECIFICATION LiveSpec
INVARIANTS
    TypeOK
    BankAgrees
    RequestServed
PROPERTIES
    WritesStayInside
    RequestAnswered
CHECK_DEADLOCK FALSE
