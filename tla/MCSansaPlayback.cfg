CONSTANTS
    BUF_LEN <- MCBufLen
    FIFO_LEN <- MCFifoLen
    TX_LEVEL <- MCTxLevel
    MaxSamples = 5
    MaxCount = 3
    MaxOpens = 2
SPECIFICATION LiveSpec
INVARIANTS
    TypeOK
    RingHolds
    CopyLeavesUnread
    SpaceIsRoom
PROPERTIES
    PipeSpec
    WriteReturns
    RingDrains
CHECK_DEADLOCK FALSE
