CONSTANTS
    BUF_LEN <- MCBufLen
    FIFO_LEN <- MCFifoLen
    TX_LEVEL <- MCTxLevel
    MaxSamples = 4
    MaxCount = 3
    MaxOpens = 1
SPECIFICATION Spec
INVARIANTS
    DmaActiveAtDrain
CHECK_DEADLOCK FALSE
