CONSTANTS
    BUF_LEN <- MCBufLen
    FIFO_LEN <- MCFifoLen
    RX_LEVEL <- MCRxLevel
    NumIds <- MCNumIds
    MaxCount = 2
SPECIFICATION Spec
INVARIANTS
    OverrunIsReal
