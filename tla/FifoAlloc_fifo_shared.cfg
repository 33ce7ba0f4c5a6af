CONSTANTS
    MaxFifoSize = 512
    MaxNumOutEps = 2
    MaxNumInEps = 3
    MaxNumTxFifos = 3
    Tables <- McTables
SPECIFICATION Spec
CHECK_DEADLOCK FALSE
INVARIANT
    EachInEpOwnFifo
