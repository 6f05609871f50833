SPECIFICATION RingSpec
CONSTANTS
    N = 16
    Sizes <- SomeSizes
    MaxSent = 8
INVARIANT RingInv
INVARIANT RingHealthy
PROPERTY NoOverwrite
PROPERTY IsFifo
CHECK_DEADLOCK FALSE
