CONSTANTS
    BSize = 3
    MaxBytes = 6
    PipeCap = 2
    HasTimeout = TRUE
SPECIFICATION Spec
INVARIANT NoFifoLoss
PROPERTY Delivered
CHECK_DEADLOCK FALSE
