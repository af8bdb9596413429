\* The base process leaves while the FIFO holds bytes and its pipe has room.
CONSTANTS
    BSize = 3
    MaxBytes = 2
    PipeCap = 2
    HasTimeout = TRUE
SPECIFICATION Spec
PROPERTY BaseGoneEndsTunnel
CHECK_DEADLOCK FALSE
