CONSTANTS
    BSize = 6
    MaxBytes = 24
SPECIFICATION Spec
INVARIANT TypeOK
PROPERTY FifoRefined
CHECK_DEADLOCK FALSE
