CONSTANTS
    BSize = 3
    MaxBytes = 6
    PipeCap = 2
    HasTimeout = FALSE
SPECIFICATION Spec
CHECK_DEADLOCK FALSE
PROPERTY RestartOnlyDeadChild
