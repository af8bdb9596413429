CONSTANTS
    Formats = {"dhav"}
    Frames <- MC_Stream
    RawFrames = {}
    TsProcOn = TRUE
    SizeBits = 24
    MaxDst = 1000000
    MaxFrames = 4
SPECIFICATION Spec
INVARIANT NoDivByZero
CHECK_DEADLOCK FALSE
