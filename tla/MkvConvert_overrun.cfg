CONSTANTS
    Formats = {"dhav"}
    Frames <- MC_Short
    RawFrames = {}
    TsProcOn = TRUE
    SizeBits = 24
    MaxDst = 1000000
    MaxFrames = 3
SPECIFICATION Spec
INVARIANT NoOverrun
CHECK_DEADLOCK FALSE
