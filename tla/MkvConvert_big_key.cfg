\* A first I-frame too large for the output buffer with the header: its -4 is ignored and the header goes out with the next, smaller P-frame.
CONSTANTS
    Formats = {"dhav"}
    Frames <- MC_Stream
    RawFrames <- MC_RawStream
    TsProcOn = TRUE
    SizeBits = 24
    MaxDst = 475
    MaxFrames = 3
SPECIFICATION Spec
INVARIANT HeaderDescribesKeyFrame
CHECK_DEADLOCK FALSE
