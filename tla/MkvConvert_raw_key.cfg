\* A raw H.264 stream: is the first cluster always a key frame?
CONSTANTS
    Formats = {"raw"}
    Frames <- MC_Stream
    RawFrames <- MC_RawStream
    TsProcOn = TRUE
    SizeBits = 24
    MaxDst = 1000000
    MaxFrames = 3
SPECIFICATION Spec
INVARIANT RawStartsWithKeyFrame
CHECK_DEADLOCK FALSE
