CONSTANTS
    Formats <- MC_BothFormats
    Frames <- MC_Stream
    RawFrames <- MC_RawStream
    TsProcOn = TRUE
    SizeBits = 24
    MaxDst = 479
    MaxFrames = 5
SPECIFICATION Spec
INVARIANT TypeOK
INVARIANT HeaderFirstOnce
INVARIANT ClusterIsItsFrame
INVARIANT RawClockAdvances
CHECK_DEADLOCK FALSE
