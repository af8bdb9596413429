\* SIGTERM while the DVR is silent: the base process blocks in read().
CONSTANTS
    FrameLen = 2
    ChunkMax = 3
    QueueMax = 7
    PipeCap = 4
    Streams <- MC_Plain
    Containers = {0}
    WriteFails = FALSE
SPECIFICATION Spec
PROPERTY TermHonoured
CHECK_DEADLOCK FALSE
