\* The intermediate process exits with whole frames still queued or in the pipe.
CONSTANTS
    FrameLen = 2
    ChunkMax = 3
    QueueMax = 7
    PipeCap = 4
    Streams <- MC_Plain
    Containers = {0}
    WriteFails = FALSE
SPECIFICATION Spec
INVARIANT TailWritten
CHECK_DEADLOCK FALSE
