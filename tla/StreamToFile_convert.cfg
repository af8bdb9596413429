\* A failed conversion followed by a good frame in the same read.
CONSTANTS
    FrameLen = 2
    ChunkMax = 3
    QueueMax = 7
    PipeCap = 4
    Streams <- MC_Streams
    Containers = {1}
    WriteFails = FALSE
SPECIFICATION Spec
INVARIANT ConvertFailureEnds
CHECK_DEADLOCK FALSE
