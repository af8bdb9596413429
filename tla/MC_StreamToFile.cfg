CONSTANTS
    FrameLen = 2
    ChunkMax = 3
    QueueMax = 7
    PipeCap = 4
    Streams <- MC_Streams
    Containers = {0, 1}
    WriteFails = TRUE
SPECIFICATION Spec
INVARIANT TypeOK
INVARIANT StopsPromptly
PROPERTY ChildExitEndsLoop
CHECK_DEADLOCK FALSE
