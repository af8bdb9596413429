CONSTANTS
    ScanLen = 3
    TrailerLen = 2
    QueueMax = 12
    MaxDst = 12
    ChunkMax = 3
    FileChunk = 2
    Programs = {"tanidvr", "dhav2mkv"}
    Streams <- MC_Mixed
SPECIFICATION Spec
INVARIANT TypeOK
INVARIANT FramesInOrder
INVARIANT FileConverted
INVARIANT PipeEndDrained
PROPERTY DrainTerminates
CHECK_DEADLOCK FALSE
