CONSTANTS
    ScanLen = 3
    TrailerLen = 2
    QueueMax = 12
    MaxDst = 12
    ChunkMax = 3
    FileChunk = 2
    Programs = {"tanidvr"}
    Streams <- MC_Large
SPECIFICATION Spec
INVARIANT NoFatal
CHECK_DEADLOCK FALSE
