CONSTANTS
    InfoTypes <- MC_InfoTypes
    Answered <- MC_Answered
    Alarms = {1}
    Dialects = {0, 1}
    NoteArgs = {0}
    MaxNotes = 1
    MaxFrames = 3
    KeepAlive = 1
    Timeout = 2
    Firmwares <- MC_Firmwares
SPECIFICATION Spec
INVARIANT TypeOK
INVARIANT FramesInOrder
INVARIANT SysinfoComplete
PROPERTY SessionTerminates
\* A session ends for good (pc = "done"): the grandchild process returns.
CHECK_DEADLOCK FALSE
