\* No DVR timeout (-e 0) and a firmware that answers every request: the
\* session runs as long as the DVR is up.
CONSTANTS
    InfoTypes = {11}
    Answered = {11}
    Alarms = {1}
    Dialects = {0}
    NoteArgs = {0}
    MaxNotes = 0
    MaxFrames = 2
    KeepAlive = 1
    Timeout = 0
    Firmwares <- MC_Replying
SPECIFICATION Spec
PROPERTY FramesDelivered
CHECK_DEADLOCK FALSE
