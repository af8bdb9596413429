\* The firmware answers the chipset (11) and split-screen (19) infotypes
\* but not language support (20), in either dialect.
CONSTANTS
    InfoTypes <- MC_InfoTypes
    Answered <- MC_Answered
    Alarms = {1}
    Dialects = {0, 1}
    NoteArgs = {0}
    MaxNotes = 0
    MaxFrames = 1
    KeepAlive = 1
    Timeout = 2
    Firmwares <- MC_Replying
SPECIFICATION Spec
INVARIANT DevinfoFieldsOwn
CHECK_DEADLOCK FALSE
