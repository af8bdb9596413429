\* Violation run: the comment "here, j == 2 always" (mctools.c 1104) is
\* wrong when the DVR clock is behind: j = -2 reaches the tie-break, which
\* then adds a period and makes the drift worse.
CONSTANTS
    NsPerMs <- MC_NsPerMs
    Fps <- MC_Fps
    NTSC = FALSE
    NtscExact60Hz = FALSE
    TsInit = {65500}
    TsSteps <- MC_FastTsSteps
    EpochInit = {100}
    EpochSteps <- MC_SteadyEpoch
    MinSamples <- MC_MinSamples
    MaxFrames = 12
SPECIFICATION Spec
PROPERTY TieBreakFollowsDrift
CHECK_DEADLOCK FALSE
