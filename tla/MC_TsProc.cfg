\* Passing run: the output clock stays on the frame grid and the slow-drift
\* accumulators account for the drift, for every mix of frame kinds and DVR
\* clock steps.
CONSTANTS
    NsPerMs <- MC_NsPerMs
    Fps <- MC_Fps
    NTSC = FALSE
    NtscExact60Hz = FALSE
    TsInit = {65500}
    TsSteps <- MC_TsSteps
    EpochInit = {100}
    EpochSteps <- MC_EpochSteps
    MinSamples <- MC_MinSamples
    MaxFrames = 6
SPECIFICATION Spec
INVARIANT TypeOK
INVARIANT DriftAccounted
CHECK_DEADLOCK FALSE
