\* Violation run: spec section 8 says the corrected timestamp never
\* decreases.  A DVR clock that steadily runs 10 ms per frame behind the
\* declared 25 fps makes the single-step drift correction apply a negative
\* period.  The code's own SLOW_DRIFT_EVAL_MIN_SAMPLES is used.
CONSTANTS
    NsPerMs <- MC_NsPerMs
    Fps <- MC_Fps
    NTSC = FALSE
    NtscExact60Hz = FALSE
    TsInit = {65500}
    TsSteps <- MC_FastTsSteps
    EpochInit = {100}
    EpochSteps <- MC_SteadyEpoch
    MinSamples <- MC_CodeMinSamples
    MaxFrames = 20
SPECIFICATION Spec
PROPERTY TimestampMonotonic
CHECK_DEADLOCK FALSE
