----------------------------- MODULE MC_TsProc -----------------------------
(* Model-checking instance of TsProc.  Times are in microseconds           *)
(* (NsPerMs = 1000), which keeps the values inside TLC's integers while    *)
(* keeping the reference period within 0.01% of the code's.  PAL 25 fps    *)
(* gives a 40 ms reference period.  SLOW_DRIFT_EVAL_MIN_SAMPLES is scaled  *)
(* from 1000 to 2 so that slow-drift correction happens within a few       *)
(* frames; the branch compares counts, so only its reachability changes.  *)
EXTENDS TsProc

MC_NsPerMs == 1000
MC_Fps == 25
MC_MinSamples == 2

\* DVR steps in ms: on time (40), half a period (20), 30 ms late (70), and
\* a gap of about six frames dropped by the DVR (250).
MC_TsSteps == {20, 40, 70, 250}
\* Epoch steps in s: steady, one second, backwards, a long jump.
MC_EpochSteps == {0, -1, 31}

\* A DVR whose ms clock advances a steady 30 ms per frame while the stream
\* declares 25 fps: no jitter, no repeated or wrapped timestamps.
MC_FastTsSteps == {30}
MC_SteadyEpoch == {0}
\* The code's own SLOW_DRIFT_EVAL_MIN_SAMPLES.
MC_CodeMinSamples == 1000
=============================================================================
