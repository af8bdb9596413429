------------------------------ MODULE TsProc ------------------------------
(***************************************************************************)
(* The timestamp correction engine of TaniDVR: dt_tsproc_init and          *)
(* dt_tsproc_process (src/src/mctools.c).  The engine is driven once per   *)
(* frame by the converter loop, right after dt_collect_dhav_frame_info has *)
(* annotated the shared t_mc_parms record.  The environment of this module *)
(* is therefore the DVR's clock as the collector reports it: the frame     *)
(* type, the 16-bit millisecond timestamp and the epoch of every frame.    *)
(*                                                                         *)
(* Times are integers in nanoseconds scaled by NsPerMs (1000000 in the     *)
(* code); the code's 64-bit integers never wrap for the values reached     *)
(* here, and the model keeps them as unbounded integers.                   *)
(***************************************************************************)
EXTENDS Integers

CONSTANTS
    NsPerMs,        \* nanoseconds per millisecond (1000000 in the code)
    Fps,            \* dhav_fps declared by the I-frames of the stream
    NTSC,           \* NTSC_timings as guessed by the collector
    NtscExact60Hz,  \* the ntsc_exact_60hz CLI option
    TsInit,         \* possible DVR 16-bit ms clocks at the first frame
    TsSteps,        \* steps of the DVR ms clock between two video frames
    EpochInit,      \* possible DVR epochs at the first frame
    EpochSteps,     \* steps of the DVR epoch between two video frames
    MinSamples,     \* SLOW_DRIFT_EVAL_MIN_SAMPLES (1000 in the code)
    MaxFrames       \* bound on the number of frames the DVR sends

ASSUME Fps \in 1..255 /\ NsPerMs \in Nat \ {0} /\ MinSamples \in Nat \ {0}

\* The #defines of mctools.c 893-906.
TIMESTAMP_JITTER_DAMPING_LIMIT == 4
EPOCH_MAX_FORWARD_JUMP == 30
MAX_EPOCH_PEDANTRY_TOWARDS_TIMESTAMP == 5

\* The DVR's relative timestamp is a uint16_t in milliseconds.
TsMod == 65536

\* Frame kinds the DVR sends: DHAV types 0xfd (I), 0xfc (P), 0xf0 (audio).
FrameKinds == {"I", "P", "A"}

VARIABLES
    \* t_mc_parms, as left by dt_collect_dhav_frame_info for this frame
    frame_type,        \* "I", "P", "A" or "UNDEF"
    has_v_parms,       \* an I-frame has been collected
    mcp_dhav_epoch,    \* mcp->dhav_epoch
    mcp_v_dhav_ts,     \* mcp->v_dhav_ts
    \* t_mc_tsproc
    v_first_frame,     \* no applicable frame seen yet
    v_dhav_timestamp,  \* clock accumulated from the DVR's periods (ns)
    v_timestamp,       \* corrected output clock (ns)
    sdc,               \* slow-drift accumulators sdc_t_dhav/ref/eff/frames
    v_dhav_ts,         \* tsc->v_dhav_ts: DVR ms timestamp of the last frame
    dhav_epoch,        \* tsc->dhav_epoch: DVR epoch of the last frame
    \* the DVR
    dvr_ts,            \* its 16-bit ms clock, stamped into every video frame
    dvr_epoch,         \* its epoch, stamped into every video frame
    \* bookkeeping of the model
    frames,            \* frames sent by the DVR so far
    gap0               \* history: v_dhav_timestamp - v_timestamp at the last reset

vars == <<frame_type, has_v_parms, mcp_dhav_epoch, mcp_v_dhav_ts,
          v_first_frame, v_dhav_timestamp, v_timestamp, sdc, v_dhav_ts,
          dhav_epoch, dvr_ts, dvr_epoch, frames, gap0>>

ZeroSdc == [t_dhav |-> 0, t_ref |-> 0, t_eff |-> 0, t_frames |-> 0]

AbsVal(x) == IF x >= 0 THEN x ELSE -x

\* C99 division of int64_t values truncates toward zero.
CDiv(a, b) == IF (a >= 0) = (b >= 0) THEN AbsVal(a) \div AbsVal(b)
                                     ELSE -(AbsVal(a) \div AbsVal(b))

-----------------------------------------------------------------------------
(* The collector's part of a frame (mctools.c 596-743): it classifies the  *)
(* frame and copies the DVR timestamp and epoch of video frames.  A P-frame *)
(* before the first I-frame leaves frame_type FT_UNDEFINED.               *)

CollectFrame(kind, ts, ep) ==
    /\ frame_type' = CASE kind = "I" -> "I"
                       [] kind = "P" /\ has_v_parms -> "P"
                       [] kind = "P" -> "UNDEF"
                       [] kind = "A" -> "A"
    /\ has_v_parms' = (has_v_parms \/ kind = "I")
    /\ IF frame_type' \in {"I", "P"}
          THEN /\ mcp_v_dhav_ts' = ts
               /\ mcp_dhav_epoch' = ep
          ELSE UNCHANGED <<mcp_v_dhav_ts, mcp_dhav_epoch>>

-----------------------------------------------------------------------------
(* dt_tsproc_process, split along its decision cascade.  Each branch yields *)
(* the period applied to the output clock, the DVR period applied to the   *)
(* raw clock, the base of the raw clock, whether the accumulators are      *)
(* reset, and the accumulators as the branch leaves them.                  *)

RefPeriod ==
    ((IF NTSC /\ ~NtscExact60Hz THEN 1001 ELSE 1000) * NsPerMs) \div Fps

\* Faulty variant: the subtraction done in int instead of uint16_t.
DhavPeriodNoWrap(prev, cur) == (cur - prev) * NsPerMs

\* (uint16_t) cur - (uint16_t) prev, widened to ns.
DhavPeriod(prev, cur) == ((cur - prev) % TsMod) * NsPerMs

Branch(period, dper, base, reset, s) ==
    [period |-> period, dhav_period |-> dper, dhav_base |-> base,
     reset |-> reset, sdc |-> s]

\* Epoch went backwards, or forward too far: resync the raw clock.
EpochResync(ref) == Branch(ref, ref, v_timestamp, TRUE, sdc)

\* Epoch jumped forward by more than EPOCH_MAX_FORWARD_JUMP seconds.
EpochJump(ref, ediff) ==
    IF ediff > MAX_EPOCH_PEDANTRY_TOWARDS_TIMESTAMP
       THEN EpochResync(ref)
       ELSE LET j == (ediff * 1000 * NsPerMs) \div ref
            IN  Branch((j + 1) * ref, (j + 1) * ref, v_timestamp, TRUE, sdc)

\* Single-step drift beyond the jitter limit: whole periods of correction.
DriftCorrection(ref, dp, drift) ==
    LET j == CDiv(drift, ref)
    IN  Branch(ref + j * ref, dp, v_dhav_timestamp, TRUE, sdc)

\* Faulty variant: the tie-break without the sdc_t_eff adjustment.
SlowDriftNoEffAdjust(ref, dp) ==
    LET s   == [t_dhav |-> sdc.t_dhav + dp, t_ref |-> sdc.t_ref + ref,
                t_eff |-> sdc.t_eff + ref, t_frames |-> sdc.t_frames + 1]
        tot == s.t_dhav - s.t_eff
        j   == CDiv(tot, ref)
    IN  IF AbsVal(tot) > 2 * ref /\ s.t_frames >= MinSamples
           THEN IF AbsVal(j) > 2
                   THEN Branch(ref + j * ref, dp, v_dhav_timestamp, TRUE, s)
                   ELSE Branch(2 * ref, dp, v_dhav_timestamp, FALSE, s)
           ELSE Branch(ref, dp, v_dhav_timestamp, FALSE, s)

\* Steady state: update the statistics and correct a slow drift.
SlowDrift(ref, dp) ==
    LET s   == [t_dhav |-> sdc.t_dhav + dp, t_ref |-> sdc.t_ref + ref,
                t_eff |-> sdc.t_eff + ref, t_frames |-> sdc.t_frames + 1]
        tot == s.t_dhav - s.t_eff
        j   == CDiv(tot, ref)
    IN  IF AbsVal(tot) > 2 * ref /\ s.t_frames >= MinSamples
           THEN IF AbsVal(j) > 2
                   THEN Branch(ref + j * ref, dp, v_dhav_timestamp, TRUE, s)
                   ELSE Branch(2 * ref, dp, v_dhav_timestamp, FALSE,
                               [s EXCEPT !.t_eff = @ + ref])
           ELSE Branch(ref, dp, v_dhav_timestamp, FALSE, s)

\* The cascade, first match wins.
Correction(ref, dp, ediff, drift) ==
    CASE ediff < 0 -> EpochResync(ref)
      [] ediff > EPOCH_MAX_FORWARD_JUMP -> EpochJump(ref, ediff)
      [] AbsVal(drift) > TIMESTAMP_JITTER_DAMPING_LIMIT * ref ->
             DriftCorrection(ref, dp, drift)
      [] OTHER -> SlowDrift(ref, dp)

\* last_actions: reset the statistics, advance both clocks.
LastActions(b) ==
    /\ sdc' = IF b.reset THEN ZeroSdc ELSE b.sdc
    /\ v_timestamp' = v_timestamp + b.period
    /\ v_dhav_timestamp' = b.dhav_base + b.dhav_period
    /\ gap0' = IF b.reset THEN v_dhav_timestamp' - v_timestamp' ELSE gap0

\* Frames the engine does not process: return 2 or return 1.
NotApplicable ==
    /\ \/ frame_type' \notin {"I", "P"}
       \/ ~has_v_parms'
    /\ UNCHANGED <<v_first_frame, v_dhav_timestamp, v_timestamp, sdc,
                   v_dhav_ts, dhav_epoch, gap0>>

\* First applicable frame: seed everything.
Seed ==
    /\ frame_type' \in {"I", "P"} /\ has_v_parms' /\ v_first_frame
    /\ v_first_frame' = FALSE
    /\ v_dhav_timestamp' = 0
    /\ v_timestamp' = 0
    /\ sdc' = ZeroSdc
    /\ dhav_epoch' = mcp_dhav_epoch'
    /\ v_dhav_ts' = mcp_v_dhav_ts'
    /\ gap0' = 0

\* Every later applicable frame.
Track ==
    /\ frame_type' \in {"I", "P"} /\ has_v_parms' /\ ~v_first_frame
    /\ dhav_epoch' = mcp_dhav_epoch'
    /\ v_dhav_ts' = mcp_v_dhav_ts'
    /\ LET ref   == RefPeriod
           dp    == DhavPeriod(v_dhav_ts, mcp_v_dhav_ts')
           ediff == mcp_dhav_epoch' - dhav_epoch
           drift == (v_dhav_timestamp + dp) - (v_timestamp + ref)
       IN  LastActions(Correction(ref, dp, ediff, drift))
    /\ UNCHANGED v_first_frame

-----------------------------------------------------------------------------

Init ==
    /\ frame_type = "UNDEF"
    /\ has_v_parms = FALSE
    \* mc_init: dhav_epoch is zeroed, v_dhav_ts is left uninitialised and
    \* is written by the collector before the engine reads it.
    /\ mcp_dhav_epoch = 0
    /\ mcp_v_dhav_ts = 0
    /\ dvr_ts \in TsInit
    /\ dvr_epoch \in EpochInit
    /\ v_first_frame = TRUE
    \* dt_tsproc_init leaves these uninitialised; Seed writes them
    \* before anything reads them.
    /\ v_dhav_timestamp = 0
    /\ v_timestamp = 0
    /\ sdc = ZeroSdc
    /\ v_dhav_ts = 0
    /\ dhav_epoch = 0
    /\ frames = 0
    /\ gap0 = 0

\* The DVR sends one more frame; the collector and then the engine process
\* it.  The DVR clock advances between video frames.
Frame ==
    /\ frames < MaxFrames
    /\ frames' = frames + 1
    /\ \E kind \in FrameKinds, dts \in TsSteps, dep \in EpochSteps :
          /\ IF kind = "A" THEN UNCHANGED <<dvr_ts, dvr_epoch>>
                           ELSE /\ dvr_ts' = (dvr_ts + dts) % TsMod
                                /\ dvr_epoch' = dvr_epoch + dep
          /\ CollectFrame(kind, dvr_ts', dvr_epoch')
          /\ \/ NotApplicable
             \/ Seed
             \/ Track

Next == Frame

Spec == Init /\ [][Next]_vars

-----------------------------------------------------------------------------
(* Properties *)

TypeOK ==
    /\ frame_type \in {"I", "P", "A", "UNDEF"}
    /\ has_v_parms \in BOOLEAN
    /\ v_first_frame \in BOOLEAN
    \* both clocks are uint64_t: they must never go below zero
    /\ v_timestamp \in Nat
    /\ v_dhav_timestamp \in Nat
    /\ sdc.t_frames \in Nat
    /\ mcp_v_dhav_ts \in 0..(TsMod - 1)

\* The slow-drift accumulators measure exactly the drift accumulated since
\* the last reset: sdc_t_dhav - sdc_t_eff equals the change of the distance
\* between the raw clock and the output clock since then.  This is what the
\* tie-break at mctools.c 1110 adjusts sdc_t_eff for.
DriftAccounted ==
    ~v_first_frame =>
        (v_dhav_timestamp - v_timestamp) - (sdc.t_dhav - sdc.t_eff) = gap0

\* Spec section 8: the corrected timestamp never decreases from one video
\* frame to the next.
TimestampMonotonic == [][v_timestamp' >= v_timestamp]_vars

\* "here, j == 2 always" (mctools.c 1104): the slow-drift tie-break only runs
\* when the DVR clock is ahead, so the extra period it adds goes the same
\* way as the drift.
TieBreakFollowsDrift ==
    [][ (~v_first_frame /\ sdc'.t_eff - sdc.t_eff = 2 * RefPeriod
         /\ sdc'.t_frames = sdc.t_frames + 1)
        => sdc'.t_dhav - sdc'.t_eff >= 0 ]_vars
=============================================================================
