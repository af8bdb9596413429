----------------------------- MODULE MkvConvert ------------------------------
(***************************************************************************)
(* The per-frame MKV path of the converter loop, stream_media_dvr_to_file  *)
(* (dvrcontrol.c): for every frame the DHAV demultiplexer hands on,        *)
(* dt_collect_dhav_frame_info classifies it and records its geometry, fps  *)
(* and body span in mc_parms; dt_tsproc_process (when timestamp correction *)
(* is on) derives the reference period from the fps; dt_convert_frame_to_mkv *)
(* emits the MKV header (while main_mkv_header_pending) and one cluster.   *)
(*                                                                         *)
(* A frame is a record of the header fields the collector reads: type     *)
(* (byte 4), len (the span the demultiplexer accepted), ext (byte 22) and  *)
(* fps (subfield 0x81, byte 3).  The EBML bytes are formatting; what is    *)
(* kept of the output is its sequence of header and cluster records.       *)
(* Sizes are size_t and wrap modulo 2^SizeBits.  The DHAV timestamps are   *)
(* modelled in TsProc and are left out here.                               *)
(*                                                                         *)
(* A raw H.264 stream (identified by "Dahua_ZH") goes through              *)
(* dt_collect_raw_h264_frame_info instead, and through no timestamp        *)
(* correction: its clock is the collector's v_timestamp, counted here in   *)
(* frame periods of 60 ms.  A raw unit is a record of what that collector  *)
(* reads: type (byte 3), len (the span), sel (bits 7-6 of byte 4) and h    *)
(* (the height byte of a 0xfb configuration record).                       *)
(***************************************************************************)
EXTENDS Integers, Sequences

CONSTANTS
    Formats,     \* the formats mc_format_in may be: "dhav", "raw"
    Frames,      \* the DHAV frames the demultiplexer may hand on
    RawFrames,   \* the raw H.264 units it may hand on
    TsProcOn,    \* dvrctl->tsproc != TSPROC_NONE
    SizeBits,    \* width of size_t
    MaxDst,      \* STREAM_BUFFER_LEN, the size of sbuf_2
    MaxFrames    \* bound on the frames of one behaviour

\* Header and trailer sizes of mctools.c.
BASE_DHAV_HDR_LEN == 24
DhavTrailerLen == 8
WHOLE_MAIN_HEADER_LOAD == 416 + 4
WHOLE_CLUSTER_HEADER_LOAD == 22
WHOLE_SIMPLEBLOCK_HEADER_LOAD == 13
SizeMod == 2 ^ SizeBits

VARIABLES
    fmt,                       \* mc_format_in
    frame_type, has_v_parms, dhav_fps, body_len,   \* mc_parms
    v_timestamp, v_first_frame,                    \* mc_parms, raw clock
    tsc_first,                 \* tsc->v_first_frame
    main_mkv_header_pending,
    dtconv_ret,                \* the last result of dt_convert_frame_to_mkv
    in_chunk,                  \* inside the do-while over one read
    stopped,                   \* the loop has broken out
    fault,                     \* "none", or the signal the process died of
    out,                       \* header and cluster records written
    n                          \* frames handed on so far

vars == <<fmt, frame_type, has_v_parms, dhav_fps, body_len, v_timestamp, v_first_frame, tsc_first,
          main_mkv_header_pending, dtconv_ret, in_chunk, stopped, fault, out, n>>

BodyLenSigned(f) == f.len - (f.ext + BASE_DHAV_HDR_LEN) - DhavTrailerLen

\* body_len = src_len - body_offset - dhav_len, in size_t.
BodyLen(f) == (f.len - (f.ext + BASE_DHAV_HDR_LEN) - DhavTrailerLen) % SizeMod

(***************************************************************************)
(* dt_collect_dhav_frame_info: the mc_parms it leaves after frame f, given *)
(* the mc_parms p before.  frame_type is reset first; a P-frame before the *)
(* first I-frame, an I-frame with 0 fps, audio and unknown types return    *)
(* before body_p/body_len are set.  The 0-fps I-frame has already stored   *)
(* width, height and fps; its -1 is not looked at by the caller.           *)
(***************************************************************************)
CollectNoReset(p, f) ==
    CASE f.type = "fc" /\ ~p.has_v_parms -> p
      [] f.type = "fc" -> [p EXCEPT !.frame_type = "video", !.body_len = BodyLen(f)]
      [] f.type = "fd" /\ f.fps = 0 -> [p EXCEPT !.dhav_fps = 0]
      [] f.type = "fd" -> [p EXCEPT !.frame_type = "iframe", !.has_v_parms = TRUE,
                                    !.dhav_fps = f.fps, !.body_len = BodyLen(f)]
      [] f.type = "f0" -> [p EXCEPT !.frame_type = "audio"]
      [] OTHER -> p

Collect(p, f) ==
    LET q == [p EXCEPT !.frame_type = "undef"]
    IN  CASE f.type = "fc" /\ ~q.has_v_parms -> q
          [] f.type = "fc" -> [q EXCEPT !.frame_type = "video", !.body_len = BodyLen(f)]
          [] f.type = "fd" /\ f.fps = 0 -> [q EXCEPT !.dhav_fps = 0]
          [] f.type = "fd" -> [q EXCEPT !.frame_type = "iframe", !.has_v_parms = TRUE,
                                        !.dhav_fps = f.fps, !.body_len = BodyLen(f)]
          [] f.type = "f0" -> [q EXCEPT !.frame_type = "audio"]
          [] OTHER -> q

(***************************************************************************)
(* dt_collect_raw_h264_frame_info: frame_type is reset, the body is the    *)
(* whole span (NAL prefix included).  0xb6 is video, an I-frame when bits  *)
(* 7-6 of byte 4 are 0; 0xf0 is audio and returns; 0xfb records geometry,  *)
(* fps 20 and has_v_parms; other types return.  The aspect and NTSC        *)
(* guesses only shape the header bytes and are left out.  Then, because    *)
(* the test is written "if (NAL_type = 0xb6)", every frame that got this   *)
(* far steps the clock: the first one sets it to 0, every later one adds a *)
(* period.                                                                 *)
(***************************************************************************)
\* Faulty variant: v_first_frame never cleared.
ClockStepNoClear(q) ==
    IF q.v_first_frame THEN [q EXCEPT !.v_timestamp = 0]
                       ELSE [q EXCEPT !.v_timestamp = @ + 1]

ClockStep(q) ==
    IF q.v_first_frame THEN [q EXCEPT !.v_timestamp = 0, !.v_first_frame = FALSE]
                       ELSE [q EXCEPT !.v_timestamp = @ + 1]

CollectRaw(p, f) ==
    LET q == [p EXCEPT !.frame_type = "undef", !.body_len = f.len % SizeMod]
    IN  CASE f.type = "b6" ->
               ClockStep([q EXCEPT !.frame_type = IF f.sel = 0 THEN "iframe"
                                                               ELSE "video"])
          [] f.type = "f0" -> [q EXCEPT !.frame_type = "audio"]
          [] f.type = "fb" ->
               ClockStep([q EXCEPT !.dhav_fps = 20, !.has_v_parms = TRUE])
          [] OTHER -> q

\* (v_width * 1000) / v_height for a 0xfb record whose height byte is 0.
RawDivByZero(f) == f.type = "fb" /\ f.h = 0

\* The collector the converter loop calls for the stream's format.
CollectFor(p, f) == IF fmt = "raw" THEN CollectRaw(p, f) ELSE Collect(p, f)

\* The guards shared by dt_tsproc_process and dt_convert_frame_to_mkv: a
\* classified video frame, after the first valid I-frame.
Applicable(p) == p.frame_type \in {"video", "iframe"} /\ p.has_v_parms

\* dt_convert_frame_to_mkv's whole_payload, in size_t.
WholePayload(p, first) ==
    (WHOLE_CLUSTER_HEADER_LOAD + WHOLE_SIMPLEBLOCK_HEADER_LOAD + p.body_len
       + (IF first THEN WHOLE_MAIN_HEADER_LOAD ELSE 0)) % SizeMod

\* The bytes it really writes into dst: header, cluster header, memcpy.
Written(p, first) ==
    (IF first THEN WHOLE_MAIN_HEADER_LOAD ELSE 0)
      + WHOLE_CLUSTER_HEADER_LOAD + WHOLE_SIMPLEBLOCK_HEADER_LOAD + p.body_len

\* Its result: 2 for a frame that is not video, 1 before the parameters are
\* known, -4 when whole_payload exceeds max_dst_len, else 0.
ConvertRet(p, first) ==
    CASE p.frame_type \notin {"video", "iframe"} -> 2
      [] ~p.has_v_parms -> 1
      [] WholePayload(p, first) > MaxDst -> -4
      [] OTHER -> 0

Header(p) == [kind |-> "header", fps |-> p.dhav_fps]
\* A cluster carries the frame's v_timestamp (the raw clock; for DHAV the
\* corrected one, which TsProc models and which stays 0 here).
Cluster(p, f) == [kind |-> "cluster", key |-> p.frame_type = "iframe",
                  body |-> p.body_len, ts |-> p.v_timestamp, of |-> f]

Init ==
    /\ fmt \in Formats                 \* identified before the loop
    /\ frame_type = "undef"           \* mc_init
    /\ has_v_parms = FALSE
    /\ dhav_fps = 0                    \* not initialised; read only once has_v_parms
    /\ body_len = 0                    \* not initialised; read only once classified video
    /\ v_timestamp = 0
    /\ v_first_frame = TRUE
    /\ tsc_first = TRUE                \* dt_tsproc_init
    /\ main_mkv_header_pending = TRUE
    /\ dtconv_ret = 0
    /\ in_chunk = FALSE
    /\ stopped = FALSE
    /\ fault = "none"
    /\ out = <<>>
    /\ n = 0

Live == ~stopped /\ fault = "none"

\* A read returned data: dstf_ret, dtconv_ret and outfwrite_ret are zeroed
\* and the do-while over the demultiplexer's frames begins.
ReadChunk ==
    /\ Live /\ ~in_chunk
    /\ in_chunk' = TRUE
    /\ dtconv_ret' = 0
    /\ UNCHANGED <<fmt, frame_type, has_v_parms, dhav_fps, body_len, v_timestamp,
                   v_first_frame, tsc_first, main_mkv_header_pending, stopped,
                   fault, out, n>>

\* main_mkv_header_pending after a convert that returned r: cleared by the
\* first success only.
HeaderStillPendingOnError(pending, r) == pending /\ r > 0

HeaderStillPending(pending, r) == pending /\ r /= 0

(***************************************************************************)
(* One pass of the do-while for a frame f the demultiplexer handed on      *)
(* (sbuf_len > 0): collect, correct, convert, clear the header flag,       *)
(* write.  With correction on, dt_tsproc_process (DHAV only) divides by    *)
(* dhav_fps from the second applicable frame on; a 0 there kills the       *)
(* process (SIGFPE), as does a raw configuration record of height 0.       *)
(* A success whose bytes exceed sbuf_2 has written past it (the memcpy of *)
(* a wrapped body_len); the model stops there.                             *)
(***************************************************************************)
Frame ==
    /\ Live /\ in_chunk /\ n < MaxFrames
    /\ n' = n + 1
    /\ \E f \in IF fmt = "raw" THEN RawFrames ELSE Frames :
        LET p == [frame_type |-> frame_type, has_v_parms |-> has_v_parms,
                  dhav_fps |-> dhav_fps, body_len |-> body_len,
                  v_timestamp |-> v_timestamp, v_first_frame |-> v_first_frame]
            q == CollectFor(p, f)
            tsproc == TsProcOn /\ fmt = "dhav" /\ Applicable(q)
            first == main_mkv_header_pending
            r == ConvertRet(q, first)
        IN  /\ frame_type' = q.frame_type
            /\ has_v_parms' = q.has_v_parms
            /\ dhav_fps' = q.dhav_fps
            /\ body_len' = q.body_len
            /\ v_timestamp' = q.v_timestamp
            /\ v_first_frame' = q.v_first_frame
            /\ IF \/ tsproc /\ ~tsc_first /\ q.dhav_fps = 0
                  \/ fmt = "raw" /\ RawDivByZero(f)
                 THEN /\ fault' = "sigfpe"
                      /\ UNCHANGED <<tsc_first, main_mkv_header_pending,
                                     dtconv_ret, out>>
                 ELSE /\ tsc_first' = (tsc_first /\ ~tsproc)
                      /\ dtconv_ret' = r
                      /\ fault' = IF r = 0 /\ Written(q, first) > MaxDst
                                    THEN "overrun" ELSE "none"
                      /\ main_mkv_header_pending' = HeaderStillPending(first, r)
                      /\ out' = IF r = 0
                                  THEN out \o (IF first THEN <<Header(q)>> ELSE <<>>)
                                           \o <<Cluster(q, f)>>
                                  ELSE out
    /\ UNCHANGED <<fmt, in_chunk, stopped>>

\* The do-while ends (dstf_ret <= 0); the loop breaks if the last convert
\* of the chunk failed.
EndChunk ==
    /\ Live /\ in_chunk
    /\ in_chunk' = FALSE
    /\ stopped' = (dtconv_ret < 0)
    /\ UNCHANGED <<fmt, frame_type, has_v_parms, dhav_fps, body_len, v_timestamp,
                   v_first_frame, tsc_first, main_mkv_header_pending, dtconv_ret,
                   fault, out, n>>

Next == ReadChunk \/ Frame \/ EndChunk

Spec == Init /\ [][Next]_vars

-----------------------------------------------------------------------------
\* A record of out: a header or a cluster.
IsRecord(o) ==
    \/ DOMAIN o = {"kind", "fps"} /\ o.kind = "header"
    \/ /\ DOMAIN o = {"kind", "key", "body", "ts", "of"} /\ o.kind = "cluster"
       /\ o.key \in BOOLEAN /\ o.body \in 0..SizeMod - 1
       /\ o.ts \in 0..MaxFrames /\ o.of \in Frames \cup RawFrames

\* Every variable holds a value of its C type.
TypeOK ==
    /\ fmt \in Formats
    /\ v_timestamp \in 0..MaxFrames /\ v_first_frame \in BOOLEAN
    /\ frame_type \in {"undef", "video", "iframe", "audio"}
    /\ has_v_parms \in BOOLEAN /\ tsc_first \in BOOLEAN
    /\ body_len \in 0..SizeMod - 1
    /\ main_mkv_header_pending \in BOOLEAN
    /\ dtconv_ret \in {-4, 0, 1, 2}
    /\ fault \in {"none", "sigfpe", "overrun"}
    /\ \A i \in 1..Len(out) : IsRecord(out[i])
    /\ n \in 0..MaxFrames

\* The MKV file starts with exactly one header and holds only clusters after
\* it (spec 8: the preamble is written exactly once), whatever audio, text,
\* early P-frames or failed converts come first: main_mkv_header_pending in
\* the loop is cleared only by a conversion that wrote it.
HeaderFirstOnce ==
    out /= <<>> =>
        /\ out[1].kind = "header"
        /\ \A i \in 2..Len(out) : out[i].kind = "cluster"

\* The header of a DHAV stream describes a valid I-frame: its fps is not 0,
\* and the cluster written with it is that I-frame, a key frame of the same
\* fps.  It relies on the collector refusing a 0-fps I-frame before setting
\* has_v_parms.
HeaderDescribesKeyFrame ==
    (fmt = "dhav" /\ out /= <<>>) =>
        /\ out[1].fps > 0
        /\ out[2].key
        /\ out[2].of.fps = out[1].fps

\* A raw H.264 file, too, starts with a key frame: nothing is converted
\* before the parameters are known, and spec 3 and 4.5 make them known
\* with the first key frame.  The raw collector sets has_v_parms on a 0xfb
\* configuration record instead.
RawStartsWithKeyFrame ==
    (fmt = "raw" /\ out /= <<>>) => out[2].key

\* Every cluster carries the body of the frame it was converted from (spec
\* 8, round-trip length: the DHAV body, or the whole raw unit), is a video
\* frame, and is marked key exactly when that frame is an I-frame: no stale
\* frame_type or body_len of an earlier frame in mc_parms is reused for a
\* frame the collector skipped.
ClusterIsItsFrame ==
    \A i \in 1..Len(out) : out[i].kind = "cluster" =>
        IF fmt = "dhav"
          THEN /\ out[i].of.type \in {"fc", "fd"}
               /\ out[i].body = out[i].of.len - out[i].of.ext
                                  - BASE_DHAV_HDR_LEN - DhavTrailerLen
               /\ out[i].key = (out[i].of.type = "fd")
          ELSE /\ out[i].of.type = "b6"
               /\ out[i].body = out[i].of.len
               /\ out[i].key = (out[i].of.sel = 0)

\* The raw H.264 clusters carry strictly increasing timestamps (spec 3: the
\* presentation timestamp never decreases; spec 4.3: one period per video
\* frame after the first), whatever audio, inert units, configuration
\* records or video before the first configuration record the collector
\* skipped between them.
RawClockAdvances ==
    fmt = "raw" =>
        \A i, j \in 1..Len(out) :
            (i < j /\ out[i].kind = "cluster") => out[i].ts < out[j].ts

\* Timestamp correction never divides by a zero frame rate (spec 7: a zero
\* frame rate is fatal to the session, never used).
NoDivByZero == fault /= "sigfpe"

\* dt_convert_frame_to_mkv never writes past its output buffer: a frame is
\* refused with -4 when it does not fit (spec 4.5, BufferTooSmall).
NoOverrun == fault /= "overrun"
=============================================================================
