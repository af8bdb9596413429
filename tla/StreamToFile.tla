---------------------------- MODULE StreamToFile ----------------------------
(***************************************************************************)
(* The base process of tanidvr: main (tanidvr.c, operation mode 1) and     *)
(* stream_media_dvr_to_file (dvrcontrol.c 578-812), with poll_pipe_read    *)
(* and the signal handler of shtools.c.  The intermediate process          *)
(* (modelled in Tunnel) is seen from the pipe: it writes bytes into it and *)
(* may exit, which closes the pipe and raises SIGCHLD.  The user may send  *)
(* SIGTERM at any time.                                                    *)
(*                                                                         *)
(* The stream is a sequence of frames of FrameLen bytes each; a byte is    *)
(* known by its position.  The demultiplexer (modelled in DhavDemux) hands *)
(* on the frames that are whole in its queue, one per call; a frame larger *)
(* than the output buffer ("huge") makes it return -3.  A frame's          *)
(* conversion to Matroska (modelled in MkvConvert) returns 0 ("ok"), 2     *)
(* ("skip": nothing to write yet) or fails ("fail"); only its result and   *)
(* whether it produced bytes are kept.                                     *)
(*                                                                         *)
(* The base process runs with sa_flags = 0 (sht_init, SHT_BASE_PROC), so a *)
(* signal that arrives while it is blocked in poll() or read() makes the   *)
(* call fail with EINTR; one that arrives just before the call does not.   *)
(***************************************************************************)
EXTENDS Naturals, Sequences, SequencesExt

CONSTANTS
    FrameLen,    \* bytes per frame
    ChunkMax,    \* STREAM_BUFFER_MAXPIPEREAD: largest read() from the pipe
    QueueMax,    \* dstf->sq_maxlen
    PipeCap,     \* capacity of the pipe from the intermediate process
    Streams,     \* the frame sequences the DVR may send, by kind
    Containers,  \* media_container_out: 0 DVR native, 1 Matroska
    WriteFails   \* outfile_write may fail (disk full, closed output)

ASSUME /\ FrameLen \in Nat \ {0} /\ ChunkMax \in Nat \ {0}
       /\ QueueMax >= 2 * ChunkMax /\ PipeCap \in Nat \ {0}
       /\ Containers \subseteq {0, 1} /\ WriteFails \in BOOLEAN

VARIABLES
    pc,          \* where the base process is: "main", "id_poll", "id_read",
                 \* "poll", "read", "drain", "checks", "end", "reap", "exit"
    frames,      \* the kinds of the frames the DVR sends
    mkv,         \* mc_format_out = MC_FORM_MKV
    interm,      \* the intermediate process: "none", "run" or "exited"
    sent,        \* bytes the intermediate process has written into the pipe
    rd,          \* bytes the base process has read from the pipe
    handed,      \* frames the demultiplexer has handed on
    term,        \* sht_fl_terminate_nicely
    chld,        \* sht_fl_sigchld
    dstf_ret, dtconv_ret, outfwrite_ret,
    \* history
    out,         \* the frames written to the output file, in order
    late,        \* frames written after a reason to stop was flagged
    why,         \* why the loop was left
    status       \* exit status of tanidvr

vars == <<pc, frames, mkv, interm, sent, rd, handed, term, chld, dstf_ret,
          dtconv_ret, outfwrite_ret, out, late, why, status>>
env == <<frames, mkv>>

-----------------------------------------------------------------------------
(* The pipe as poll() and read() see it *)

\* Bytes in the pipe.
Avail == sent - rd

\* The write end is closed once the intermediate process has exited.
WriterOpen == interm = "run"

\* poll() returns at once when the pipe holds data or is at end of file.
Blocked == Avail = 0 /\ WriterOpen

\* Faulty variant: POLLHUP counted as readable.
PollReadableOnHup == TRUE

\* poll_pipe_read: POLLIN with data; POLLHUP alone (end of file, nothing
\* left) gives -2; a quiet pipe times out after 100 ms, and EINTR is taken
\* as a timeout: 0.
PollReadable == ~(Avail = 0 /\ ~WriterOpen)

\* Faulty variant: a frame counted as whole once its first byte is queued.
ReadyPartial == (rd + FrameLen - 1) \div FrameLen - handed

\* The frames whole in the demultiplexer's queue and not yet handed on.
Ready == rd \div FrameLen - handed

\* A reason to stop the loop is flagged: sht_fl_terminate_nicely or
\* sht_fl_sigchld (SIGPIPE is ignored, so sht_fl_sigpipe is never set).
StopFlagged == term \/ chld

Kinds == {"ok", "skip", "fail", "huge"}

\* The result of dt_convert_frame_to_mkv for a frame of each kind.
Conv == [k \in Kinds |-> CASE k = "ok" -> 0 [] k = "skip" -> 2 [] OTHER -> -1]

Init ==
    /\ pc = "main"
    /\ frames \in Streams
    /\ mkv \in {c = 1 : c \in Containers}
    /\ interm = "none"
    /\ sent = 0 /\ rd = 0 /\ handed = 0
    /\ term = FALSE /\ chld = FALSE
    /\ dstf_ret = 0 /\ dtconv_ret = 0 /\ outfwrite_ret = 0
    /\ out = <<>> /\ late = 0 /\ why = "none" /\ status = 0

-----------------------------------------------------------------------------
(* main and the set-up of stream_media_dvr_to_file *)

\* main, operation mode 1: open_session fails, or the channel is not one
\* the device has: exit(1).
SessionFails ==
    /\ pc' = "exit" /\ status' = 1
    /\ UNCHANGED <<interm, why>>

\* stream_media_dvr_to_file forks the intermediate process; a failed fork
\* returns 6, a failed outfile_open or dstf_init destroys the new process
\* and returns 4 or 7, and main ignores the result.  Otherwise the format
\* identification starts.
StreamSetup ==
    /\ \/ pc' = "exit" /\ why' = "fork" /\ UNCHANGED interm
       \/ pc' = "end" /\ why' = "setup" /\ interm' = "run"
       \/ pc' = "id_poll" /\ interm' = "run" /\ UNCHANGED why
    /\ UNCHANGED status

Start ==
    /\ pc = "main"
    /\ SessionFails \/ StreamSetup
    /\ UNCHANGED <<env, sent, rd, handed, term, chld, dstf_ret, dtconv_ret,
                   outfwrite_ret, out, late>>

-----------------------------------------------------------------------------
(* The identification loop: chunks are appended to the queue, not        *)
(* scanned, until the format is found (a whole frame is queued) or the     *)
(* room left is below two reads; an unknown format is taken as DHAV.       *)

\* poll_pipe_read >= 0 leads to read(); otherwise goto end_stream_process.
IdPoll ==
    /\ pc = "id_poll"
    /\ IF PollReadable THEN pc' = "id_read" /\ UNCHANGED why
                       ELSE pc' = "end" /\ why' = "pipe"
    /\ UNCHANGED <<env, interm, sent, rd, handed, term, chld, dstf_ret,
                   dtconv_ret, outfwrite_ret, out, late, status>>

\* read() returns 1..ChunkMax bytes, or 0 at end of file (the loop goes
\* round); it blocks on an empty pipe whose writer is open.
IdRead ==
    /\ pc = "id_read"
    /\ ~Blocked
    /\ \E k \in 0..ChunkMax :
          /\ k <= Avail /\ (k = 0 <=> Avail = 0)
          /\ rd' = rd + k
          /\ pc' = IF \/ rd + k >= FrameLen
                      \/ QueueMax - (rd + k) < 2 * ChunkMax
                   THEN "poll" ELSE "id_poll"
    /\ UNCHANGED <<env, interm, sent, handed, term, chld, dstf_ret, dtconv_ret,
                   outfwrite_ret, out, late, why, status>>

-----------------------------------------------------------------------------
(* The streaming loop *)

Poll ==
    /\ pc = "poll"
    /\ IF PollReadable THEN pc' = "read" /\ UNCHANGED why
                       ELSE pc' = "end" /\ why' = "pipe"
    /\ UNCHANGED <<env, interm, sent, rd, handed, term, chld, dstf_ret,
                   dtconv_ret, outfwrite_ret, out, late, status>>

\* read() returns what the pipe holds, up to ChunkMax, or 0 at end of file;
\* the results are reset and the drain starts.
Read ==
    /\ pc = "read"
    /\ ~Blocked
    /\ \E k \in 0..ChunkMax :
          /\ k <= Avail /\ (k = 0 <=> Avail = 0)
          /\ rd' = rd + k
    /\ pc' = "drain"
    /\ dstf_ret' = 0 /\ dtconv_ret' = 0 /\ outfwrite_ret' = 0
    /\ UNCHANGED <<env, interm, sent, handed, term, chld, out, late, why, status>>

\* Faulty variant: the flags are not tested inside the drain.
DrainNoFlagCheck ==
    /\ pc = "drain"
    /\ IF Ready = 0 \/ frames[handed + 1] = "huge"
          THEN /\ dstf_ret' = IF Ready = 0 THEN 0 ELSE -3
               /\ pc' = "checks"
               /\ UNCHANGED <<handed, dtconv_ret, outfwrite_ret, out, late>>
          ELSE LET f     == handed + 1
                   conv  == IF mkv THEN Conv[frames[f]] ELSE 0
                   bytes == conv = 0
               IN  /\ handed' = f
                   /\ dstf_ret' = 1
                   /\ dtconv_ret' = IF mkv THEN conv ELSE dtconv_ret
                   /\ \E w \in IF bytes /\ WriteFails THEN {0, -1} ELSE {0} :
                         /\ outfwrite_ret' = w
                         /\ out' = IF bytes /\ w = 0 THEN Append(out, f) ELSE out
                         /\ late' = IF bytes /\ w = 0 /\ StopFlagged
                                       THEN late + 1 ELSE late
                         /\ pc' = IF w /= 0 THEN "checks" ELSE "drain"
    /\ UNCHANGED <<env, interm, sent, rd, term, chld, why, status>>

\* One turn of the do-while: the demultiplexer hands on the next whole
\* frame (1), finds none (0) or a frame too large for sbuf (-3).  A frame
\* handed on is converted when the output is Matroska, written (an empty
\* conversion writes nothing, which cannot fail), and the turn breaks out
\* on a failed write or a flagged reason to stop; otherwise the drain goes
\* on while the result is > 0.
Drain ==
    /\ pc = "drain"
    /\ IF Ready = 0 \/ frames[handed + 1] = "huge"
          THEN /\ dstf_ret' = IF Ready = 0 THEN 0 ELSE -3
               /\ pc' = "checks"
               /\ UNCHANGED <<handed, dtconv_ret, outfwrite_ret, out, late>>
          ELSE LET f     == handed + 1
                   conv  == IF mkv THEN Conv[frames[f]] ELSE 0
                   bytes == conv = 0
               IN  /\ handed' = f
                   /\ dstf_ret' = 1
                   /\ dtconv_ret' = IF mkv THEN conv ELSE dtconv_ret
                   /\ \E w \in IF bytes /\ WriteFails THEN {0, -1} ELSE {0} :
                         /\ outfwrite_ret' = w
                         /\ out' = IF bytes /\ w = 0 THEN Append(out, f) ELSE out
                         /\ late' = IF bytes /\ w = 0 /\ StopFlagged
                                       THEN late + 1 ELSE late
                         /\ pc' = IF w /= 0 \/ StopFlagged THEN "checks" ELSE "drain"
    /\ UNCHANGED <<env, interm, sent, rd, term, chld, why, status>>

\* After the do-while, in the code's order: termination request, dead
\* intermediate process, demultiplexer failure, conversion failure, failed
\* write; otherwise poll again.
Checks ==
    /\ pc = "checks"
    /\ LET r == CASE term -> "term" [] chld -> "child" [] dstf_ret < 0 -> "demux"
                  [] dtconv_ret < 0 -> "convert" [] outfwrite_ret /= 0 -> "write"
                  [] OTHER -> "none"
       IN  /\ pc' = IF r = "none" THEN "poll" ELSE "end"
           /\ why' = r
    /\ UNCHANGED <<env, interm, sent, rd, handed, term, chld, dstf_ret,
                   dtconv_ret, outfwrite_ret, out, late, status>>

\* end_stream_process: dstf_close, outfile_close, mc_close, then
\* mptools_destroy_pipedfork closes the pipe, sends SIGTERM and blocks in
\* waitpid; the function returns 0.
End ==
    /\ pc = "end"
    /\ pc' = "reap"
    /\ UNCHANGED <<env, interm, sent, rd, handed, term, chld, dstf_ret,
                   dtconv_ret, outfwrite_ret, out, late, why, status>>

\* waitpid returns once the intermediate process has exited; main exits
\* with 0.
Reap ==
    /\ pc = "reap" /\ interm = "exited"
    /\ pc' = "exit"
    /\ UNCHANGED <<env, interm, sent, rd, handed, term, chld, dstf_ret,
                   dtconv_ret, outfwrite_ret, out, late, why, status>>

BaseStep == Start \/ IdPoll \/ IdRead \/ Poll \/ Read \/ Drain \/ Checks
            \/ End \/ Reap

-----------------------------------------------------------------------------
(* The intermediate process and the user *)

\* A blocked read() fails with EINTR when a signal interrupts it, and the
\* loop is left ("Unable to get more data from pipe").  The signal may
\* also come just before the call, which then blocks.
Interrupted ==
    IF pc \in {"id_read", "read"} /\ Blocked
       THEN \/ pc' = "end" /\ why' = "eintr"
            \/ UNCHANGED <<pc, why>>
       ELSE UNCHANGED <<pc, why>>

\* The intermediate process writes into the pipe while it has room.
IntermWrite ==
    /\ interm = "run"
    /\ sent < FrameLen * Len(frames)
    /\ Avail < PipeCap
    /\ sent' = sent + 1
    /\ UNCHANGED <<pc, env, interm, rd, handed, term, chld, dstf_ret,
                   dtconv_ret, outfwrite_ret, out, late, why, status>>

\* The intermediate process exits: its end of the pipe is closed and
\* SIGCHLD sets sht_fl_sigchld.
IntermExit ==
    /\ interm = "run"
    /\ interm' = "exited"
    /\ chld' = TRUE
    /\ Interrupted
    /\ UNCHANGED <<env, sent, rd, handed, term, dstf_ret, dtconv_ret,
                   outfwrite_ret, out, late, status>>

\* SIGTERM (or SIGHUP, SIGXCPU) sets sht_fl_terminate_nicely.
SigTerm ==
    /\ pc \notin {"main", "exit"}
    /\ term' = TRUE
    /\ Interrupted
    /\ UNCHANGED <<env, interm, sent, rd, handed, chld, dstf_ret, dtconv_ret,
                   outfwrite_ret, out, late, status>>

Next == BaseStep \/ IntermWrite \/ IntermExit \/ SigTerm

\* The base process runs whenever it can; nothing obliges the DVR to send,
\* the intermediate process to exit or the user to send a signal.
Spec == Init /\ [][Next]_vars /\ WF_vars(BaseStep)

-----------------------------------------------------------------------------
(* Properties *)

TypeOK ==
    /\ pc \in {"main", "id_poll", "id_read", "poll", "read", "drain", "checks",
               "end", "reap", "exit"}
    /\ interm \in {"none", "run", "exited"}
    /\ rd <= sent /\ sent - rd <= PipeCap /\ sent <= FrameLen * Len(frames)
    /\ handed <= rd \div FrameLen
    /\ dstf_ret \in {-3, 0, 1} /\ dtconv_ret \in {-1, 0, 2}
    /\ outfwrite_ret \in {-1, 0}
    /\ out \in Seq(1..Len(frames)) /\ late \in Nat
    /\ term \in BOOLEAN /\ chld \in BOOLEAN /\ status \in {0, 1}

\* Once a termination request or the death of the intermediate process is
\* flagged, the streaming loop writes at most one more frame: the flags
\* are tested after every frame written inside the drain (dvrcontrol.c
\* 766) and again after it (771, 775), so a drain of several frames is cut
\* short, however the signal falls between the poll, the read and the
\* writes.
StopsPromptly == late <= 1

\* Once the intermediate process has exited, tanidvr ends: whatever the
\* base process is doing (identifying the format, blocked in read, in the
\* middle of a drain) it leaves its loop, through POLLHUP, end of file,
\* EINTR or the SIGCHLD flag, and waitpid returns.
ChildExitEndsLoop == (interm = "exited") ~> (pc = "exit")

\* A termination request ends tanidvr (sht_handler: SIGTERM "terminate
\* nicely") by leaving the streaming loop, whether or not the DVR keeps
\* sending.
TermHonoured == term ~> (pc \in {"end", "reap", "exit"})

\* The frames of a stream that reach the output file: all of them in the
\* DVR's native format, only those converted with bytes in Matroska.
Wanted(n) == SelectSeq([i \in 1..n |-> i], LAMBDA i : ~mkv \/ frames[i] = "ok")

\* When the intermediate process ends on its own (the DVR session cannot
\* be restarted), every whole frame it put in the pipe, its final flush
\* included (stream_dvr_subprocess_to_pipe, dvrcontrol.c 561-565), reaches
\* the output file before tanidvr exits.
TailWritten ==
    (pc = "exit" /\ ~term /\ why \in {"child", "pipe"})
        => out = Wanted(sent \div FrameLen)

\* A failed conversion ends the streaming loop (dvrcontrol.c 784-787): no
\* frame after one whose conversion failed is written.
ConvertFailureEnds ==
    mkv => \A k \in 1..handed :
              frames[k] = "fail" => \A i \in 1..Len(out) : out[i] < k
=============================================================================
