# TaniDVR — TLA+ models

TLA+ models of TaniDVR (`src/src/*.c`). TaniDVR is a client for Dahua-protocol
DVRs and IP cameras. It logs in to a DVR, pulls the live DHAV (or raw H.264)
media stream, and transcodes it frame by frame into a Matroska (MKV) file. It
can also run as `dhav2mkv`, which converts a DHAV file the same way. This
directory holds the modules, the TLC configurations that check them, and
`PROJECT.json`, which lists components, runs, mutants, the definition-to-source
map, findings and hazards.

## 1. Inventory

### 1.1 Components

| # | Component | Source | State | Operations |
|---|-----------|--------|-------|------------|
| 1 | Byte queue (`dstf_t`) | `mctools.c` 256-324, `mctools.h` 111-117 | `sq[]`, `sq_offs`, `sq_len`, `sq_maxlen` | init, append with lazy compaction, consume |
| 2 | Frame demultiplexer | `mctools.c` 292-532 | the byte queue | DHAV variant (magic, reported length, trailer mirror, garbage skip); raw H.264 variant (start codes) |
| 3 | Frame metadata collector | `mctools.c` 544-885 | `t_mc_parms` (`has_v_parms`, geometry, `dhav_fps`, `NTSC_timings`, `dhav_epoch`, `v_dhav_ts`, direct `v_timestamp`, body span) | DHAV collector (types `0xfd`/`0xfc`/`0xf0`/`0xf1`/other); raw H.264 collector (NAL types) |
| 4 | Timestamp correction engine | `mctools.c` 893-1145 | `t_mc_tsproc` (first flag, raw-accumulated and corrected clocks, four slow-drift accumulators, previous ts and epoch) | init, seed, epoch resync, epoch jump, fast-drift correction, slow-drift correction |
| 5 | Container synthesizer | `mctools.c` 1150-1323 | `v_first_frame` of the parameters; the caller's `main_mkv_header_pending` | one-time MKV header, one Cluster+SimpleBlock per video frame, size check |
| 6 | Converter loop (base process) | `dvrcontrol.c` 578-812, `dhav2mkv.c` 161-330 | the pipe, the output file, format identification | identify format, read chunk, drain the demux, collect → correct → convert → write; its control and signals are in `StreamToFile` |
| 7 | Ring-buffer FIFO (`btfifo`) | `bufftools.c` 90-267 | `buff`, `bsize`, `dpos`, `dlen` | fd → fifo (two free regions), fifo → fd (two used regions), free/stored length |
| 8 | Pipe tunnel and supervisor (intermediate process) | `dvrcontrol.c` 350-569, `mptools.c` | the btfifo, the child pid, the signal flags | poll-driven tunnel, restart of the DVR child with 1 s back-off, flush on exit |
| 9 | DVR streaming session (grandchild) | `dvrcontrol.c` 74-345 | two TCP sessions, keep-alive and timeout timers | login, relationship, media request, keep-alive, timeout, close |
| 10 | DVR wire protocol | `hlprotocol.c`, `llprotocol.c` | the socket's stdio stream | header/ext-data framing, NOP request/reply trick, pipelined system-info queries |
| 11 | Device info | `hlprotocol.c` 578-764, `devinfo.c` | `devinfo_t` | fill fields from system-information replies |
| 12 | Signals, timers, network, files, log, CLI | `shtools.c`, `timertools.c`, `network.c`, `filetools.c`, `log.c`, `tanidvr.c` | flags of type `sig_atomic_t`, `timeval` | handlers, elapsed time, connect, open/write, logging, option parsing; the base process's handler and `main` are in `StreamToFile` |

### 1.2 How the parts interact

`tanidvr` forks three processes. The grandchild (9) speaks the DVR protocol (10)
and writes raw media bytes to a pipe. The intermediate process (8) moves bytes
from that pipe through a 1 MiB ring buffer (7) to a second pipe. It restarts the
grandchild when the grandchild dies or times out, and the ring buffer keeps
whatever it held across the restart. The base process (6) reads the second pipe
and pushes each chunk into the byte queue (1). It then drains the demultiplexer
(2) with empty appends until it reports "need more data". Each frame goes
through the collector (3), the timestamp engine (4) and the synthesizer (5), and
the result is written to the file. Components 1-5 share one `t_mc_parms` record.
The collector writes it, the engine overwrites its `v_timestamp`, and the
synthesizer reads it. The return value of the collector is ignored by both
callers (`dvrcontrol.c` 742, `dhav2mkv.c` 277).

### 1.3 What is hard in this code

* The timestamp engine is a cascade of guarded corrections over 64-bit signed and
  unsigned arithmetic. It has integer division that truncates toward zero, a
  16-bit wrapping source clock, and accumulators that are reset in some branches
  and adjusted in others. Whether the output clock stays monotone and close to
  the source clock depends on sequences of frames, not on one frame.
* The demultiplexer trusts the reported length `L` from untrusted bytes. With
  `L < 8` it computes `L - 8` in `size_t` and reads before the frame. A frame that
  passes the demux checks can have a header longer than itself, and then the
  collector's `body_len` wraps around.
* The converter loop calls the demux while it returns a positive value. The loop
  ends only if every positive return consumes bytes.
* The ring buffer serves partial reads and writes across its wrap point. Its
  stored data survives child restarts, so a new stream starts behind the tail of
  a truncated frame.
* The base process stops on signal flags that it tests only at some points
  of its loop, after blocking calls that a signal may or may not interrupt.
* Three processes, pipes, `SIGCHLD` and two timers interact: keep-alive against
  timeout in the grandchild, and a poll timeout against child death in the
  intermediate process.

### 1.4 Properties each component should have

* Byte queue: `offs + len <= maxlen`. Overflow happens only when the data really
  does not fit.
* Demultiplexer: it emits exactly the source's complete frames, in order, and
  never a frame spliced from pieces. It resynchronises after garbage or a
  truncated frame. Each call that returns "frame" makes progress, so the drain
  loop ends. It is fatal only when a reported length exceeds capacity.
* Collector: `has_v_parms` implies a non-zero fps. The body length never exceeds
  the frame.
* Timestamp engine: the corrected clock is non-decreasing (spec §8). The
  corrected clock stays a whole number of reference periods (the "frame
  frequency phase" of the comments). The slow-drift accumulators measure exactly
  the drift accumulated since the last resync. The tie-break branch corrects in
  the direction of the drift.
* Synthesizer: the document header is emitted exactly once, before any cluster.
  The declared payload length equals the body length.
* Ring buffer: it delivers the bytes it accepted, in order, with none lost or
  duplicated. This is a refinement of a FIFO sequence.
* Supervisor: a dead or hung grandchild is eventually replaced. A terminate
  request eventually ends all three processes.
* Base process: a flagged reason to stop ends the streaming loop promptly. The
  death of the intermediate process always ends `tanidvr`. Every frame that
  reaches the pipe is written, unless the loop stops on an error or a request.

## 2. Plan

Modules are written in this order, with the most important behaviour first.

1. `TsProc` — the timestamp correction engine (`dt_tsproc_process`). The
   environment is the DVR clock seen through the collector: it supplies the
   frame type, the 16-bit ms timestamp and the epoch. Runs:
   * a passing run: the corrected clock stays in phase, and the accumulators
     agree with the clocks;
   * violation runs for monotonicity (spec §8) and for the "`j == 2` always"
     comment.
2. `DhavDemux` — the byte queue plus the DHAV demultiplexer over an abstract
   byte alphabet. The alphabet has a magic byte carrying a reported length, a
   trailer byte carrying a mirrored length, and a plain byte. The queue array is
   kept whole, so that reads before the window see stale bytes as in the code.
   The source is a stream of frames, garbage and truncated frames, chunked
   arbitrarily. The caller's drain loop is part of the model. Runs:
   * frames out = complete frames in, in order, never spliced;
   * drain termination;
   * fatal only for oversize lengths.
3. `MkvConvert` — the collector and the synthesizer in one read's do-while of
   the converter loop. Runs: the header emitted once, the fps-zero path, the
   and the body-length wrap (done, §3.5).
4. `BtFifo` — the ring buffer with partial transfers. It is shown to refine
   `Fifo` (an abstract sequence) via `INSTANCE ... WITH`.
5. `Tunnel` — the intermediate process: the tunnel, restarts, timeouts and
   `SIGCHLD`, with liveness under fairness of the poll loop (done, §3.4).
6. `DvrSession` — the grandchild's streaming session over both protocol
   layers: login, system information, relationship, media request, the
   streaming loop with keep-alive and timeout (done, §3.6).
7. The raw H.264 demultiplexer (in `DhavDemux`) and collector (in
   `MkvConvert`), checked by the runs of those modules (done, §3.2, §3.5).
8. `StreamToFile` — the base process's control around the converter loop:
   signals, the blocking pipe reads, the breaks and checks, and `main`
   (done, §3.7).

Bounds are stated with each run in §3. Scaled constants are named there.

## 3. Modules and runs

### 3.1 `TsProc` — timestamp correction engine

`TsProc.tla` models `dt_tsproc_init` and `dt_tsproc_process` (`mctools.c`
893-1145), plus the part of `dt_collect_dhav_frame_info` that classifies a frame
and copies its timestamp and epoch (`CollectFrame`). One `Frame` step is one
turn of the converter loop (`dvrcontrol.c` 736-749): the DVR clock advances,
the collector runs, then the engine. The engine takes one of three actions:
`NotApplicable` (audio, or no video parameters yet), `Seed` (the first video
frame) or `Track`. `Track` runs the `Correction` cascade: epoch back → resync,
epoch jump, fast drift, slow drift with its tie-break. `LastActions` is always
part of the same step.

Variables keep the names of the `t_mc_tsproc` and `t_mc_parms` fields. The
slow-drift accumulators are the record `sdc`. `gap0` is a history variable: the
gap between the raw and corrected clocks at the last reset.

Scaling in `MC_TsProc.tla`: times are in µs (`NsPerMs = 1000`), so the
reference period at 25 fps is 40000. The DVR clock starts at 65500 ms, so the
16-bit wrap happens within the first two frames. Clock steps are 20, 40, 70 and
250 ms (ahead, on time, late and a dropped-frame jump). Epoch steps are 0, -1
and +31 s. `MinSamples` is 2 instead of 1000, so the slow-drift evaluation is
reached within 6 frames. The monotonic run keeps the code's 1000.

| Run | Result | What it shows |
|-----|--------|---------------|
| `tsproc_safety` (`MC_TsProc.cfg`) | pass, 348 073 states, about 30 s | `DriftAccounted`: the slow-drift accumulators equal the drift since the last reset, across tie-breaks and resets over many frames. `TypeOK` includes that both 64-bit clocks stay non-negative. |
| `tsproc_monotonic` | violation | A DVR that steps 30 ms per frame at 25 fps: after 17 tracked frames the fast-drift branch applies `j = -4` and `v_timestamp` goes back three periods. Spec §8 says it never decreases. |

`TsProc_tiebreak.cfg` is kept but is not a run: with it TLC shows the
tie-break commented "here, j == 2 always" reached with `j = -2`, adding a
period in the wrong direction (`TieBreakFollowsDrift`). `PROJECT.json` lists it
as a hazard.

### 3.2 `DhavDemux` — byte queue, both demultiplexers and the converter loop

`DhavDemux.tla` models `dstf_init`, `dstf_process_dhav_stream_to_frames`
(`mctools.c` 256-411), `search_mpeg_NAL` and
`dstf_process_raw_h264_stream_to_frames` (412-532), `identify_mc_format`
(181-225) and the loop that drives them, in either program (`prog`):
`stream_media_dvr_to_file` reading the pipe (`dvrcontrol.c` 672-783), or
`dhav2mkv`'s `process_dhav_stream` reading a file (`dhav2mkv.c` 219-322).
Bytes are tokens:

* `D` is the DHAV magic;
* `L(v)` is the last byte of the reported length;
* `d` is the trailer magic;
* `M(v)` is the last byte of the mirror;
* `0` and `1` are the bytes 00 and 01 of an H.264 start code;
* `b6`, `fb`, `f0`, `b2` are NAL type bytes; `I`, `P`, `h` payload bytes;
  `Z` stands for the string "Dahua_ZH" of the `0xb2` unit;
* `x` is any other byte (neither 00 nor 01).

`fmt` is `mc_format_in`. `Identified` is `identify_mc_format`: DHAV when both
magics are in the queue, raw when "Dahua_ZH" is, unknown otherwise; the loop
takes an unknown format as DHAV once identification stops
(`FmtAfterIdentification`). `Scan` calls the demultiplexer of the format.
`RawScan` follows the raw one branch by branch: fewer than 8 bytes wait; a
queue without a start code is dropped; garbage before the first start code is
skipped; the unit ends at the next start code, searched for 4 bytes on, so the
last unit of a stream stays in the queue. `SearchNALFrom` is the loop of
`search_mpeg_NAL`.

A length read from any other token is larger than the queue. The whole
`sq[]` array is a variable, so a read before the window sees the stale bytes
the code would see. A read outside the array is undefined behaviour and
yields any token of `OutOfBounds`. `DhavScan` and `SkipToMagic` are `RECURSIVE`
operators that follow the `while (1)` loop and the inner skip loop, branch by
branch.

The loop's actions:

* `Identify` models the identification loop, which appends without scanning.
* `Read` models a read followed by a dstf call with the chunk. `ReadSizes`
  is what a read may return: any 1..`ChunkMax` bytes from the pipe, but a
  full `FileChunk` (`STREAM_IN_FREAD_GRANULARITY`) from the file unless the
  file ends first.
* `ReadEof` models the end of the input, which each program meets its own
  way. In `dhav2mkv` (`FileEof`) fread returns 0, and the demultiplexer is
  called with no new data. The loop stops once that call's drain is over,
  because it tests `infread_ret <= 0` after the do-while. In `tanidvr`
  (`PipeHangUp`) the intermediate process has closed the pipe and it is
  empty. `poll()` then reports `POLLHUP` alone, `poll_pipe_read` returns -2,
  and the loop ends at once without a demultiplexer call. This holds in the
  identification loop as well. While the writer stays open, `read()` blocks
  and nothing happens. `eof` records that the loop has ended this way.
* `Drain` models the `do … while (dstf_ret > 0)` loop.
* `dhav2mkv`'s identification loop also ends when a read returns 0
  (`Converting`), and it keeps room for two freads (`ReadMax`).

Two history variables serve the properties: `out` holds the pieces handed on
as frames, and `forged` is set when a handed-on span is not exactly one frame
piece.

Scaling in `MC_DhavDemux.tla`:

* The length field ends at byte 3 instead of 16, and the trailer has 2 bytes
  instead of 8. The shortest frame is therefore 5 bytes.
* The queue holds 12 bytes and a read returns at most 3. This keeps the code's
  ratio `STREAM_BUFFER_LEN / STREAM_BUFFER_MAXPIPEREAD = 4`. It also makes
  identification stop at the same point, 6 bytes (`2 * MAXPIPEREAD` of room).
* `max_dst_len` equals the queue size, as in the code.
* DHAV streams have up to 4 pieces: whole frames of length 5 and 6, a garbage
  byte, and a 6-byte frame cut after 2 or after 5 bytes. Four pieces is more
  than a queue's worth, so packing, partial frames at a chunk boundary and
  truncation followed by resynchronisation all occur.
* Raw streams keep the code's constants (8 bytes, 4 bytes on). They are an
  optional garbage byte, a first unit that is the `0xb2` "Dahua_ZH" unit or an
  I-frame (then the stream is not identified and is taken as DHAV), and up to
  two I-, P- or `0xfb` units of 5 bytes. Garbage is only at the start: in a
  raw stream, bytes between units belong to the unit before them.
* Properties are stated for the format the loop chose (`Mode`):
  `ValidFrames` are the pieces that are whole frames of that format, and
  `CompleteFrames` leaves out the last raw unit, whose end never arrives.
* `FileChunk = 2` for `dhav2mkv`. In the code the queue holds 100 freads; 6
  here is enough for identification to end on room, on a found format or at
  end of file, depending on the stream.
* `tanidvr` and `dhav2mkv` are both initial choices, so one run checks both
  loops over the same streams.

| Run | Result | What it shows |
|-----|--------|---------------|
| `dhavdemux_safety` (`MC_DhavDemux.cfg`) | pass, 36 836 states, about 1 min | `TypeOK`: `offs + len <= maxlen`. `FramesInOrder`: the frames handed on are whole frames of the identified format, in order, and never spliced. `PipeEndDrained`: when `tanidvr` leaves at the hang-up after at least one demultiplexer call, every frame the stream completes has been handed on, including a last frame that exactly fills the queue. `FileConverted`: when `dhav2mkv` stops at end of file without error, it has handed on every frame the file completes. This relies on the loop testing for end of file only after the drain of the empty read, which is the only call that scans what identification loaded when the whole file fits in it. `DrainTerminates`: every drain loop ends. |

`DhavDemux_livelock.cfg` is kept but is no longer a run. It gave its slot to
`stream_to_file` (§3.7), and `DrainTerminates` is still checked by
`dhavdemux_safety`. With it TLC shows that the bytes `dhav 0`, followed by a
`DHAV` header with length 0, are accepted as an empty frame. The call returns
1 without consuming a byte, and the drain loop never ends.

`DhavDemux_overflow.cfg` is kept but is not a run: with it TLC shows a
well-formed 11-byte frame in a 12-byte queue, read 3 bytes at a time, ending
the session with -1 (`NoFatal`), although spec §7 makes only lengths above the
capacity fatal.

Fairness: `WF_vars(Drain)`, because the do-while calls the demultiplexer again
at once. `WF_vars(ReadEof)`, because at end of stream `poll` reports the pipe
readable and `read` returns 0 on every turn. `Read` has no fairness, since the
DVR is never obliged to send. `dhav2mkv`'s freads always return, but
`FileConverted` is an invariant about the state at end of file, so it needs
no fairness. `CHECK_DEADLOCK FALSE` because a stream ends, a negative result
ends the session, and `dhav2mkv` stops at end of file.

### 3.3 `BtFifo` and `Fifo` — the ring buffer and what it promises

`Fifo.tla` is the abstract promise: a store of at most `Cap` bytes. `Put`
appends the next input bytes and `Get` hands out the oldest ones. `BtFifo.tla`
models `btfifo_create`, `btfifo_fd_to_fifo` and `btfifo_fifo_to_fd`
(`bufftools.c`).

* The input bytes are numbered, so a stale or misplaced byte shows in the
  output.
* A transfer moves any number of bytes up to the region it asks `read()` or
  `write()` for. It fills or drains the second region only when the first was
  taken whole, as the code does.
* `FifoToFd` is the one-region and two-region cases (`FifoToFdOne`,
  `FifoToFdTwo`) under the code's own test.
* A call that fails or moves nothing leaves the state unchanged.

`BtFifo` instantiates `Fifo` with `queue <- Window`, the stored bytes read
around the wrap point. `FifoRefined` is `A!FifoSpec` checked as a property.

| Run | Result | What it shows |
|-----|--------|---------------|
| `btfifo_refines_fifo` (`MC_BtFifo.cfg`) | pass, 154 states | With a 6-byte ring and 24 input bytes, every split of partial reads and writes implements the FIFO. The dead reset at `bufftools.c:176` is harmless because line 181 wraps `dpos`. |

### 3.4 `Tunnel` — the intermediate process

`Tunnel.tla` composes `BtFifo` (by `INSTANCE`) with `buffered_tunnel_pipe` and
the restart loop of `stream_dvr_subprocess_to_pipe`.

* The DVR-session child writes numbered bytes into a pipe of `PipeCap` bytes
  and may exit at any time. Exiting raises `SIGCHLD` and makes the pipe report
  `POLLHUP`.
* One turn of the tunnel loop is two steps. `PollStep(out)` is `poll()` plus
  the FIFO-to-fd transfer. `InStep` is the fd-to-FIFO half, acting on the
  events `poll()` reported.
* `Restart` models destroying the child, which loses the bytes in its pipe and
  raises `SIGCHLD`, and forking a new one. The FIFO is kept.
* `HasTimeout` is `timeout_us != 0`.
* `ForkFails` and `Fatal` are the two ways out of the restart loop: a fork
  that fails, and a tunnel that returned < 0. Both reach `Flush`, the final
  `btfifo_fifo_to_fd` on `fd_out` after it was made blocking. It empties the
  FIFO while the base process reads, and does nothing once the base has left.
  The intermediate process then exits (`pc = "gone"`). The write is one step.
  The intermediate process's handlers use `sa_flags = 0`, so a signal could
  shorten that blocking write. The model cannot show this, and no property is
  stated about the flush.
* `base` is the base process. `BaseLeaves` is its way out of its loop for
  any reason (termination request, `SIGCHLD`, a demux, convert or write
  failure). `mptools_destroy_pipedfork` then closes its end of the pipe,
  sends `SIGTERM` and waits. `bfull` says whether the pipe still has room.
  From then on `PollBrokenPipe` is the only poll outcome. It reports `POLLERR`,
  plus `POLLOUT` if the FIFO holds data and the pipe has room: the write
  fails with `EPIPE` (`-101`) and the tunnel returns 4, a restart; otherwise
  it returns -5, fatal. `SIGTERM` is not modelled. In the intermediate
  process it only sets `sht_fl_terminate_nicely`, which nothing there reads.
  `BaseReaped` is `waitpid` returning once the intermediate process has
  exited.

Fairness:

* Weak fairness on `Poll`, `InStep` and `Restart`, because these loops never
  block on anything but `poll`.
* Strong fairness on `PollStep(TRUE)`, the FIFO-to-fd transfer, because the
  base process reads its pipe in a loop, so `POLLOUT` comes infinitely often.
* Weak fairness on `Fatal`, `Flush` and `BaseReaped`, which are plain steps
  of running processes.
* Weak fairness on the base leaving once the intermediate process is gone:
  its `poll_pipe_read` then reports `POLLHUP` and its loop breaks.
* No fairness for the child, because the DVR need not send.

| Run | Result | What it shows |
|-----|--------|---------------|
| `tunnel_delivery` (`MC_Tunnel.cfg`) | pass, 19 134 states | A 3-byte FIFO, a 2-byte pipe and 6 bytes in all, with forks that fail and a base process that may leave at any point. `NoFifoLoss`: across restarts the output is increasing, and every byte read from a pipe was written once or is still stored. Only the bytes in a destroyed child's pipe are missing. `Delivered`: every stored byte reaches the base process, unless the base has left. |
| `tunnel_base_gone` (`Tunnel_base_gone.cfg`) | violation | `BaseGoneEndsTunnel`: the base leaves while the FIFO holds a byte and its pipe has room. Every poll reports `POLLOUT` with `POLLERR`, the write fails with `EPIPE`, and the tunnel returns 4, a restart, forever, because the FIFO never empties. The base process waits in `waitpid` for ever. The comment at `dvrcontrol.c` 450-452 promises a return >= 100 when the parent broke the pipe. |

`Tunnel_stale_sigchld.cfg` is kept but is not a run: with `-e 0`, the
SIGCHLD of the destroyed child is still flagged, and TLC shows the next child
destroyed at its first quiet second although it is alive
(`RestartOnlyDeadChild`). The FIXME at `dvrcontrol.c:408` acknowledges it.

### 3.5 `MkvConvert` — collector, synthesizer and the per-frame loop

`MkvConvert.tla` models what happens to each frame the demultiplexer hands on
when the output is MKV (`dvrcontrol.c` 719-790):

* `ReadChunk` is a read that returned data. It zeroes `dtconv_ret` and starts
  the do-while over the frames of that read.
* `Frame` is one pass of that do-while, taken whole, in the code's order:
  * `Collect` is `dt_collect_dhav_frame_info`. It resets `frame_type`, then
    takes its early returns: a P-frame before the first I-frame, an I-frame
    with fps 0 (after storing the 0), audio, `0xf1` and unknown types. It then
    sets `has_v_parms` and `body_len`. `body_len` is taken modulo
    `2^SizeBits`, as `size_t` is.
  * `dt_tsproc_process` is next. From its second applicable frame on it
    divides by `dhav_fps`, and a 0 there kills the process (`fault`).
    `TsProc` models the rest of what it does.
  * `ConvertRet`, `Header` and `Cluster` are `dt_convert_frame_to_mkv`.
    `Written` is the bytes it really writes. A success that writes more than
    `sbuf_2` holds is an overrun, and the model stops there.
  * `main_mkv_header_pending` is cleared on a return of 0.
* `EndChunk` ends the do-while. The loop breaks if the last convert of the
  read failed.
* A frame is a record of the header fields the code reads: `type` (byte 4),
  `len`, `ext` (byte 22) and `fps`. The output is a sequence of header and
  cluster records.
* `fmt` is the identified format, fixed for a behaviour. For a raw H.264
  stream `CollectFor` calls `CollectRaw`, which is
  `dt_collect_raw_h264_frame_info`: it resets `frame_type`, takes the whole
  unit as the body, splits `0xb6` into I and P by bits 7-6 of byte 4, marks
  `0xf0` audio, and on a `0xfb` record sets fps 20 and `has_v_parms` (a
  height byte of 0 divides by zero, `RawDivByZero`). `ClockStep` is the clock
  that follows: because the test is the assignment `NAL_type = 0xb6`, every
  video frame and every configuration record steps it, the first one to 0.
  No timestamp correction runs for raw streams. A raw unit is a record
  `type`, `len`, `sel` (bits 7-6 of byte 4), `h` (the height byte).

The constants are those of the code: the 420-byte header and the 35-byte
cluster. The frames are tens of bytes long, so `STREAM_BUFFER_LEN` is scaled
with them to 479. At that size a first frame sent with the header may not fit,
so the convert returns -4, as a large I-frame can with 1000000 bytes. The
25-fps DHAV I-frame fits exactly. The 0-fps one does not, and neither does the
larger of the two raw I-frames. `size_t` is 24 bits wide. Every sum
stays below `2^24` unless `body_len` has wrapped, so a wrap shows the same way
as with 64 bits. At most 5 frames are handed on per behaviour, over 8 frame
kinds, which covers every order of an I-frame behind skipped frames. Deadlock is
not checked: once the loop breaks or the process dies, nothing more happens.

| Run | Result | What it shows |
|-----|--------|---------------|
| `mkv_stream` (`MC_MkvConvert.cfg`) | pass, 3 222 states | `HeaderFirstOnce`: the MKV file starts with exactly one header, whatever audio, text, early P-frames or first frames too large for the buffer (-4) come first. Every cluster carries the body length and key flag of the frame it was made from. This holds for valid and 0-fps I-frames, P-frames, audio, text, unknown types and a P-frame with a corrupt byte 22, in any order and split across reads, and for raw streams of I- and P-frames, configuration records, audio and `0xb2` units. `RawClockAdvances`: raw clusters carry strictly increasing timestamps. |
| `mkv_zero_fps` | violation | A valid I-frame, then an I-frame with fps 0, then a P-frame. The -1 is ignored and `has_v_parms` stays true, so timestamp correction divides by 0. |
| `mkv_overrun` | violation | The 16-byte span the demultiplexer accepts gives `body_len = -16` (wrapped). `whole_payload` wraps to 19 and passes the size check, and the `memcpy` copies about `2^64` bytes. |


`MkvConvert_raw_key.cfg` is kept but is not a run (it gave its place to
`tunnel_base_gone`). With it TLC shows, for raw H.264, that a `0xfb`
configuration record sets `has_v_parms`, so a P-frame after it is converted
and becomes the file's first cluster (`RawStartsWithKeyFrame`). Spec §3 and
§4.5 make the parameters known only with a key frame.

Not checked as a run: `dtconv_ret` is tested only after the do-while over
one read's frames (`dvrcontrol.c` 784), and each later frame of that read
overwrites it. A `-4` (a frame that does not fit `sbuf_2` together with the
420-byte header) is therefore forgotten when another frame follows in the same
read. Spec §7 calls that failure fatal. The model's `EndChunk` keeps this
behaviour, and `PROJECT.json` lists it as a hazard.

`MkvConvert_big_key.cfg` is kept but is not a run. It uses a buffer of 475, so
that the first valid DHAV I-frame does not fit with the header. TLC then shows
`HeaderDescribesKeyFrame` violated: that frame's -4 is not acted on. The
header stays pending, `has_v_parms` is already set, and the header goes out in
front of the next, smaller P-frame. The file then starts without a key frame.

### 3.6 `DvrSession` — the DVR streaming session and the wire protocol

`DvrSession.tla` models `stream_media_dvr_to_pipe` (`dvrcontrol.c` 74-345)
with `open_session` (92-193) in both protocol dialects, and the calls it
makes into `hlprotocol.c` and `llprotocol.c`. These are: login; in dialect 0
(`-a 0`), the pipelined system-information queries closed by a NOP; in
dialect 1 (`-a 1`), the OEM client's chatter; then the connection
relationship (0xf1), the media request (0x11), and the streaming loop of
wait, inner collect, control discard, keep-alive and timeout.

* The network is three sequences per connection (`C` control, `S` stream):
  `req` (requests the DVR has not served yet), `sock` (messages in the
  kernel socket) and `buf` (messages an earlier `fread` pulled into the
  stdio read-ahead buffer). `FRead` takes from `buf` first, otherwise takes
  the first socket message and may carry any number of those behind it into
  `buf`. `poll()` (`Wait`, `Inner`, `Discard`) looks at `sock` only, as the
  code does.
* A message is its command and one argument (`raw[8]` of a reply, the frame
  number of a 0xbc frame). `HeaderSkip` is `hlp_get_header` discarding a
  header with another command.
* Each client action is one stretch of the code between two reads or polls;
  `pc` names where the code is. `OnReadError` gives every read's failure
  exit and its `loopret`. `ka` and `to` are `spenttime` counters in ticks
  of the poll wait, saturating above their limit, since only `> limit` is
  asked.
* The DVR (`Serve`, `StreamFrame`, `Notify`) serves each connection's
  requests in order. A firmware (`fw`) may or may not answer 0xf1 and 0xa1,
  and answers 0xa4 only for the types in `Answered`. It streams `MaxFrames`
  frames after the 0x11 request, and may send `MaxNotes` unsolicited control
  messages. The OEM requests (0x83, 0xa3, 0xf4, 0x68) are answered or not
  as a whole (`fw.oem`).
* Dialect 1 (`OemSend`, `OemReply`) is a walk through `Chatter`. This is
  `open_session`'s list of calls: `hlp_get_work_alarm_status`,
  `hlp_get_system_information` for 1, 7, 2, 32, 4, 10, 2 and then 0..39,
  `hlp_get_media_capability`, `hlp_get_config_parameter`,
  `hlp_send_extension_string` and the 22 `hlp_set_alarm` calls, in the
  code's order. It is restricted to the infotypes (`InfoTypes`) and alarm
  types (`Alarms`) of the model. Each call sends its request and reads with
  `hlp_get_header` until its reply command (`IsReply`). For `hlp_set_alarm`
  the reply must also carry the alarm type. Its operation-type test reads
  `ll_header_out.raw[8]`, the request's own field, which is always 2, so it
  tests nothing. `open_session` ignores every result (`Advance`). A read that
  fails on `SO_RCVTIMEO` moves on to the next call.
* `devinfo` maps each field of `t_devinfo` that the modelled infotypes reach
  to the `raw[8]` of the reply last copied into it (`NoInfo`: none, as left
  by `di_init`). `Writes` is the `switch` of
  `update_devinfo_from_system_information`. Case 11 (chipset) has no
  `break` and falls through into 19 (split screen) and 20 (language
  support). In dialect 0 every message read before the NOP reply is applied
  by its `raw[8]`, whatever its command.

Fairness: `WF_vars(ClientStep)`, since the process runs and `poll` and
`SO_RCVTIMEO` return; `WF_vars(Serve(c))` for each connection and
`WF_vars(StreamFrame)`, since the DVR serves what it is asked and sends the
frames it has. Notes and ticks are not forced. A blocked read fails
(`ReadFails`) only with `Timeout /= 0` and only when the connection is
`Silent`: nothing is owed on it. The DVR is assumed to answer within the
timeout.

| Run | Result | What it shows |
|-----|--------|---------------|
| `dvr_session` (`MC_DvrSession.cfg`) | pass, 26 356 states | Both dialects. `TypeOK`. `FramesInOrder`: written frames, then those in the read-ahead buffer, then those in the socket, are exactly the frames sent, in order. `SysinfoComplete`: once `open_session` has returned, the field of every infotype the firmware answers holds that infotype's own reply. Case 11 falls through into 19 and 20, and this holds only because both dialects ask in ascending order, so the replies of 19 and 20 come later and overwrite it. `SessionTerminates`: with a DVR timeout set, the session always ends, for every firmware. |
| `dvr_stale_poll` (`DvrSession_stale_poll.cfg`) | violation | `FramesDelivered`: with no DVR timeout, the read of frame 1 pulls frame 2 into the stdio buffer. `poll()` then sees an empty socket, and frame 2 is never written while the session runs, although the DVR is up and answers the keep-alives. |

Bounds: the infotypes are 11, 19 and 20, with 11 and 19 answered. That is the
fallthrough chain, and it gives both a reply and a missing reply inside the
pipelined batch and in the chatter. One alarm type. One note, three frames,
and `KeepAlive = 1`, `Timeout = 2`, so that the keep-alive fires before the
timeout and the timeout fires after a silent stretch. All eight firmware
behaviours are checked in both dialects.

`DvrSession_fallthrough.cfg` is kept but is not a run. With it TLC shows
`DevinfoFieldsOwn` violated: with 20 unanswered, `lang_sup` holds the
split-screen string of reply 19, and the same happens to `split_screen` when
19 is unanswered. Spec.md's open question on the missing `break` already
names this.

### 3.7 `StreamToFile` — the base process

`StreamToFile.tla` models the control of the base process of `tanidvr`:
* `main` in operation mode 1 (`tanidvr.c` 385-447);
* `stream_media_dvr_to_file` (`dvrcontrol.c` 578-812) with `poll_pipe_read`
  (74-89);
* the `SIGTERM` and `SIGCHLD` cases of `sht_handler` (`shtools.c` 50-76);
* `mptools_destroy_pipedfork`'s `waitpid`.

The data path is abstracted. `DhavDemux`, `MkvConvert` and `TsProc` model it.
Here a stream is a sequence of frames of `FrameLen` bytes. Each frame has a
kind, which says what the demultiplexer and the converter do with it:
* `ok`: converted with bytes;
* `skip`: conversion returns 2, nothing to write;
* `fail`: conversion fails;
* `huge`: the demultiplexer returns -3.

The intermediate process is seen only through the pipe. It writes bytes while
the pipe has room (`IntermWrite`). It may exit (`IntermExit`), which closes the
pipe and sets `sht_fl_sigchld`. The user may send `SIGTERM` at any time
(`SigTerm`).

The actions follow the code:
* `Start` is `main`'s failure exits (`SessionFails`) and the fork and set-up
  (`StreamSetup`).
* `IdPoll` and `IdRead` form the identification loop.
* `Poll`, `Read`, `Drain` (one turn of the do-while) and `Checks` (the five
  tests after it, in the code's order) form the streaming loop.
* `End` and `Reap` are `end_stream_process` and the `waitpid`.

`poll_pipe_read` returns 0 on a timeout and on `EINTR`, so `PollReadable` is
false only for `POLLHUP` with the pipe empty. `read()` then blocks on an empty
pipe whose writer is open (`Blocked`). The base process installs its handler
with `sa_flags = 0`, so a signal arriving while it is blocked makes `read()`
fail with `EINTR`, and the loop is left. A signal arriving just before the
call does not (`Interrupted`). `sht_fl_sigpipe` is tested at line 766 but never
set, because `SIGPIPE` is ignored.

Bounds: frames of 2 bytes, reads of up to 3 bytes and a 4-byte pipe. A read can
end inside a frame or hold more than one, and a drain can hand on two frames.
Streams have up to three frames of every kind. Both containers are checked,
and writes may fail.

Fairness: `WF_vars(BaseStep)`. The base process runs whenever it is not
blocked. Its poll always returns within 100 ms. The intermediate process, the
DVR and the user get no fairness.

| Run | Result | What it shows |
|-----|--------|---------------|
| `stream_to_file` (`MC_StreamToFile.cfg`) | pass, 165 696 states, about 10 s | `TypeOK`. `StopsPromptly`: once a termination request or the death of the intermediate process is flagged, at most one more frame is written, wherever the signal falls among the poll, the read and the writes of a drain. `ChildExitEndsLoop`: once the intermediate process has exited, `tanidvr` ends. This holds during format identification, while blocked in `read()`, and in the middle of a drain. |

Three cfgs are kept but are not runs, since every run slot is taken. Each
shows a disagreement between the code and what its comments or the
supervisor promise:
* `StreamToFile_term.cfg`: `TermHonoured` is violated. A `SIGTERM` that
  arrives while the DVR is silent and the base process is not blocked in a
  call is never acted on. The next poll times out, the `read()` blocks, and
  the flag is tested only after a read returns (`dvrcontrol.c` 715).
* `StreamToFile_tail.cfg`: `TailWritten` is violated. When the intermediate
  process exits on its own, after flushing its FIFO, the base process leaves
  at the first `POLLHUP`, or right after a frame written with
  `sht_fl_sigchld` set. The shortest trace is one whole frame, read during
  identification and never scanned, followed by a hang-up: nothing is
  written.
* `StreamToFile_convert.cfg`: `ConvertFailureEnds` is violated. A failing
  conversion followed by a good frame in the same read: `dtconv_ret` is
  overwritten, and the good frame is written (`dvrcontrol.c` 784).

`stream_media_dvr_to_file` returns 0 on every path out of its loop, although
its comment says non-zero means error. `main` ignores the result and exits
with 0 (`status` stays 0 unless `open_session` fails).

### 3.8 Mutants

Each property of a passing run is shown to catch a plausible bug in the code it
is about. The mutants are listed in `PROJECT.json`.

* `TsProc`: the 16-bit wrap dropped (`TypeOK`); the fast-drift correction not
  the tie-break without the
  `sdc_t_eff` adjustment (`DriftAccounted`).
* `DhavDemux`: the packing test off by one (`TypeOK`); the mirror check dropped
  (`FramesInOrder`); the raw frame length off by one (`next_NAL + 3`),
  so a frame is cut one byte short (`FramesInOrder`); `>=` instead of `>` in the "frame incomplete" test
  (`PipeEndDrained`); a short queue reported as "skipped" (`DrainTerminates`);
  `dhav2mkv` testing for end of file before the drain (`FileConverted`).
* `BtFifo`: `dpos` not wrapped at the end of the buffer (`TypeOK`); `dpos` not
  rewound after the first used region (`FifoRefined`).
* `Tunnel`: a fresh FIFO for every child (`NoFifoLoss`); `POLLOUT` asked for
  on free space instead of stored data (`Delivered`).
* `MkvConvert`: `body_len` computed as signed (`TypeOK`);
  `main_mkv_header_pending` cleared by a -4 too (`HeaderFirstOnce`); the reset of
  `frame_type` dropped (`ClusterIsItsFrame`); the raw clock's first-frame
  flag never cleared (`RawClockAdvances`).
* `StreamToFile`: a frame counted as whole once its first byte is queued
  (`TypeOK`); the flags not tested inside the drain (`StopsPromptly`);
  `POLLHUP` counted as readable, so the identification loop reads end of
  file for ever (`ChildExitEndsLoop`).
* `DvrSession`: the media reply accepted under any header (`TypeOK`); the
  stream connection drained in place of the control connection
  (`FramesInOrder`); the NOP sent before the system-information requests
  (`SysinfoComplete`); the DVR timeout reset by every poll
  (`SessionTerminates`).

## 4. Not modelled

* Logging, file writing, command-line parsing and name resolution (`log.c`,
  `filetools.c`, `network.c`) are pure I/O. `tanidvr.c`'s `main` in mode 1
  is modelled in `StreamToFile`, and its option parsing is not. They have no
  control-relevant state beyond success or failure, and the callers model that
  as a nondeterministic outcome. Of `network.c`, the stdio wrapping and
  `SO_RCVTIMEO` are modelled in `DvrSession`.
* The string contents of devinfo (`extract_string`), `hlp_get_channel_names`
  (commented out in `open_session`), and `hlp_logout` with
  `hlp_get_header_and_extdata`, which only it calls, are not modelled.
  `close_session` runs after the streaming loop has returned.
* In the raw collector, a configuration record with height 0 divides by zero
  (`mctools.c:807`). This is the same failure as the DHAV 0-fps run, and it is
  not given a run of its own.
* `dhav2mkv`'s loop is modelled in `DhavDemux`. Its command line and
  `main` are not: `main` ignores `process_dhav_stream`'s result and always
  exits with 0.
* Signal masking around `fork` (`sht_signalblock_mgr`) is not modelled. A
  signal blocked there is delivered at the unblock, which looks the same as
  one that arrives just after it. The fatal signals (`abort`) and the
  handler's log line are not modelled either.
* `tanidvr`'s operation mode 0 (`dump_device_information`) and option
  parsing (`process_command_line_arguments`) are not modelled. They only
  format and validate text.
* `poll()` errors in the intermediate process are not modelled.
* The exact MKV byte layout and string formatting (EBML element ids, the IEEE-754
  fps) are not modelled. Only lengths, the header-once flag and the keyframe
  flag are.
