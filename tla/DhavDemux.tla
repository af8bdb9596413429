----------------------------- MODULE DhavDemux -----------------------------
(***************************************************************************)
(* The byte queue (dstf_t) and the two frame demultiplexers of           *)
(* src/src/mctools.c, dstf_process_dhav_stream_to_frames and              *)
(* dstf_process_raw_h264_stream_to_frames, driven by the format            *)
(* identification and the read-and-drain loop of one of two programs:      *)
(* stream_media_dvr_to_file (dvrcontrol.c), reading the pipe from the      *)
(* intermediate process, and process_dhav_stream (dhav2mkv.c), the offline *)
(* converter, reading a file.                                              *)
(*                                                                         *)
(* Bytes are abstracted to tokens.  A DHAV frame of length L is            *)
(*     "D" x .. "L"(L) .. "d" .. "M"(L)                                    *)
(* where "D" is the first byte of the magic "DHAV", "L"(L) is the last     *)
(* byte of the little-endian reported length read at framep + 12 (so that  *)
(* the length is only known once its last byte is there), "d" is the       *)
(* first byte of the trailer magic "dhav" at offset L - 8 and "M"(L) the   *)
(* last byte of the mirrored length, the frame's last byte.  Every other   *)
(* byte is "x", which is neither 00 nor 01.  A raw H.264 unit is           *)
(*     "0" "0" "1" type payload..                                          *)
(* where "0" and "1" are the bytes 00 and 01, type is the NAL type byte    *)
(* ("b6", "fb", "f0", "b2") and the payload holds no 00 00 01; the         *)
(* "Dahua_ZH" string of the 0xb2 unit is the single token "Z".  A length   *)
(* read from a byte that is not a length field reads as Junk, a value      *)
(* larger than the queue.  Each token also carries the index of the piece  *)
(* of the stream it came from; the code never reads it, the properties do. *)
(*                                                                         *)
(* The queue array is kept whole, stale bytes included, because the code   *)
(* reads before the start of the queue when the reported length is below   *)
(* 8.                                                                      *)
(***************************************************************************)
EXTENDS Integers, Sequences, SequencesExt

CONSTANTS
    ScanLen,     \* 16 in the code: bytes needed to read the reported length
    TrailerLen,  \* 8 in the code: the "dhav" trailer with its mirrored length
    QueueMax,    \* sq_maxlen = T_MC_PARMS_DHAV_STF (1000000)
    MaxDst,      \* max_dst_len given by the caller (STREAM_BUFFER_LEN)
    ChunkMax,    \* largest read() from the pipe (STREAM_BUFFER_MAXPIPEREAD)
    FileChunk,   \* fread size of dhav2mkv (STREAM_IN_FREAD_GRANULARITY)
    Programs,    \* the programs: "tanidvr" and/or "dhav2mkv"
    Streams      \* the streams the DVR may send: sequences of pieces
                 \* [bytes, frame], frame the format the piece is a whole
                 \* frame of ("dhav" or "raw") or "none"

ASSUME /\ TrailerLen \in Nat \ {0}
       /\ ScanLen > TrailerLen
       /\ QueueMax >= ScanLen /\ ChunkMax \in 1..QueueMax
       /\ FileChunk \in 1..QueueMax
       /\ Programs \subseteq {"tanidvr", "dhav2mkv"}

Idx == 0..(QueueMax - 1)

\* A length field that is not there reads as an oversize length.
Junk == QueueMax + 1

Tok(k, v) == [k |-> k, v |-> v]

\* The bytes of a well-formed DHAV frame of length L.
FrameBytes(L) ==
    [i \in 1..L |->
        CASE i = 1 -> Tok("D", 0)
          [] i = ScanLen -> Tok("L", L)
          [] i = L - TrailerLen + 1 -> Tok("d", 0)
          [] i = L -> Tok("M", L)
          [] OTHER -> Tok("x", 0)]

\* The stream: the pieces, each byte tagged with the index of its piece.
Wire(pcs) ==
    FlattenSeq([p \in 1..Len(pcs) |->
        [j \in 1..Len(pcs[p].bytes) |->
            [k |-> pcs[p].bytes[j].k, v |-> pcs[p].bytes[j].v, id |-> p]]])

\* Bytes a read before the queue array may return (undefined behaviour).
OutOfBounds == {[k |-> "x", v |-> 0, id |-> 0], [k |-> "d", v |-> 0, id |-> 0],
                [k |-> "M", v |-> 0, id |-> 0]}

VARIABLES
    prog,       \* the program running the loop
    eof,        \* the loop has met the end of the input: dhav2mkv's
                \* fread returned 0, tanidvr's poll saw POLLHUP alone
    pieces,     \* the pieces of the stream the DVR sends
    wire,       \* Wire(pieces)
    pos,        \* bytes of the wire read from the pipe so far
    sq,         \* dstf->sq, the whole queue array
    sq_offs,    \* dstf->sq_offs
    sq_len,     \* dstf->sq_len
    dstf_ret,   \* result of the last dstf call, as the loop sees it
    fmt,        \* mc_format_in: "unknown" while it is being identified,
                \* then "dhav" or "raw"
    out,        \* history: the pieces handed on as frames, in order
    forged,     \* history: a span that is not one frame piece was handed on
    scanned     \* history: the demultiplexer has been called

vars == <<prog, eof, pieces, wire, pos, sq, sq_offs, sq_len, dstf_ret, fmt, out, forged,
          scanned>>

-----------------------------------------------------------------------------
(* Reading the queue *)

ReadLen(t) == IF t.k \in {"L", "M"} THEN t.v ELSE Junk

\* Byte at index i of the array; outside the array, any byte.
ByteAt(q, i, oob) == IF i \in Idx THEN q[i] ELSE oob

\* BT_IDeqLM_32('D','H','A','V', framep)
IsMagic(q, o, oob) == ByteAt(q, o, oob).k = "D"

\* Faulty variant: the mirrored length is not compared.
TrailerNoMirror(q, o, rep, oob) ==
    ByteAt(q, o + rep - TrailerLen, oob).k = "d"

\* The trailer checks: "dhav" at framep + rep - 8, mirror at + 4.
TrailerOK(q, o, rep, oob) ==
    /\ ByteAt(q, o + rep - TrailerLen, oob).k = "d"
    /\ ReadLen(ByteAt(q, o + rep - 1, oob)) = rep

Result(ret, o, n, flen) == [ret |-> ret, offs |-> o, len |-> n, flen |-> flen]

\* The inner skip loop: up to the next "DHAV" or fewer than 16 bytes.
RECURSIVE SkipToMagic(_, _, _, _)
SkipToMagic(q, o, n, oob) ==
    IF n >= ScanLen /\ ~IsMagic(q, o, oob) THEN SkipToMagic(q, o + 1, n - 1, oob)
                                           ELSE <<o, n>>

\* Faulty variants of DhavScan: a short queue reported as "skipped" rather
\* than "need more data", and a frame that exactly fills the queue taken
\* as incomplete.
RECURSIVE DhavScanShortSkips(_, _, _, _)
DhavScanShortSkips(q, o, n, oob) ==
    LET rep  == ReadLen(ByteAt(q, o + ScanLen - 1, oob))
        skip == LET s == SkipToMagic(q, o + 1, n - 1, oob)
                IN  IF s[2] < ScanLen THEN Result(3, s[1], s[2], 0)
                                      ELSE DhavScanShortSkips(q, s[1], s[2], oob)
    IN  CASE n < ScanLen -> Result(3, o, n, 0)
          [] ~IsMagic(q, o, oob) -> skip
          [] rep > QueueMax -> skip
          [] rep > n -> Result(0, o, n, 0)
          [] ~TrailerOK(q, o, rep, oob) -> skip
          [] MaxDst < rep -> Result(-3, o, n, 0)
          [] OTHER -> Result(1, o + rep, n - rep, rep)

RECURSIVE DhavScanFullWaits(_, _, _, _)
DhavScanFullWaits(q, o, n, oob) ==
    LET rep  == ReadLen(ByteAt(q, o + ScanLen - 1, oob))
        skip == LET s == SkipToMagic(q, o + 1, n - 1, oob)
                IN  IF s[2] < ScanLen THEN Result(3, s[1], s[2], 0)
                                      ELSE DhavScanFullWaits(q, s[1], s[2], oob)
    IN  CASE n < ScanLen -> Result(0, o, n, 0)
          [] ~IsMagic(q, o, oob) -> skip
          [] rep > QueueMax -> skip
          [] rep >= n -> Result(0, o, n, 0)
          [] ~TrailerOK(q, o, rep, oob) -> skip
          [] MaxDst < rep -> Result(-3, o, n, 0)
          [] OTHER -> Result(1, o + rep, n - rep, rep)

\* The scanning loop of dstf_process_dhav_stream_to_frames, from the
\* "while (1)" to the frame copy.  flen is the length of the frame found.
RECURSIVE DhavScan(_, _, _, _)
DhavScan(q, o, n, oob) ==
    LET rep  == ReadLen(ByteAt(q, o + ScanLen - 1, oob))
        skip == LET s == SkipToMagic(q, o + 1, n - 1, oob)
                IN  IF s[2] < ScanLen THEN Result(3, s[1], s[2], 0)
                                      ELSE DhavScan(q, s[1], s[2], oob)
    IN  CASE n < ScanLen -> Result(0, o, n, 0)
          [] ~IsMagic(q, o, oob) -> skip
          [] rep > QueueMax -> skip
          [] rep > n -> Result(0, o, n, 0)
          [] ~TrailerOK(q, o, rep, oob) -> skip
          [] MaxDst < rep -> Result(-3, o, n, 0)
          [] OTHER -> Result(1, o + rep, n - rep, rep)

\* The piece a frame handed on consists of: p when the span holds exactly
\* the bytes of the frame piece p, 0 otherwise (a spliced, partial or
\* empty span).
FrameOf(q, o, flen) ==
    LET ids == {q[i].id : i \in o..(o + flen - 1)}
    IN  IF flen > 0 /\ \E p \in 1..Len(pieces) :
                          /\ ids = {p}
                          /\ pieces[p].frame /= "none"
                          /\ Len(pieces[p].bytes) = flen
           THEN CHOOSE p \in ids : TRUE
           ELSE 0

-----------------------------------------------------------------------------
(* The raw H.264 demultiplexer *)

\* search_mpeg_NAL (q + o, len) from index i on: the offset of the first
\* 00 00 01 that starts below len - 2, or -1.
RECURSIVE SearchNALFrom(_, _, _, _)
SearchNALFrom(q, o, len, i) ==
    IF i >= len - 2 THEN -1
    ELSE IF q[o + i].k = "0" /\ q[o + i + 1].k = "0" /\ q[o + i + 2].k = "1"
            THEN i
            ELSE SearchNALFrom(q, o, len, i + 1)

search_mpeg_NAL(q, o, len) == SearchNALFrom(q, o, len, 0)

\* Faulty variant: frame_len = next_NAL + 3, one byte short of the next
\* start code.
RawScanShortFrame(q, o, n) ==
    LET s1 == search_mpeg_NAL(q, o, n)
        o2 == o + s1
        n2 == n - s1
        s2 == search_mpeg_NAL(q, o2 + 4, n2 - 4)
    IN  CASE n < 8 -> Result(0, o, n, 0)
          [] s1 < 0 -> Result(0, o + n, 0, 0)
          [] n2 < 8 -> Result(0, o2, n2, 0)
          [] s2 < 0 -> Result(0, o2, n2, 0)
          [] MaxDst < s2 + 3 -> Result(-3, o2, n2, 0)
          [] OTHER -> Result(1, o2 + s2 + 3, n2 - s2 - 3, s2 + 3)

\* dstf_process_raw_h264_stream_to_frames after the append: fewer than 8
\* bytes wait; without a start code the whole queue is dropped; garbage
\* before the first start code is skipped; the frame ends at the next
\* start code, searched for 4 bytes after the first (frame_len =
\* next_NAL + 4); a frame larger than max_dst_len fails with -3, the
\* garbage skip kept.
RawScan(q, o, n) ==
    LET s1 == search_mpeg_NAL(q, o, n)
        o2 == o + s1
        n2 == n - s1
        s2 == search_mpeg_NAL(q, o2 + 4, n2 - 4)
    IN  CASE n < 8 -> Result(0, o, n, 0)
          [] s1 < 0 -> Result(0, o + n, 0, 0)
          [] n2 < 8 -> Result(0, o2, n2, 0)
          [] s2 < 0 -> Result(0, o2, n2, 0)
          [] MaxDst < s2 + 4 -> Result(-3, o2, n2, 0)
          [] OTHER -> Result(1, o2 + s2 + 4, n2 - s2 - 4, s2 + 4)

-----------------------------------------------------------------------------
(* Appending to the queue *)

\* Faulty variant: the trailing free region is taken as one byte larger.
NeedsPackOffByOne(n) == n > QueueMax - (sq_len + sq_offs) + 1

\* The new bytes do not fit behind the valid ones: pack first (q_free).
NeedsPack(n) == n > QueueMax - (sq_len + sq_offs)

\* memcpy_overlap (sq_p, sq_p + sq_offs, sq_len): bytes move to the front,
\* the rest of the array keeps its stale bytes.
Pack(q, o, n) == [i \in Idx |-> IF i < n THEN q[o + i] ELSE q[i]]

\* Copy the chunk behind the valid bytes.
Load(q, at, chunk) ==
    [i \in Idx |-> IF at <= i /\ i < at + Len(chunk) THEN chunk[i - at + 1]
                                                      ELSE q[i]]

\* The scan of the demultiplexer the converter loop calls for the format:
\* raw H.264 once identified as such, DHAV otherwise.
Scan(q, o, n, oob) == IF fmt = "raw" THEN RawScan(q, o, n) ELSE DhavScan(q, o, n, oob)

\* One call of dstf_process_(dhav|raw_h264)_stream_to_frames with src =
\* chunk, as the converter loop makes it; both append alike.  The history
\* records the frame handed on.
DstfProcess(chunk) ==
    LET room   == QueueMax - sq_len
        packed == NeedsPack(Len(chunk))
        o1     == IF packed THEN 0 ELSE sq_offs
        q1     == IF packed THEN Pack(sq, sq_offs, sq_len) ELSE sq
        q2     == Load(q1, o1 + sq_len, chunk)
        n2     == sq_len + Len(chunk)
    IN  IF Len(chunk) > room
           THEN /\ dstf_ret' = -1
                /\ UNCHANGED <<sq, sq_offs, sq_len, out, forged>>
           ELSE \E oob \in OutOfBounds :
                  LET r == Scan(q2, o1, n2, oob)
                  IN  /\ sq' = q2
                      /\ sq_offs' = r.offs
                      /\ sq_len' = r.len
                      /\ dstf_ret' = r.ret
                      /\ LET f == FrameOf(q2, r.offs - r.flen, r.flen)
                         IN  /\ out' = IF r.ret = 1 /\ f /= 0 THEN Append(out, f) ELSE out
                             /\ forged' = (forged \/ (r.ret = 1 /\ f = 0))

-----------------------------------------------------------------------------
(* The converter loop of both programs.  It first loads chunks straight   *)
(* into the queue, without scanning, until identify_mc_format names the    *)
(* format or the queue has less than two reads of room left (dhav2mkv      *)
(* also stops at the end of the file); an unidentified stream is taken as  *)
(* DHAV.  Then it reads a chunk, calls the format's demultiplexer with it, *)
(* and calls it again with no new data while it returns > 0.  A negative   *)
(* result ends the loop.                                                   *)

\* Some valid byte is of kind k (find_bin_seq_in_mem).
Holds(q, o, n, k) == \E i \in o..(o + n - 1) : q[i].k = k

\* identify_mc_format: DHAV when "DHAV" and "dhav" both occur in the valid
\* bytes, else raw H.264 when "Dahua_ZH" does, else unknown.
Identified(q, o, n) ==
    CASE Holds(q, o, n, "D") /\ Holds(q, o, n, "d") -> "dhav"
      [] Holds(q, o, n, "Z") -> "raw"
      [] OTHER -> "unknown"

\* The read size the identification loop keeps room for.
ReadMax == IF prog = "dhav2mkv" THEN FileChunk ELSE ChunkMax

\* The sizes the next read may return: read() from the pipe returns any
\* 1..ChunkMax bytes that have arrived; fread of the file returns a full
\* FileChunk unless the file ends first.
ReadSizes ==
    IF prog = "dhav2mkv"
       THEN {IF Len(wire) - pos < FileChunk THEN Len(wire) - pos ELSE FileChunk} \ {0}
       ELSE 1..ChunkMax

\* The identification loop is over: the format is known, the room is short,
\* or (dhav2mkv) an fread has returned 0.
Converting ==
    \/ fmt /= "unknown"
    \/ QueueMax - sq_len < 2 * ReadMax
    \/ prog = "dhav2mkv" /\ pos = Len(wire)

\* After the identification loop: an unknown format is assumed to be DHAV.
FmtAfterIdentification == IF fmt = "unknown" THEN "dhav" ELSE fmt

Init ==
    /\ prog \in Programs
    /\ eof = FALSE
    /\ pieces \in Streams
    /\ wire = Wire(pieces)
    /\ pos = 0
    \* dstf_init: offs = len = 0; the array is never read before written
    /\ sq = [i \in Idx |-> [k |-> "x", v |-> 0, id |-> 0]]
    /\ sq_offs = 0
    /\ sq_len = 0
    /\ dstf_ret = 0
    /\ fmt = "unknown"
    /\ out = <<>>
    /\ forged = FALSE
    /\ scanned = FALSE

\* One read of the identification loop: the bytes are appended, not scanned.
Identify ==
    /\ ~Converting
    /\ \E k \in ReadSizes :
          LET q == Load(sq, sq_offs + sq_len, SubSeq(wire, pos + 1, pos + k))
          IN  /\ pos + k <= Len(wire)
              /\ pos' = pos + k
              /\ sq' = q
              /\ sq_len' = sq_len + k
              /\ fmt' = Identified(q, sq_offs, sq_len + k)
    /\ UNCHANGED <<prog, eof, pieces, wire, sq_offs, dstf_ret, out, forged, scanned>>

\* A read returns the next bytes of the stream.  Until the format is
\* settled, the demultiplexer called is the DHAV one.
Read ==
    /\ Converting
    /\ dstf_ret = 0
    /\ \E k \in ReadSizes :
          /\ pos + k <= Len(wire)
          /\ pos' = pos + k
          /\ DstfProcess(SubSeq(wire, pos + 1, pos + k))
    /\ fmt' = FmtAfterIdentification
    /\ scanned' = TRUE
    /\ UNCHANGED <<prog, eof, pieces, wire>>

\* dhav2mkv: fread returns 0 and the demultiplexer is called with no new
\* data; the loop is left once that call's drain is over, since
\* infread_ret <= 0 is tested after the do-while.
FileEofSkipsDrain ==
    /\ prog = "dhav2mkv"
    /\ Converting
    /\ UNCHANGED <<sq, sq_offs, sq_len, dstf_ret, out, forged, fmt, scanned>>

FileEof ==
    /\ prog = "dhav2mkv"
    /\ Converting
    /\ DstfProcess(<<>>)
    /\ fmt' = FmtAfterIdentification
    /\ scanned' = TRUE

\* tanidvr: the intermediate process has closed the pipe and it is empty, so
\* poll() reports POLLHUP alone, poll_pipe_read returns -2 and either loop,
\* the identification loop included, ends at once without calling the
\* demultiplexer.  While the writer stays open, read() blocks and nothing
\* happens.
PipeHangUp ==
    /\ prog = "tanidvr"
    /\ UNCHANGED <<sq, sq_offs, sq_len, dstf_ret, out, forged, fmt, scanned>>

\* The end of the input, as each program meets it.
ReadEof ==
    /\ pos = Len(wire)
    /\ ~eof
    /\ dstf_ret = 0
    /\ eof' = TRUE
    /\ FileEof \/ PipeHangUp
    /\ UNCHANGED <<prog, pieces, wire, pos>>

\* do { ... } while (dstf_ret > 0): call again with src_len = 0.
Drain ==
    /\ dstf_ret > 0
    /\ DstfProcess(<<>>)
    /\ UNCHANGED <<prog, eof, pieces, wire, pos, fmt, scanned>>

Next == Identify \/ Read \/ ReadEof \/ Drain

\* The loop calls the demultiplexer again at once while it returns > 0.
\* Nothing forces the DVR to send or the intermediate process to close the
\* pipe, and the other properties only ask what holds once the input has
\* ended, so no other step is fair.
Spec == Init /\ [][Next]_vars /\ WF_vars(Drain)

-----------------------------------------------------------------------------
(* Properties *)

Token == [k : {"D", "L", "d", "M", "x", "0", "1", "b6", "fb", "f0", "b2",
               "I", "P", "h", "Z"},
          v : 0..Junk, id : 0..Len(pieces)]

\* The byte queue invariant of spec section 3: the valid bytes lie inside
\* the array.
TypeOK ==
    /\ sq \in [Idx -> Token]
    /\ sq_offs \in Nat /\ sq_len \in Nat
    /\ sq_offs + sq_len <= QueueMax
    /\ pos \in 0..Len(wire)
    /\ dstf_ret \in {-3, -1, 0, 1, 3}
    /\ fmt \in {"unknown", "dhav", "raw"}
    /\ prog \in Programs /\ eof \in BOOLEAN
    /\ forged \in BOOLEAN /\ scanned \in BOOLEAN

\* The format the loop demultiplexes.
Mode == IF fmt = "raw" THEN "raw" ELSE "dhav"

\* The pieces of the stream that are whole frames of that format, in order.
ValidFrames == SelectSeq([p \in 1..Len(pieces) |-> p],
                         LAMBDA p : pieces[p].frame = Mode)

\* The frames the stream completes: a raw unit ends only where the next
\* start code begins, so the last raw unit is not complete.
CompleteFrames == IF Mode = "raw" /\ ValidFrames /= <<>>
                     THEN SubSeq(ValidFrames, 1, Len(ValidFrames) - 1)
                     ELSE ValidFrames

\* Frames handed to the collector are whole frames of the stream, in stream
\* order, none lost, duplicated or spliced from several pieces, however the
\* pipe chunks the stream and whatever garbage or truncated frames lie
\* between (spec sections 4.2 and 8).
FramesInOrder == ~forged /\ IsPrefix(out, ValidFrames)

\* When tanidvr leaves the loop because the pipe has hung up, every frame
\* the stream completes has been handed on, a last frame that exactly fills
\* the queue included, for DHAV and raw H.264 alike, provided the
\* demultiplexer has been called at all: bytes loaded by the identification
\* loop and never followed by another read are lost (StreamToFile_tail.cfg).
PipeEndDrained == (prog = "tanidvr" /\ eof /\ scanned) => out = CompleteFrames

\* dhav2mkv converts the whole file: once the read at the end of the file
\* has been made and its drain is over without error, every frame the file
\* completes has been handed on, the ones the identification loop loaded
\* without scanning included (process_dhav_stream breaks on
\* infread_ret <= 0 only after the drain of that last, empty read).
FileConverted == (prog = "dhav2mkv" /\ eof /\ dstf_ret = 0) => out = CompleteFrames

\* The do-while drain loop of the converter ends: a call that returns > 0
\* is eventually followed by one that returns 0 or an error.
DrainTerminates == (dstf_ret > 0) ~> (dstf_ret <= 0)

\* The session is never ended by the demultiplexer for a stream whose
\* reported lengths fit the queue (spec section 7: fatal only when a
\* reported length exceeds the capacity).
NoFatal == dstf_ret >= 0
=============================================================================
