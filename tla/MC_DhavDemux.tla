--------------------------- MODULE MC_DhavDemux ----------------------------
(* DhavDemux scaled down for TLC.  The code needs 16 bytes to read the     *)
(* reported length and has an 8-byte trailer; here 3 and 2, so the         *)
(* shortest well-formed frame has 5 bytes.  The queue holds 12 bytes and a *)
(* read returns at most 3, the ratio QueueMax / ChunkMax = 4 of            *)
(* STREAM_BUFFER_LEN / STREAM_BUFFER_MAXPIPEREAD.  max_dst_len equals the  *)
(* queue size, as STREAM_BUFFER_LEN equals T_MC_PARMS_DHAV_STF.  The raw   *)
(* H.264 demultiplexer keeps the code's own constants (8 bytes before a    *)
(* search, the second search 4 bytes on); its shortest unit has 5 bytes.   *)
EXTENDS DhavDemux

MC_Frame(L) == [bytes |-> FrameBytes(L), frame |-> "dhav"]
MC_Garbage  == [bytes |-> <<Tok("x", 0)>>, frame |-> "none"]
\* The first n bytes of a frame of length L: a frame cut short.
MC_Cut(L, n) == [bytes |-> SubSeq(FrameBytes(L), 1, n), frame |-> "none"]

\* Streams of 1 to n pieces taken from P.
MC_StreamsOf(P, n) == UNION {[1..m -> P] : m \in 1..n}

\* A stream of frames, garbage and frames cut at the length field and at
\* the trailer.
MC_Benign == {MC_Frame(5), MC_Frame(6), MC_Garbage, MC_Cut(6, 2), MC_Cut(6, 5)}

\* A raw H.264 unit: start code, NAL type t, one payload byte x.
MC_Unit(t, x) == [bytes |-> <<Tok("0", 0), Tok("0", 0), Tok("1", 0), Tok(t, 0),
                             Tok(x, 0)>>,
                  frame |-> "raw"]

\* A raw stream as the DVR starts it: possibly a garbage byte, the 0xb2
\* unit carrying "Dahua_ZH" (or not), then video units (I and P) and a
\* configuration record.
MC_RawStreams ==
    { g \o <<z>> \o u :
        g \in {<<>>, <<MC_Garbage>>},
        z \in {MC_Unit("b2", "Z"), MC_Unit("b6", "I")},
        u \in UNION {[1..m -> {MC_Unit("b6", "I"), MC_Unit("b6", "P"),
                               MC_Unit("fb", "h")}] : m \in 0..2} }

MC_Mixed == MC_StreamsOf(MC_Benign, 4) \cup MC_RawStreams

\* Bytes "dhav" 0 "DHAV" .. 0: a header reporting length 0 preceded by a
\* trailer that mirrors it.
MC_ZeroLen == [bytes |-> <<Tok("d", 0), Tok("M", 0), Tok("D", 0), Tok("x", 0),
                          Tok("L", 0)>>, frame |-> "none"]
MC_Crafted == MC_StreamsOf({MC_Frame(5), MC_ZeroLen}, 3)

\* A well-formed frame whose length fits the queue but not a queue that
\* already holds part of it plus a full read.
MC_Large == MC_StreamsOf({MC_Frame(5), MC_Frame(11)}, 2)
=============================================================================
