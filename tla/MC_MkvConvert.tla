---------------------------- MODULE MC_MkvConvert -----------------------------
(* MkvConvert with a 24-bit size_t: every sum the code forms stays below   *)
(* 2^24 unless body_len has wrapped, so the wrap-around of a 64-bit size_t *)
(* shows the same way.  The frames are tens of bytes, not tens of          *)
(* kilobytes, so the cfgs scale STREAM_BUFFER_LEN (MaxDst) with them: at   *)
(* 479 a frame converted with the 420-byte main header may or may not fit, *)
(* as a large I-frame may not fit into 1000000 bytes with it.              *)
EXTENDS MkvConvert

MC_F(t, l, e, r) == [type |-> t, len |-> l, ext |-> e, fps |-> r]

\* Well-formed frames as the DVR sends them: I-frames at 25 fps and with
\* a 0 fps subfield, P-frames, audio, the 0xf1 text frames and an unknown
\* type, of different lengths, and a P-frame whose byte 22 is corrupt and
\* claims more extended header than the frame holds.
MC_Stream ==
    { MC_F("fd", 64, 8, 25), MC_F("fd", 72, 8, 0), MC_F("fc", 48, 0, 0),
      MC_F("fc", 56, 8, 0), MC_F("f0", 40, 0, 0), MC_F("f1", 44, 0, 0),
      MC_F("e0", 44, 0, 0), MC_F("fc", 64, 200, 0) }

\* A 16-byte span "DHAV" .. "dhav" 16 the demultiplexer accepts (its
\* length field doubles as the mirror), with byte 22 read past it as 0.
MC_Short == { MC_F("fd", 64, 8, 25), MC_F("fc", 16, 0, 0) }

\* Raw H.264 units: type, length, bits 7-6 of byte 4, height byte.
MC_R(t, l, sel, h) == [type |-> t, len |-> l, sel |-> sel, h |-> h]

\* The units of a Dahua_ZH stream: I-frames (one too large to go out with
\* the main header under MaxDst = 479) and P-frames, a configuration record
\* (1080 lines), audio and the inert 0xb2 unit.
MC_RawStream ==
    { MC_R("b6", 40, 0, 0), MC_R("b6", 20, 0, 0), MC_R("b6", 24, 1, 0), MC_R("fb", 12, 0, 135),
      MC_R("f0", 20, 0, 0), MC_R("b2", 12, 0, 0) }

MC_BothFormats == {"dhav", "raw"}
=============================================================================
