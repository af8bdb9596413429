--------------------------- MODULE MC_StreamToFile ---------------------------
(* StreamToFile with frames of 2 bytes and reads of up to 3, so that a     *)
(* read can end inside a frame or hold more than one, and a pipe of 4     *)
(* bytes.  Streams of up to 3 frames of every kind.                       *)
EXTENDS StreamToFile

\* Streams of 1 to n frames of the kinds K.
MC_StreamsOf(K, n) == UNION {[1..m -> K] : m \in 1..n}

MC_Streams == MC_StreamsOf(Kinds, 3)

\* Streams the DVR sends without oversized frames.
MC_Plain == MC_StreamsOf({"ok", "skip"}, 3)
=============================================================================
