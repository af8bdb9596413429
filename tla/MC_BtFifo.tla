------------------------------ MODULE MC_BtFifo ------------------------------
(* BtFifo with a 6-byte buffer (1048576 in stream_dvr_subprocess_to_pipe)  *)
(* and 24 input bytes, so the data wraps around the buffer several times    *)
(* and every split of a transfer across the wrap point occurs.             *)
EXTENDS BtFifo
=============================================================================
