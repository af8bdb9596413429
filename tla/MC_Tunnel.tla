------------------------------ MODULE MC_Tunnel ------------------------------
(* Tunnel with a 3-byte FIFO, a 2-byte pipe from the DVR session child and *)
(* 6 bytes in all: the FIFO fills and wraps, the pipe fills behind a full  *)
(* FIFO, and a child can die with bytes in its pipe.                       *)
EXTENDS Tunnel
=============================================================================
