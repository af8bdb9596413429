-------------------------------- MODULE Fifo --------------------------------
(***************************************************************************)
(* What the btfifo of bufftools.c promises: a first-in first-out store of  *)
(* at most Cap bytes.  A transfer in appends the next bytes of the input   *)
(* stream (numbered 0, 1, ...); a transfer out hands the oldest stored     *)
(* bytes to the output in order.  "written" is everything handed out.      *)
(***************************************************************************)
EXTENDS Naturals, Sequences

CONSTANTS
    Cap,        \* bsize
    MaxBytes    \* length of the input stream

VARIABLES
    queue,      \* bytes stored, oldest first
    in,         \* bytes taken from the input so far
    written     \* bytes handed to the output so far

fvars == <<queue, in, written>>

FifoInit ==
    /\ queue = <<>>
    /\ in = 0
    /\ written = <<>>

\* btfifo_fd_to_fifo: take n > 0 more bytes of the input if they fit.
Put ==
    \E n \in 1..(Cap - Len(queue)) :
        /\ in + n <= MaxBytes
        /\ queue' = queue \o [i \in 1..n |-> in + i - 1]
        /\ in' = in + n
        /\ UNCHANGED written

\* btfifo_fifo_to_fd: hand the n > 0 oldest bytes to the output.
Get ==
    \E n \in 1..Len(queue) :
        /\ written' = written \o SubSeq(queue, 1, n)
        /\ queue' = SubSeq(queue, n + 1, Len(queue))
        /\ UNCHANGED in

FifoSpec == FifoInit /\ [][Put \/ Get]_fvars
=============================================================================
