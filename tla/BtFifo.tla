------------------------------- MODULE BtFifo -------------------------------
(***************************************************************************)
(* The circular byte FIFO of bufftools.c (btfifo_t) with its two transfer  *)
(* functions.  Each transfer may move any number of bytes up to the length *)
(* of the contiguous region it asks read() or write() for, and fills or    *)
(* drains the two regions of a wrapped buffer in two system calls.  Input  *)
(* bytes are numbered in stream order, so a stale or misplaced byte is     *)
(* visible in the output.  A call that returns -1, 0 or an error before    *)
(* moving a byte leaves the FIFO unchanged and is a stuttering step.       *)
(* The only caller sets BTFIFO_F_ASSUME_FD_READY and not BTFIFO_F_USE_WMIN, *)
(* so the preliminary poll and the wmin test are not modelled.             *)
(***************************************************************************)
EXTENDS Naturals, Sequences

CONSTANTS
    BSize,      \* btfifo->bsize
    MaxBytes    \* bytes the input fd delivers in total

ASSUME BSize \in Nat \ {0} /\ MaxBytes \in Nat

\* Content of a cell malloc() returned and nothing wrote yet.
Garbage == MaxBytes

Pos == 0..(BSize - 1)

VARIABLES
    b,          \* btfifo->b, the buffer
    dpos,       \* btfifo->dpos, start of the stored data
    dlen,       \* btfifo->dlen, bytes stored
    in,         \* bytes read from the input fd so far
    written     \* history: bytes written to the output fd, in order

vars == <<b, dpos, dlen, in, written>>

Lesser(x, y) == IF x < y THEN x ELSE y

\* read (fd, b + at, n) returning n: the next n input bytes from number
\* "from" on.
Fill(q, at, n, from) ==
    [i \in Pos |-> IF at <= i /\ i < at + n THEN from + (i - at) ELSE q[i]]

\* The n bytes write (fd, b + at, n) sends.
Bytes(at, n) == [i \in 1..n |-> b[at + i - 1]]

\* Start of the free region once the data ends at the buffer's end or wraps
\* (btfifo_fd_to_fifo, wpos of the last read).
WPos(len) == IF dpos = 0 THEN len ELSE dpos - (BSize - len)

Init ==
    /\ b = [i \in Pos |-> Garbage]
    /\ dpos = 0
    /\ dlen = 0
    /\ in = 0
    /\ written = <<>>

\* btfifo_fd_to_fifo, with avail bytes readable from the fd.  With stored
\* data neither at the start nor touching the end there are two free
\* regions: the one after the data is filled first, and only if the read
\* filled it is the one before the data read.
FdToFifo(avail) ==
    /\ BSize - dlen /= 0
    /\ LET two   == dpos /= 0 /\ dpos + dlen < BSize
           f1    == IF two THEN BSize - (dpos + dlen) ELSE BSize - dlen
           at1   == IF two THEN dpos + dlen ELSE WPos(dlen)
       IN  \E r1 \in 1..Lesser(f1, avail) :
             \E r2 \in 0..(IF two /\ r1 = f1 THEN Lesser(BSize - (dlen + r1), avail - r1)
                                             ELSE 0) :
               /\ b' = Fill(Fill(b, at1, r1, in), WPos(dlen + r1), r2, in + r1)
               /\ dlen' = dlen + r1 + r2
               /\ in' = in + r1 + r2
    /\ UNCHANGED <<dpos, written>>

\* Faulty variant: the first used region is left without moving dpos to the
\* start of the buffer.
FifoToFdTwoNoRewind ==
    LET u1 == BSize - dpos
    IN  \E w1 \in 1..u1 :
          IF w1 < u1
             THEN /\ written' = written \o Bytes(dpos, w1)
                  /\ dlen' = dlen - w1
                  /\ dpos' = dpos + w1
             ELSE \E w2 \in 0..(dlen - u1) :
                    /\ written' = written \o Bytes(dpos, u1) \o Bytes(dpos, w2)
                    /\ dlen' = dlen - u1 - w2
                    /\ dpos' = IF dpos + w2 = BSize THEN 0 ELSE dpos + w2

\* btfifo_fifo_to_fd on wrapped data: the region up to the end of the buffer
\* is written first; only if all of it went out is the region at the start
\* written.
FifoToFdTwo ==
    LET u1 == BSize - dpos
    IN  \E w1 \in 1..u1 :
          IF w1 < u1
             THEN /\ written' = written \o Bytes(dpos, w1)
                  /\ dlen' = dlen - w1
                  /\ dpos' = dpos + w1
             ELSE \E w2 \in 0..(dlen - u1) :
                    /\ written' = written \o Bytes(dpos, u1) \o Bytes(0, w2)
                    /\ dlen' = dlen - u1 - w2
                    /\ dpos' = IF w2 = BSize THEN 0 ELSE w2

\* Faulty variant: dpos is not brought back to 0 at the end of the buffer.
FifoToFdOneNoWrap ==
    \E w \in 1..dlen :
        /\ written' = written \o Bytes(dpos, w)
        /\ dlen' = dlen - w
        /\ dpos' = dpos + w

\* btfifo_fifo_to_fd on data in one region.  The reset of dpos for an empty
\* FIFO tests dlen before it is decreased, so it never fires.
FifoToFdOne ==
    \E w \in 1..dlen :
        /\ written' = written \o Bytes(dpos, w)
        /\ dlen' = dlen - w
        /\ dpos' = IF dpos + w = BSize THEN 0 ELSE dpos + w

FifoToFd ==
    /\ dlen /= 0
    /\ IF dpos /= 0 /\ dpos + dlen > BSize THEN FifoToFdTwo ELSE FifoToFdOne
    /\ UNCHANGED <<b, in>>

\* The input fd delivers the rest of the input stream.
Next == FdToFifo(MaxBytes - in) \/ FifoToFd

Spec == Init /\ [][Next]_vars

-----------------------------------------------------------------------------
(* Properties *)

\* The stored bytes, oldest first, read around the wrap point.
Window == [i \in 1..dlen |-> b[(dpos + i - 1) % BSize]]

TypeOK ==
    /\ b \in [Pos -> 0..Garbage]
    /\ dpos \in Pos
    /\ dlen \in 0..BSize
    /\ in \in 0..MaxBytes
    /\ written \in Seq(0..Garbage)

A == INSTANCE Fifo WITH Cap <- BSize, queue <- Window

\* The ring buffer with partial reads and writes over its two regions is a
\* FIFO of capacity bsize: every call moves bytes that Put or Get allows, so
\* the output is always a prefix of the input, never a stale, lost or
\* duplicated byte (the tunnel of buffered_tunnel_pipe relies on this).
FifoRefined == A!FifoSpec
=============================================================================
