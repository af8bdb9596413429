------------------------------- MODULE Tunnel -------------------------------
(***************************************************************************)
(* The intermediate process: stream_dvr_subprocess_to_pipe starts the DVR  *)
(* session child, moves its bytes through the btfifo with                  *)
(* buffered_tunnel_pipe until that returns, destroys the child and starts  *)
(* a new one, keeping the FIFO (dvrcontrol.c 350-569).                     *)
(*                                                                         *)
(* The child writes numbered bytes into its pipe (PipeCap bytes at most)   *)
(* and may exit at any time; exiting raises SIGCHLD and closes the pipe    *)
(* (POLLHUP).  Destroying the child closes the pipe, so the bytes still in *)
(* it are lost.  The base process reads the output pipe when it pleases:   *)
(* poll() reports it writable or not.  One turn of the tunnel loop is two  *)
(* steps: the poll with the FIFO-to-fd transfer, then the fd-to-FIFO       *)
(* transfer, which acts on the events poll() reported.                     *)
(*                                                                         *)
(* The base process (stream_media_dvr_to_file) may leave its loop at any   *)
(* time (termination request, SIGCHLD, a demux, convert or write failure): *)
(* mptools_destroy_pipedfork then closes its end of the pipe, sends        *)
(* SIGTERM and waits for the intermediate process.  SIGTERM only sets      *)
(* sht_fl_terminate_nicely there (sht_init, SHT_BUFFER_PROC), which the     *)
(* intermediate process never reads, and interrupts poll() with nothing    *)
(* reported; so it has no effect and is not modelled.  From then on poll() *)
(* reports POLLERR on fd_out, with POLLOUT too if the pipe has room.       *)
(***************************************************************************)
EXTENDS Naturals, Sequences, FiniteSets

CONSTANTS
    BSize,       \* btfifo->bsize
    MaxBytes,    \* bytes all DVR sessions send in total
    PipeCap,     \* capacity of the pipe from the DVR session child
    HasTimeout   \* dvrctl->timeout_us != 0

VARIABLES
    b, dpos, dlen, in, written,   \* the btfifo, as in BtFifo
    sent,        \* bytes the children have written into their pipes
    child,       \* "running" or "exited" (pipe closed, zombie)
    sigchld,     \* sht_fl_sigchld
    pc,          \* "poll", "in" (after poll), "restart" (tunnel returned > 0),
                 \* "fatal" (returned < 0), "flush" (loop left) or "gone" (exited)
    rev,         \* what poll() reported on fd_in: "in", "hup" or "none"
    dropped,     \* history: bytes lost in the pipe of a destroyed child
    base,        \* the base process: "run", "closed" (in waitpid) or "exited"
    bfull        \* the pipe to the base process was full when it was closed

vars == <<b, dpos, dlen, in, written, sent, child, sigchld, pc, rev, dropped,
          base, bfull>>
env == <<base, bfull>>
fifo == <<b, dpos, dlen, in, written>>

F == INSTANCE BtFifo

\* The bytes stored in the FIFO, oldest first.
Window == F!Window

\* p_in->events: POLLIN is asked for only while the FIFO has room.
InEvents == BSize - dlen /= 0

\* Faulty variant: POLLOUT asked for while the FIFO has room.
OutEventsOnFree == BSize - dlen /= 0

\* p_out->events: POLLOUT is asked for only while the FIFO holds data.
OutEvents == dlen /= 0

Init ==
    /\ F!Init
    /\ sent = 0
    /\ child = "running"
    /\ sigchld = FALSE
    /\ pc = "poll"
    /\ rev = "none"
    /\ dropped = {}
    /\ base = "run"
    /\ bfull = FALSE

-----------------------------------------------------------------------------
(* The DVR session child (stream_media_dvr_to_pipe) as the tunnel sees it *)

\* write() into the pipe; it blocks while the pipe is full.
ChildWrite ==
    /\ child = "running"
    /\ \E k \in 1..(PipeCap - (sent - in)) :
          /\ sent + k <= MaxBytes
          /\ sent' = sent + k
    /\ UNCHANGED <<fifo, child, sigchld, pc, rev, dropped, env>>

\* The child ends (DVR dropped, error, _exit): SIGCHLD, pipe at EOF.
ChildExit ==
    /\ child = "running"
    /\ child' = "exited"
    /\ sigchld' = TRUE
    /\ UNCHANGED <<fifo, sent, pc, rev, dropped, env>>

-----------------------------------------------------------------------------
(* buffered_tunnel_pipe *)

\* poll(); then, on POLLOUT, btfifo_fifo_to_fd.  out is whether the base
\* process has room in its pipe.  With nothing reported, poll() times out:
\* with a timeout the tunnel returns 1, without one it returns 6 if
\* sht_fl_sigchld is set (clearing it) and polls again otherwise.
PollStep(out) ==
    LET inData == InEvents /\ sent > in
        hup    == child = "exited"
    IN  /\ pc = "poll" /\ base = "run"
        /\ out => OutEvents
        /\ IF ~inData /\ ~hup /\ ~out
              THEN /\ HasTimeout \/ sigchld
                   /\ pc' = "restart"
                   /\ sigchld' = (sigchld /\ HasTimeout)
                   /\ UNCHANGED <<fifo, rev>>
              ELSE /\ IF out THEN F!FifoToFd ELSE UNCHANGED fifo
                   /\ rev' = CASE inData -> "in" [] hup -> "hup" [] OTHER -> "none"
                   /\ pc' = "in"
                   /\ UNCHANGED sigchld
        /\ UNCHANGED <<sent, child, dropped, env>>

\* poll() once the base process has closed its end: POLLERR is always
\* reported, so poll() never times out.  With data in the FIFO and room in
\* the pipe POLLOUT is reported as well, btfifo_fifo_to_fd's write fails
\* with EPIPE (SIGPIPE is ignored) and returns -101, and the tunnel returns
\* 4, a recoverable condition.  Otherwise it returns -5.
PollBrokenPipe ==
    /\ pc = "poll" /\ base = "closed"
    /\ pc' = IF OutEvents /\ ~bfull THEN "restart" ELSE "fatal"
    /\ UNCHANGED <<fifo, sent, child, sigchld, rev, dropped, env>>

Poll == PollStep(TRUE) \/ PollStep(FALSE) \/ PollBrokenPipe

\* The fd_in half of the loop: read on POLLIN, return 10 on POLLHUP alone.
InStep ==
    /\ pc = "in"
    /\ CASE rev = "in"  -> F!FdToFifo(sent - in) /\ pc' = "poll"
         [] rev = "hup" -> pc' = "restart" /\ UNCHANGED fifo
         [] OTHER       -> pc' = "poll" /\ UNCHANGED fifo
    /\ rev' = "none"
    /\ UNCHANGED <<sent, child, sigchld, dropped, env>>

-----------------------------------------------------------------------------
(* stream_dvr_subprocess_to_pipe *)

\* Faulty variant: a new FIFO for every DVR session.
RestartFreshFifo ==
    /\ pc = "restart"
    /\ dropped' = dropped \cup in..(sent - 1)
    /\ in' = sent
    /\ dpos' = 0 /\ dlen' = 0
    /\ child' = "running"
    /\ sigchld' = TRUE
    /\ pc' = "poll"
    /\ UNCHANGED <<b, written, sent, rev, env>>

\* mptools_destroy_pipedfork closes the pipe (its bytes are lost), kills and
\* reaps the child, whose death raises SIGCHLD; then a new child is forked.
\* The FIFO is kept.
Restart ==
    /\ pc = "restart"
    /\ dropped' = dropped \cup in..(sent - 1)
    /\ in' = sent
    /\ child' = "running"
    /\ sigchld' = TRUE
    /\ pc' = "poll"
    /\ UNCHANGED <<b, dpos, dlen, written, sent, rev, env>>

\* The same destroy, then mptools_create_pipedfork fails: retcode 100, the
\* loop is left.
ForkFails ==
    /\ pc = "restart"
    /\ dropped' = dropped \cup in..(sent - 1)
    /\ in' = sent
    /\ child' = "none"
    /\ sigchld' = TRUE
    /\ pc' = "flush"
    /\ UNCHANGED <<b, dpos, dlen, written, sent, rev, env>>

\* The tunnel returned < 0: retcode 102; the child is destroyed and the
\* loop is left.
Fatal ==
    /\ pc = "fatal"
    /\ dropped' = dropped \cup in..(sent - 1)
    /\ in' = sent
    /\ child' = "none"
    /\ sigchld' = TRUE
    /\ pc' = "flush"
    /\ UNCHANGED <<b, dpos, dlen, written, sent, rev, env>>

\* Leaving the loop: fd_out is made blocking and one btfifo_fifo_to_fd
\* flushes the FIFO, both regions, unless the base process has closed the
\* pipe (EPIPE); then the intermediate process exits (_exit).
Flush ==
    /\ pc = "flush"
    /\ \/ /\ base = "run"
          /\ written' = written \o Window
          /\ dlen' = 0
          /\ dpos' = (dpos + dlen) % BSize
       \/ /\ base /= "run"
          /\ UNCHANGED <<dpos, dlen, written>>
    /\ pc' = "gone"
    /\ UNCHANGED <<b, in, sent, child, sigchld, rev, dropped, env>>

-----------------------------------------------------------------------------
(* The base process, stream_media_dvr_to_file *)

\* The base process leaves its loop and calls mptools_destroy_pipedfork:
\* its end of the pipe is closed, holding whatever it held, and it blocks
\* in waitpid.
BaseLeaves ==
    /\ base = "run"
    /\ base' = "closed"
    /\ bfull' \in BOOLEAN
    /\ UNCHANGED <<fifo, sent, child, sigchld, pc, rev, dropped>>

\* waitpid returns once the intermediate process has exited.
BaseReaped ==
    /\ base = "closed" /\ pc = "gone"
    /\ base' = "exited"
    /\ UNCHANGED <<fifo, sent, child, sigchld, pc, rev, dropped, bfull>>

Next == ChildWrite \/ ChildExit \/ Poll \/ InStep \/ Restart \/ ForkFails
        \/ Fatal \/ Flush \/ BaseLeaves \/ BaseReaped

\* The tunnel loop and the restart loop run whenever they can; the base
\* process reads its pipe in a loop, so POLLOUT is reported infinitely
\* often, and it sees the end of the intermediate process (POLLHUP, EOF or
\* SIGCHLD) and leaves.  Nothing obliges the DVR to send, the child to end,
\* a fork to fail or the base process to stop before that.
Spec == /\ Init /\ [][Next]_vars
        /\ WF_vars(Poll) /\ WF_vars(InStep) /\ WF_vars(Restart)
        /\ WF_vars(Fatal) /\ WF_vars(Flush) /\ WF_vars(BaseReaped)
        /\ WF_vars(pc = "gone" /\ BaseLeaves)
        /\ SF_vars(PollStep(TRUE))

-----------------------------------------------------------------------------
(* Properties *)

Elems(s) == {s[i] : i \in DOMAIN s}

\* The FIFO loses nothing across DVR-session restarts: every byte read from
\* a child's pipe has been written out in order, once, or is still stored;
\* the only bytes missing are those left in the pipe of a destroyed child.
NoFifoLoss ==
    /\ \A i \in 1..(Len(written) - 1) : written[i] < written[i + 1]
    /\ Elems(written) \cup Elems(Window) \cup dropped = 0..(in - 1)
    /\ Elems(written) \cap Elems(Window) = {}

\* Every byte that entered the FIFO is eventually written to the base
\* process.
Delivered == \A k \in 0..(MaxBytes - 1) :
                (k \in Elems(Window)) ~> (k \in Elems(written) \/ base /= "run")

\* Once the base process has left its loop and waits for the intermediate
\* process, the whole process tree ends: the comment of
\* stream_dvr_subprocess_to_pipe says it returns (>= 100) when the parent
\* broke the pipe, and the DVR-session child is destroyed on the way out.
BaseGoneEndsTunnel == (base = "closed") ~> (base = "exited")

\* With the timeout disabled and the base process reading, the tunnel gives
\* up on a child only when that child has died (buffered_tunnel_pipe's
\* comment: returns on a timeout or when something goes wrong).
RestartOnlyDeadChild ==
    [][(pc /= "restart" /\ pc' = "restart" /\ base = "run") => child = "exited"]_vars
=============================================================================
