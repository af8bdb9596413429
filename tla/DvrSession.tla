----------------------------- MODULE DvrSession -----------------------------
(***************************************************************************)
(* The DVR streaming session of the grandchild process:                   *)
(* stream_media_dvr_to_pipe (dvrcontrol.c) with open_session in either    *)
(* protocol dialect (-a 0: pipelined system information; -a 1: the OEM     *)
(* client's chatter), over the request/reply layer of hlprotocol.c and     *)
(* the framing layer of llprotocol.c.                                      *)
(*                                                                         *)
(* The client holds two TCP connections to the DVR, "C" (control) and      *)
(* "S" (stream).  Every connection is read through a stdio FILE            *)
(* (net_open fdopens the socket), so a message can be in one of three      *)
(* places on its way to the client: not yet served by the DVR (req),       *)
(* sent by the DVR and waiting in the socket (sock), or already pulled     *)
(* into the FILE's read-ahead buffer by an earlier fread (buf).  poll(),   *)
(* used by llp_check_incoming_data and llp_wait_for_incoming_data, sees    *)
(* only the socket.                                                        *)
(*                                                                         *)
(* A message is a whole header with its extdata; its payload is            *)
(* abstracted to one argument: raw[8] for a reply, the frame number for   *)
(* a 0xbc media frame.  Time is counted in ticks of the poll wait          *)
(* (timeout_hlp_wait = keep_alive); KeepAlive and Timeout are given in     *)
(* those ticks, 0 meaning "off" as in the code.                            *)
(***************************************************************************)
EXTENDS Naturals, Sequences

CONSTANTS
    InfoTypes,   \* system-information types in the model (the code asks 0..255)
    Answered,    \* the types this firmware answers with a 0xb4 reply
    Alarms,      \* alarm types of hlp_set_alarm in the model (the code has 22)
    Dialects,    \* dvrctl->net_protocol_dialect values: 0, 1
    NoteArgs,    \* raw[8] values of unsolicited control messages
    MaxNotes,    \* unsolicited control messages the DVR sends at most
    MaxFrames,   \* media frames the DVR sends before falling silent
    KeepAlive,   \* dvrctl->keep_alive_us, in ticks (0: off)
    Timeout,     \* dvrctl->timeout_us, in ticks (0: off)
    Firmwares    \* possible firmware behaviours, records [rel, ka, oem]

ASSUME /\ InfoTypes \subseteq 0..255 /\ Answered \subseteq InfoTypes
       /\ NoteArgs \subseteq 0..255 /\ Dialects \subseteq {0, 1}
       /\ KeepAlive \in Nat /\ Timeout \in Nat

Conn == {"C", "S"}

VARIABLES
    req,        \* per connection: requests sent, not yet served by the DVR
    sock,       \* per connection: messages in the kernel socket buffer
    buf,        \* per connection: messages in the stdio read-ahead buffer
    fw,         \* the DVR's firmware: replies to 0xf1 (rel) and 0xa1 (ka)?
    streaming,  \* the DVR has accepted the 0x11 media request
    sent,       \* frames the DVR has sent on "S"
    notes,      \* unsolicited messages the DVR has sent on "C"
    dialect,    \* dvrctl->net_protocol_dialect
    pc,         \* where stream_media_dvr_to_pipe is
    step,       \* dialect 1: the call of the chatter open_session is at
    devinfo,    \* per devinfo field: raw[8] of the reply copied into it
    written,    \* frame numbers written to the pipe, in order
    ka,         \* spenttime_get(&ka_timer), in ticks (saturating)
    to,         \* spenttime_get(&to_timer), in ticks (saturating)
    ret         \* loopret / return code of the session

net == <<req, sock, buf>>
dvr == <<fw, streaming, sent, notes>>
client == <<dialect, pc, step, devinfo, written, ka, to, ret>>
vars == <<net, dvr, client>>

Msg(c, a) == [cmd |-> c, arg |-> a]

\* Send appends requests to the connection; llp_send_header fwrites and
\* fflushes, so a request leaves the client at once.
Send(c, rs) == req' = [req EXCEPT ![c] = @ \o rs]

(***************************************************************************)
(* fread on the connection's FILE (llp_get_header and the extdata read     *)
(* that follows it): the next message comes from the read-ahead buffer if  *)
(* it holds one; otherwise read() takes the first message from the socket  *)
(* and may carry any number of the messages behind it into the buffer.     *)
(* NextMsg(c) is the message this read returns.                            *)
(***************************************************************************)
FRead(c) ==
    \/ /\ buf[c] /= <<>>
       /\ buf' = [buf EXCEPT ![c] = Tail(@)]
       /\ sock' = sock
    \/ /\ buf[c] = <<>>
       /\ sock[c] /= <<>>
       /\ \E k \in 1..Len(sock[c]) :
             /\ buf' = [buf EXCEPT ![c] = SubSeq(sock[c], 2, k)]
             /\ sock' = [sock EXCEPT ![c] = SubSeq(sock[c], k + 1, Len(sock[c]))]

NextMsg(c) == IF buf[c] /= <<>> THEN Head(buf[c]) ELSE Head(sock[c])

\* fread blocks: nothing in the buffer and nothing in the socket.
Blocked(c) == buf[c] = <<>> /\ sock[c] = <<>>

\* hlp_get_header returns once it has read a header with the expected
\* command.
GotHeader(c, expected) ==
    /\ ~Blocked(c)
    /\ NextMsg(c).cmd = expected
    /\ FRead(c)

\* The reading states, the connection each reads, and what the code does
\* when fread fails there (SO_RCVTIMEO expired): the next pc and loopret.
ReadConn == [login_r |-> "C", sysinfo_r |-> "C", oem_r |-> "C",
             media_r |-> "S", inner_r |-> "S", ka_r |-> "C"]
OnReadError == [login_r |-> <<"done", 4>>, sysinfo_r |-> <<"rel", 0>>,
                media_r |-> <<"done", 3>>, inner_r |-> <<"done", 6>>,
                ka_r |-> <<"done", 8>>]

\* The command hlp_get_header waits for in each reading state.
Expected == [login_r |-> "b0", media_r |-> "bc", inner_r |-> "bc", ka_r |-> "b1"]

\* Saturating tick of a spenttime counter: only "> limit" is ever asked.
Tick(x, limit) == IF x > limit THEN x ELSE x + 1

KaExpired == KeepAlive /= 0 /\ ka > KeepAlive
ToExpired == Timeout /= 0 /\ to > Timeout

-----------------------------------------------------------------------------
(* update_devinfo_from_system_information *)

\* The devinfo fields, each named by the infotype whose case copies into it
\* (case 2 sets hd_type from raw[13], the others extract_string the
\* extdata).
Stored == {2, 7, 8, 11, 19, 20, 26, 27, 29, 30, 31, 33, 39}

\* The fields a reply with raw[8] = t writes: case 11 (chipset) has no
\* break and falls through into 19 (split screen), and 19 into 20
\* (language support).
Writes ==
    [t \in 0..255 |-> CASE t = 11 -> {11, 19, 20}
                       [] t = 19 -> {19, 20}
                       [] t \in Stored -> {t}
                       [] OTHER -> {}]

\* di_init clears every field; NoInfo (no raw[8] value) marks a field no
\* reply has written.
NoInfo == 256
Fields == Stored \cap InfoTypes
DiInit == [f \in Fields |-> NoInfo]

\* devinfo after update_devinfo_from_system_information of a reply whose
\* raw[8] is t.
Updated(d, t) == [f \in DOMAIN d |-> IF f \in Writes[t] THEN t ELSE d[f]]

Init ==
    /\ req = [c \in Conn |-> <<>>]
    /\ sock = [c \in Conn |-> <<>>]
    /\ buf = [c \in Conn |-> <<>>]
    /\ fw \in Firmwares
    /\ streaming = FALSE
    /\ sent = 0
    /\ notes = 0
    /\ dialect \in Dialects
    /\ pc = "login"
    /\ step = 1
    /\ devinfo = DiInit
    /\ written = <<>>
    /\ ka = 0
    /\ to = 0
    /\ ret = 0

-----------------------------------------------------------------------------
(* open_session: login, then the dialect's exchange *)

\* hlp_open of the control connection, then hlp_login sends 0xa0.  A
\* failed connect makes open_session fail: the session returns 4.
Login ==
    /\ pc = "login"
    /\ \/ /\ Send("C", <<Msg("a0", 0)>>)
          /\ pc' = "login_r"
          /\ UNCHANGED ret
       \/ /\ pc' = "done" /\ ret' = 4
          /\ UNCHANGED req
    /\ UNCHANGED <<sock, buf, dvr, dialect, step, devinfo, written, ka, to>>

\* hlp_login waits for 0xb0; raw[8] /= 0 is a refused login (return 4).
\* Then open_session branches on net_protocol_dialect.
LoginReply ==
    /\ pc = "login_r"
    /\ GotHeader("C", "b0")
    /\ pc' = CASE NextMsg("C").arg /= 0 -> "done"
               [] dialect = 0 -> "sysinfo"
               [] OTHER -> "oem"
    /\ ret' = IF NextMsg("C").arg = 0 THEN 0 ELSE 4
    /\ UNCHANGED <<dialect, step, devinfo, written, ka, to>>
    /\ UNCHANGED <<req, dvr>>

\* The requests of the model among those the code sends: 0xa4 for the
\* modelled infotypes, 0x68 for the modelled alarm types, all others.
Modelled(r) ==
    /\ r.cmd = "a4" => r.arg \in InfoTypes
    /\ r.cmd = "68" => r.arg \in Alarms

\* hlp_get_system_information_multiple (devinfo, 0, 256): one 0xa4 per
\* infotype, 0 to 255 in order.
SysinfoRequests == SelectSeq([j \in 1..256 |-> Msg("a4", j - 1)], Modelled)

\* Faulty variant: the NOP goes out before the information requests.
SysinfoSendNopFirst ==
    /\ pc = "sysinfo"
    /\ Send("C", <<Msg("nop", 0)>> \o SysinfoRequests)
    /\ pc' = "sysinfo_r"
    /\ UNCHANGED <<sock, buf, dvr, dialect, step, devinfo, written, ka, to, ret>>

\* hlp_get_system_information_multiple: one 0xa4 request per infotype,
\* then a NOP whose reply marks the end of the replies.
SysinfoSend ==
    /\ pc = "sysinfo"
    /\ Send("C", SysinfoRequests \o <<Msg("nop", 0)>>)
    /\ pc' = "sysinfo_r"
    /\ UNCHANGED <<sock, buf, dvr, dialect, step, devinfo, written, ka, to, ret>>

\* Read replies until the NOP reply; every other message, whatever its
\* command, goes to update_devinfo_from_system_information by its raw[8].
SysinfoReply ==
    /\ pc = "sysinfo_r"
    /\ FRead("C")
    /\ IF NextMsg("C").cmd = "nop_r"
          THEN pc' = "rel" /\ devinfo' = devinfo
          ELSE pc' = pc /\ devinfo' = Updated(devinfo, NextMsg("C").arg)
    /\ UNCHANGED <<dialect, step, written, ka, to, ret>>
    /\ UNCHANGED <<req, dvr>>

(* Dialect 1: the OEM client's chatter, one hlp_* call at a time. *)

\* The request command of each call and the reply command hlp_get_header
\* waits for.
GetWorkAlarmStatus == [req |-> "a1", reply |-> "b1"]
GetSystemInformation == [req |-> "a4", reply |-> "b4"]
GetMediaCapability == [req |-> "83", reply |-> "83"]
GetConfigParameter == [req |-> "a3", reply |-> "b3"]
SendExtensionString == [req |-> "f4", reply |-> "f4"]
SetAlarm == [req |-> "68", reply |-> "69"]
Calls == {GetWorkAlarmStatus, GetSystemInformation, GetMediaCapability,
          GetConfigParameter, SendExtensionString, SetAlarm}
ReplyOf(cmd) == (CHOOSE f \in Calls : f.req = cmd).reply

Call(f, a) == Msg(f.req, a)

\* The alarm types of the SETALARM lines, in order.
AlarmOrder == <<1, 2, 3, 4, 5, 6, 7, 8, 9, 10, 11, 12, 13, 14, 15, 16,
                18, 19, 20, 156, 161, 162>>

\* open_session's calls in dialect 1, restricted to the model.
Chatter ==
    SelectSeq(
        << Call(GetWorkAlarmStatus, 0),
           Call(GetSystemInformation, 1), Call(GetSystemInformation, 7),
           Call(GetSystemInformation, 2),
           Call(GetMediaCapability, 0), Call(GetMediaCapability, 1),
           Call(GetConfigParameter, 16),
           Call(GetSystemInformation, 32), Call(GetSystemInformation, 4),
           Call(SendExtensionString, 0),
           Call(GetSystemInformation, 10), Call(GetSystemInformation, 2) >>
        \o [i \in 1..22 |-> Call(SetAlarm, AlarmOrder[i])]
        \o [j \in 1..40 |-> Call(GetSystemInformation, j - 1)]
        \o << Call(GetWorkAlarmStatus, 0) >>,
        Modelled)

\* Each call sends its request ...
OemSend ==
    /\ pc = "oem"
    /\ Send("C", <<Chatter[step]>>)
    /\ pc' = "oem_r"
    /\ UNCHANGED <<sock, buf, dvr, dialect, step, devinfo, written, ka, to, ret>>

\* ... and reads headers until its reply: the reply command and, in
\* hlp_set_alarm, the alarm type subscribed to.  hlp_set_alarm's test of
\* the operation type reads ll_header_out.raw[8], which is always 2, so a
\* reply's operation type is never looked at.
IsReply(m) ==
    /\ m.cmd = ReplyOf(Chatter[step].cmd)
    /\ Chatter[step].cmd = "68" => m.arg = Chatter[step].arg

\* open_session ignores every call's result and goes on with the next
\* call; after the last one, open_session returns 0.
Advance ==
    /\ step' = IF step < Len(Chatter) THEN step + 1 ELSE step
    /\ pc' = IF step < Len(Chatter) THEN "oem" ELSE "rel"

\* The reply is read with its extdata; a 0xb4 reply updates devinfo.
OemReply ==
    /\ pc = "oem_r"
    /\ ~Blocked("C") /\ IsReply(NextMsg("C"))
    /\ FRead("C")
    /\ devinfo' = IF NextMsg("C").cmd = "b4"
                    THEN Updated(devinfo, NextMsg("C").arg) ELSE devinfo
    /\ Advance
    /\ UNCHANGED <<req, dvr, dialect, written, ka, to, ret>>

\* hlp_get_header: a header with another command (in hlp_set_alarm,
\* another alarm type) is discarded with its extdata, and the loop reads
\* on.  Awaited(m): m is what the reading state waits for.
Awaited(m) == IF pc = "oem_r" THEN IsReply(m) ELSE m.cmd = Expected[pc]

HeaderSkip ==
    /\ pc \in DOMAIN Expected \cup {"oem_r"}
    /\ ~Blocked(ReadConn[pc])
    /\ ~Awaited(NextMsg(ReadConn[pc]))
    /\ FRead(ReadConn[pc])
    /\ UNCHANGED <<req, dvr, client>>

-----------------------------------------------------------------------------
(* stream_media_dvr_to_pipe *)

\* hlp_open of the stream connection (failure: return 1), then
\* hlp_connection_relationship sends 0xf1 on it and reads no reply.
Relationship ==
    /\ pc = "rel"
    /\ \/ /\ Send("S", <<Msg("f1", 0)>>)
          /\ pc' = "media"
          /\ UNCHANGED ret
       \/ /\ pc' = "done" /\ ret' = 1
          /\ UNCHANGED req
    /\ UNCHANGED <<sock, buf, dvr, dialect, step, devinfo, written, ka, to>>

\* hlp_media_data_request sends 0x11 on the control connection ...
MediaRequest ==
    /\ pc = "media"
    /\ Send("C", <<Msg("11", 0)>>)
    /\ pc' = "media_r"
    /\ UNCHANGED <<sock, buf, dvr, dialect, step, devinfo, written, ka, to, ret>>

\* Faulty variant: the media reply is read with llp_get_header, whatever
\* its command.
MediaReplyAnyHeader ==
    /\ pc = "media_r"
    /\ FRead("S")
    /\ written' = Append(written, NextMsg("S").arg)
    /\ pc' = "wait"
    /\ ka' = 0 /\ to' = 0
    /\ UNCHANGED <<dialect, step, devinfo, ret>>
    /\ UNCHANGED <<req, dvr>>

\* ... and takes the first 0xbc frame of the stream connection as its
\* reply; the frame is written to the pipe and both timers are set.
MediaReply ==
    /\ pc = "media_r"
    /\ GotHeader("S", "bc")
    /\ written' = Append(written, NextMsg("S").arg)
    /\ pc' = "wait"
    /\ ka' = 0 /\ to' = 0
    /\ UNCHANGED <<dialect, step, devinfo, ret>>
    /\ UNCHANGED <<req, dvr>>

\* hlp_wait_for_incoming_data polls both sockets for timeout_hlp_wait:
\* data on either leads to the inner loop ...
Wait ==
    /\ pc = "wait"
    /\ sock["C"] /= <<>> \/ sock["S"] /= <<>>
    /\ pc' = "inner"
    /\ UNCHANGED <<net, dvr, dialect, step, devinfo, written, ka, to, ret>>

\* Faulty variant: the DVR timeout is reset after every poll, data or not.
PollTimeoutResetsTimeout ==
    /\ pc = "wait"
    /\ sock["C"] = <<>> /\ sock["S"] = <<>>
    /\ ka' = Tick(ka, KeepAlive) /\ to' = 0
    /\ pc' = "ka_check"
    /\ UNCHANGED <<net, dvr, dialect, step, devinfo, written, ret>>

\* ... and a poll that times out lets a tick pass and goes straight to the
\* keep-alive check.
PollTimeout ==
    /\ pc = "wait"
    /\ sock["C"] = <<>> /\ sock["S"] = <<>>
    /\ ka' = Tick(ka, KeepAlive) /\ to' = Tick(to, Timeout)
    /\ pc' = "ka_check"
    /\ UNCHANGED <<net, dvr, dialect, step, devinfo, written, ret>>

\* while (hlp_check_incoming_data(conn_stream) > 0): the poll of the stream
\* socket resets the DVR timeout; when it reports nothing, the control
\* connection is drained.
Inner ==
    /\ pc = "inner"
    /\ \/ /\ sock["S"] /= <<>>
          /\ to' = 0
          /\ pc' = "inner_r"
       \/ /\ sock["S"] = <<>>
          /\ pc' = "discard"
          /\ UNCHANGED to
    /\ UNCHANGED <<net, dvr, dialect, step, devinfo, written, ka, ret>>

\* hlp_collect_media_data reads the next 0xbc frame, which is written to
\* the pipe; an expired keep-alive timer leaves the inner loop.
Collect ==
    /\ pc = "inner_r"
    /\ GotHeader("S", "bc")
    /\ written' = Append(written, NextMsg("S").arg)
    /\ pc' = IF KaExpired THEN "discard" ELSE "inner"
    /\ UNCHANGED <<dialect, step, devinfo, ka, to, ret>>
    /\ UNCHANGED <<req, dvr>>

\* Faulty variant: hlp_discard_incoming_data is called on the stream
\* connection.
DiscardStream ==
    /\ pc = "discard"
    /\ \/ /\ sock["S"] /= <<>>
          /\ FRead("S") /\ UNCHANGED client
       \/ /\ sock["S"] = <<>>
          /\ pc' = "ka_check"
          /\ UNCHANGED <<sock, buf, dialect, step, devinfo, written, ka, to, ret>>
    /\ UNCHANGED <<req, dvr>>

\* hlp_discard_incoming_data(conn_control): while poll reports data on the
\* control socket, read a header (from the read-ahead buffer first) and
\* discard it with its extdata.
Discard ==
    /\ pc = "discard"
    /\ \/ /\ sock["C"] /= <<>>
          /\ FRead("C") /\ UNCHANGED client
       \/ /\ sock["C"] = <<>>
          /\ pc' = "ka_check"
          /\ UNCHANGED <<sock, buf, dialect, step, devinfo, written, ka, to, ret>>
    /\ UNCHANGED <<req, dvr>>

\* An expired keep-alive timer sends hlp_keep_alive's 0xa1 request.
KaCheck ==
    /\ pc = "ka_check"
    /\ \/ /\ KaExpired
          /\ Send("C", <<Msg("a1", 0)>>)
          /\ pc' = "ka_r"
       \/ /\ ~KaExpired
          /\ pc' = "to_check"
          /\ UNCHANGED req
    /\ UNCHANGED <<sock, buf, dvr, dialect, step, devinfo, written, ka, to, ret>>

\* hlp_get_work_alarm_status waits for 0xb1; then the keep-alive timer is
\* set again.
KaReply ==
    /\ pc = "ka_r"
    /\ GotHeader("C", "b1")
    /\ ka' = 0 /\ pc' = "to_check"
    /\ UNCHANGED <<dialect, step, devinfo, written, to, ret>>
    /\ UNCHANGED <<req, dvr>>

\* An expired DVR timeout ends the session with loopret 9; otherwise the
\* loop polls again.
ToCheck ==
    /\ pc = "to_check"
    /\ pc' = IF ToExpired THEN "done" ELSE "wait"
    /\ ret' = IF ToExpired THEN 9 ELSE ret
    /\ UNCHANGED <<net, dvr, dialect, step, devinfo, written, ka, to>>

\* A blocked fread returns short once SO_RCVTIMEO (= timeout_us) expires.
\* The DVR is assumed to answer within that time when it has something to
\* send, so the read fails only when nothing is coming on the connection:
\* every request there is served and, on the stream connection, no more
\* frames are due.
Silent(c) ==
    /\ req[c] = <<>>
    /\ c = "S" => \/ streaming /\ sent = MaxFrames
                  \/ ~streaming /\ \A i \in DOMAIN req["C"] : req["C"][i].cmd /= "11"

ReadFails ==
    /\ pc \in DOMAIN ReadConn
    /\ Timeout /= 0
    /\ Blocked(ReadConn[pc]) /\ Silent(ReadConn[pc])
    /\ \/ /\ pc /= "oem_r"
          /\ pc' = OnReadError[pc][1] /\ ret' = OnReadError[pc][2]
          /\ UNCHANGED step
       \/ /\ pc = "oem_r"
          /\ Advance
          /\ UNCHANGED ret
    /\ UNCHANGED <<net, dvr, dialect, devinfo, written, ka, to>>

\* Time passes while the client is blocked in fread.
BlockedTick ==
    /\ pc \in DOMAIN ReadConn
    /\ Blocked(ReadConn[pc])
    /\ ka' = Tick(ka, KeepAlive) /\ to' = Tick(to, Timeout)
    /\ UNCHANGED <<net, dvr, pc, dialect, step, devinfo, written, ret>>

-----------------------------------------------------------------------------
(* The DVR *)

\* The DVR's answer to request r on connection c: logins are accepted or
\* refused (raw[8]); a 0xa4 is answered only for the types the firmware
\* knows; a NOP is answered on the control connection only (hlprotocol.c,
\* comment on hlp_get_header_and_extdata); 0xf1 and 0xa1 are answered as
\* the firmware does; 0x11 produces no reply of its own.  The OEM
\* chatter's other requests (0x83, 0xa3, 0xf4, 0x68) are answered or not
\* as the firmware does (fw.oem), a reply carrying the request's raw[8] /
\* alarm type.
Replies(c, r) ==
    CASE r.cmd = "a0"  -> {<<Msg("b0", 0)>>, <<Msg("b0", 1)>>}
      [] r.cmd = "a4"  -> {IF r.arg \in Answered THEN <<Msg("b4", r.arg)>> ELSE <<>>}
      [] r.cmd = "nop" -> {IF c = "C" THEN <<Msg("nop_r", 0)>> ELSE <<>>}
      [] r.cmd = "f1"  -> {IF fw.rel THEN <<Msg("f1r", 0)>> ELSE <<>>}
      [] r.cmd = "a1"  -> {IF fw.ka THEN <<Msg("b1", 0)>> ELSE <<>>}
      [] r.cmd = "11"  -> {<<>>}
      [] OTHER -> {IF fw.oem THEN <<Msg(ReplyOf(r.cmd), r.arg)>> ELSE <<>>}

\* The DVR serves the requests of each connection in order.  It starts
\* streaming only once the stream connection is tied to the session.
Serve(c) ==
    /\ req[c] /= <<>>
    /\ Head(req[c]).cmd = "11" => req["S"] = <<>>
    /\ \E rs \in Replies(c, Head(req[c])) :
          sock' = [sock EXCEPT ![c] = @ \o rs]
    /\ req' = [req EXCEPT ![c] = Tail(@)]
    /\ streaming' = (streaming \/ Head(req[c]).cmd = "11")
    /\ UNCHANGED <<buf, fw, sent, notes, client>>

\* The DVR pushes the next media frame onto the stream connection.
StreamFrame ==
    /\ streaming /\ sent < MaxFrames
    /\ sock' = [sock EXCEPT !["S"] = Append(@, Msg("bc", sent + 1))]
    /\ sent' = sent + 1
    /\ UNCHANGED <<req, buf, fw, streaming, notes, client>>

\* The DVR sends an unsolicited message on the control connection.
Notify ==
    /\ notes < MaxNotes
    /\ \E a \in NoteArgs :
          sock' = [sock EXCEPT !["C"] = Append(@, Msg("note", a))]
    /\ notes' = notes + 1
    /\ UNCHANGED <<req, buf, fw, streaming, sent, client>>

-----------------------------------------------------------------------------
ClientStep ==
    \/ Login \/ LoginReply \/ SysinfoSend \/ SysinfoReply \/ OemSend \/ OemReply
    \/ Relationship \/ MediaRequest \/ MediaReply
    \/ HeaderSkip \/ Wait \/ PollTimeout \/ Inner \/ Collect \/ Discard
    \/ KaCheck \/ KaReply \/ ToCheck \/ ReadFails

DvrStep == (\E c \in Conn : Serve(c)) \/ StreamFrame \/ Notify

Next == ClientStep \/ BlockedTick \/ DvrStep

\* Every client step is taken when it stays enabled (a running process;
\* poll and SO_RCVTIMEO return), and the DVR serves every request and
\* sends its frames.  Unsolicited messages and ticks are not forced.
Fairness ==
    /\ WF_vars(ClientStep)
    /\ \A c \in Conn : WF_vars(Serve(c))
    /\ WF_vars(StreamFrame)

Spec == Init /\ [][Next]_vars /\ Fairness

-----------------------------------------------------------------------------
(* Properties *)

Msgs == [cmd : {"b0", "b4", "nop_r", "f1r", "b1", "bc", "note", "83", "b3",
                "f4", "69"},
         arg : 0..255]
Reqs == [cmd : {"a0", "a4", "nop", "f1", "11", "a1", "83", "a3", "f4", "68"},
         arg : 0..255]
Pcs == {"login", "sysinfo", "rel", "media", "wait", "inner", "discard",
        "ka_check", "to_check", "done", "oem"} \cup DOMAIN ReadConn

TypeOK ==
    /\ req \in [Conn -> Seq(Reqs)]
    /\ sock \in [Conn -> Seq(Msgs)]
    /\ buf \in [Conn -> Seq(Msgs)]
    /\ streaming \in BOOLEAN /\ sent \in 0..MaxFrames /\ notes \in 0..MaxNotes
    /\ pc \in Pcs
    /\ dialect \in Dialects /\ step \in 1..Len(Chatter)
    /\ devinfo \in [Fields -> 0..NoInfo]
    /\ written \in Seq(1..MaxFrames)
    /\ ka \in 0..KeepAlive + 1 /\ to \in 0..Timeout + 1
    /\ ret \in {0, 1, 3, 4, 6, 8, 9}

\* The frame numbers of the media frames in a sequence of messages.
FramesIn(s) ==
    LET f == SelectSeq(s, LAMBDA m : m.cmd = "bc")
    IN  [i \in DOMAIN f |-> f[i].arg]

\* No frame is lost, duplicated or reordered between the DVR and the pipe:
\* what was written, then what waits in the stream connection's read-ahead
\* buffer, then what waits in its socket, is exactly the frames the DVR
\* sent, in order.  It depends on the stream connection being read only by
\* hlp_media_data_request / hlp_collect_media_data and on the read-ahead
\* buffer being consumed before the socket.
FramesInOrder ==
    written \o FramesIn(buf["S"]) \o FramesIn(sock["S"]) = [i \in 1..sent |-> i]

\* open_session has returned and the session is streaming.
Opened == pc \in {"rel", "media", "media_r", "wait", "inner", "inner_r",
                  "discard", "ka_check", "ka_r", "to_check"}

\* Once open_session has returned, in either dialect, the field of every
\* infotype the firmware answers holds that infotype's reply.  In dialect
\* 0 the pipelined requests are all answered before the NOP that closes
\* them; and although case 11 falls through into the fields of 19 and 20,
\* both dialects ask in ascending order, so an answer to 19 or 20 comes
\* after 11's and overwrites it.
SysinfoComplete ==
    Opened => \A t \in Answered \cap Stored : devinfo[t] = t

\* No devinfo field holds the reply of another infotype (each case of
\* update_devinfo_from_system_information fills its own field only).
DevinfoFieldsOwn ==
    Opened => \A f \in Fields : devinfo[f] \in {f, NoInfo}

\* With a DVR timeout set, the session always ends: a DVR that falls silent
\* is given up (loopret 9, or a failed read), so the parent restarts it.
SessionTerminates == <>(pc = "done")

\* Every frame the DVR sends is eventually written to the pipe, as long as
\* the session runs; a frame may only be lost with a session that ends.
FramesDelivered ==
    \A k \in 1..MaxFrames : (sent >= k) ~> (Len(written) >= k \/ pc = "done")

=============================================================================
