---------------------------- MODULE VicomServer ----------------------------
(***************************************************************************)
(* The server, src/mainvicom_srv/mainvicom_srv.py: one handle_client       *)
(* coroutine per connection, the ffmpeg children and the audio socket that *)
(* all of them share in module globals, and the task that restarts a video *)
(* child that exited.                                                      *)
(*                                                                         *)
(* All run on one asyncio loop.  A handler that was resumed keeps the loop *)
(* until it suspends again, also in time.sleep: while one is Running no    *)
(* other resumes, no byte is read and no call rings.  A handler that meets *)
(* an exception dies where it is: what it started stays.                   *)
(*                                                                         *)
(* The call interface is seen through sip_status; its calls are those of   *)
(* DomruCall, of which StatusHasCall is used: while the status is 1 there  *)
(* is a call to accept or to decline.                                      *)
(***************************************************************************)
EXTENDS Integers, Sequences

CONSTANTS
  Conns,           \* connections the server will ever see
  None,            \* none of them
  KeepaliveLimit,  \* the 5 missed pings after which a panel is given up
  Lines,           \* what panels send: commands, and "p" for pong
  MaxLines,        \* bound: complete lines in a reader's buffer
  MaxCredit        \* bound: no "p" arrives at a higher keepalive_ctr

ASSUME ServerAssumption ==
  /\ None \notin Conns /\ KeepaliveLimit \in Nat /\ Lines \subseteq {"r", "a", "o", "d", "p"}
  /\ MaxLines \in Nat /\ MaxCredit \in Nat

VARIABLES
  conn,       \* the handlers with their reader and writer
  video,      \* ffmpeg_v_proc: none, running, or a list with a reaped process in it
  dest,       \* ffmpeg_v_proc_dest: whose address it is sent to, None without video
  audio,      \* ffmpeg_a_proc: none, the stream's sound, or the ring tone
  udp,        \* local_a_proc: none, the placeholder 1, or an open endpoint
  status      \* sip_status of the interface

vars == <<conn, video, dest, audio, udp, status>>
streams == <<video, dest, audio, udp>>

\* Where a handler is.  It holds the loop in the Running points ...
Running == {"greet", "decline", "poll", "leave", "finish"}
\* ... and is suspended in the others: in has_data, in stop_calls (which of the three
\* calls), in create_datagram_endpoint, in is_call_requested.
Suspended == {"wait", "hello", "hangup", "bye", "open", "register"}
Ended == {"done", "dead"}

\* The panel sends these with the NUL that ends the string.
Commands == {"r", "a", "o", "d"}

ConnType ==
  [pc: {"off"} \cup Running \cup Suspended \cup Ended,
   prev: {-1, 0, 1},                           \* prev_status
   told: {-1, 0, 1},                           \* the last s0, s1 or s2 written
   lines: Seq(Lines),                          \* the reader's buffer
   nul: BOOLEAN,                               \* before them, the NUL of a command
   woken: BOOLEAN,                             \* something came while in has_data
   link: {"up", "eof", "lost", "closed"},      \* lost: reset, closed: by us
   ctr: Int]                                   \* keepalive_ctr

NewConn == [pc |-> "off", prev |-> -1, told |-> -1, lines |-> <<>>, nul |-> FALSE,
            woken |-> FALSE, link |-> "up", ctr |-> 0]

Init ==
  /\ conn = [c \in Conns |-> NewConn]
  /\ video = "none" /\ dest = None /\ audio = "none" /\ udp = "none"
  /\ status \in {-1, 0}
-----------------------------------------------------------------------------
Busy == \E c \in Conns : conn[c].pc \in Running
Live(c) == conn[c].pc \notin {"off"} \cup Ended

At(c, pc) == conn[c].pc = pc /\ (pc \in Suspended => ~Busy)

Goes(c, pc)     == conn' = [conn EXCEPT ![c].pc = pc]
Becomes(c, new) == conn' = [conn EXCEPT ![c] = new]

\* A handler that left its loop; only its last prev_status is remembered.
Over(r, pc) == [NewConn EXCEPT !.pc = pc, !.prev = r.prev]

\* drain raises on a connection that was reset; it never waits for the panel.
Written(c, new) == IF conn[c].link = "lost" THEN Over(conn[c], "dead") ELSE new

\* Slip: the endpoint is left open.
StopProcSlip ==
  /\ video' = (IF video = "reaped" THEN "reaped" ELSE "none")
  /\ audio' = (IF video = "reaped" THEN audio ELSE "none")
  /\ dest' = (IF video = "reaped" THEN dest ELSE None)
  /\ UNCHANGED udp

\* The loop condition, then the assertion of _wait_for_data: after an EOF nothing may
\* wait, not even when the buffer still holds something.
Loop(new) ==
  LET atEof == new.link = "eof" /\ new.lines = <<>> /\ ~new.nul
  IN CASE new.link \in {"lost", "closed"} \/ atEof -> Over(new, "leave")
       [] new.link = "eof" /\ ~atEof -> Over(new, "dead")
       [] OTHER -> [new EXCEPT !.pc = "wait"]

\* stop_proc.  The process group of a reaped child is unknown, the placeholder has no
\* transport: both raise, and leave what comes after them alone.
StopProcRaises == video = "reaped" \/ udp = "pending"
StopProc ==
  /\ video' = (IF video = "reaped" THEN "reaped" ELSE "none")
  /\ audio' = (IF video = "reaped" THEN audio ELSE "none")
  /\ udp'   = (IF StopProcRaises THEN udp ELSE "none")
  /\ dest'  = (IF video = "reaped" THEN dest ELSE None)

StopProcThen(c, new) ==
  /\ StopProc
  /\ Becomes(c, IF StopProcRaises THEN Over(conn[c], "dead") ELSE new)

\* await stop_calls(): at once when no call has a session, else until the call is
\* hung up, which takes no time if somebody else hung it up already.
StopCalls(c, suspended, next) ==
  /\ \/ Goes(c, next) /\ UNCHANGED status
     \/ status = 1 /\ Goes(c, next) /\ status' = 0
     \/ status = 1 /\ Goes(c, suspended) /\ UNCHANGED status
  /\ UNCHANGED streams

AwaitsHangup(c) == conn[c].pc \in {"hello", "hangup", "bye"}

HangupReturns(c) ==
  /\ \/ At(c, "hello")  /\ Goes(c, "greet")
     \/ At(c, "hangup") /\ Goes(c, "decline")
     \/ At(c, "bye")    /\ Goes(c, "finish")
  /\ status' = 0
  /\ UNCHANGED streams

\* stop_calls raises, from a session that was to be closed before it was started.
HangupRaises(c) ==
  /\ AwaitsHangup(c) /\ At(c, conn[c].pc)
  /\ Becomes(c, Over(conn[c], "dead"))
  /\ UNCHANGED <<streams, status>>
-----------------------------------------------------------------------------
(* A connection begins and ends. *)

Connect(c) ==
  /\ conn[c].pc = "off" /\ ~Busy
  /\ StopCalls(c, "hello", "greet")

Greet(c) ==
  /\ At(c, "greet")
  /\ StopProcThen(c, Written(c, Loop(conn[c])))
  /\ UNCHANGED <<status>>

Leave(c) == At(c, "leave") /\ StopCalls(c, "bye", "finish")

\* Slip: the children are left to the next connection.
FinishSlip(c) ==
  /\ At(c, "finish") /\ Becomes(c, Over(conn[c], "done"))
  /\ UNCHANGED <<streams, status>>

Finish(c) ==
  /\ At(c, "finish")
  /\ StopProcThen(c, Over(conn[c], "done"))
  /\ UNCHANGED <<status>>
-----------------------------------------------------------------------------
(* has_data and the lines of the panel. *)

\* has_data raises what ended the connection while it waited.
DataLost(c) ==
  /\ At(c, "wait") /\ conn[c].woken /\ conn[c].link = "lost"
  /\ Becomes(c, Over(conn[c], "dead"))
  /\ UNCHANGED <<streams, status>>

\* 0.1 s are over.  If something came in the same turn of the loop it stays in the
\* buffer, where no later has_data looks.
NoData(c) ==
  /\ At(c, "wait")
  /\ Becomes(c, [conn[c] EXCEPT !.pc = "poll", !.woken = FALSE])
  /\ UNCHANGED <<streams, status>>

\* Something came: readline takes one line of it, and the NUL before it.
HasData(c) == At(c, "wait") /\ conn[c].woken /\ conn[c].link # "lost"
Reads(c, line) == HasData(c) /\ conn[c].lines # <<>> /\ Head(conn[c].lines) = line
AfterLine(c, pc) == [conn[c] EXCEPT !.pc = pc, !.woken = FALSE, !.lines = Tail(@),
                                    !.nul = Head(conn[c].lines) \in Commands]

ReadEof(c) ==
  /\ HasData(c) /\ conn[c].lines = <<>>
  /\ Becomes(c, [conn[c] EXCEPT !.pc = "poll", !.woken = FALSE, !.nul = FALSE])
  /\ UNCHANGED <<streams, status>>

Sound(c) == IF conn[c].prev = 1 THEN "ring" ELSE "loop"

\* "r": the picture, if the provider gives a stream, and a sound in any case.  Children
\* that run are not started again.
ShowOffline(c) ==
  /\ Reads(c, "r") /\ conn[c].prev = -1
  /\ Becomes(c, AfterLine(c, "poll"))
  /\ UNCHANGED <<streams, status>>

Show(c) ==
  /\ Reads(c, "r") /\ conn[c].prev # -1
  /\ \/ video' = video /\ dest' = dest
     \/ video = "none" /\ video' = "running" /\ dest' = c
  /\ audio' = IF audio = "none" THEN Sound(c) ELSE audio
  /\ Becomes(c, AfterLine(c, "poll"))
  /\ UNCHANGED <<udp, status>>

\* stream_request or open_door raises.
RequestRaises(c) ==
  /\ Reads(c, "o") \/ (Reads(c, "r") /\ conn[c].prev # -1)
  /\ Becomes(c, Over(conn[c], "dead"))
  /\ UNCHANGED <<streams, status>>

OpenDoor(c) ==
  /\ Reads(c, "o") /\ Becomes(c, AfterLine(c, "poll"))
  /\ UNCHANGED <<streams, status>>

AcceptIdle(c) ==
  /\ Reads(c, "a") /\ conn[c].prev # 1
  /\ Becomes(c, AfterLine(c, "poll"))
  /\ UNCHANGED <<streams, status>>

\* The call is gone: the panel is told, prev_status stays.
AcceptLate(c) ==
  /\ Reads(c, "a") /\ conn[c].prev = 1 /\ status # 1
  /\ Becomes(c, [AfterLine(c, "poll") EXCEPT !.told = 0])
  /\ UNCHANGED <<streams, status>>

\* Slip: the placeholder is not looked at.
EndpointExistsSlip == udp = "open"
EndpointExists == udp # "none"

\* The call is accepted; the endpoint for the microphone is created unless there is one,
\* or one is being created.  When its port cannot be bound the placeholder stays.
Accept(c) ==
  /\ Reads(c, "a") /\ conn[c].prev = 1 /\ status = 1
  /\ audio' = "loop"
  /\ IF EndpointExists
     THEN udp' = udp /\ Becomes(c, AfterLine(c, "poll"))
     ELSE /\ udp' = "pending"
          /\ \E new \in {AfterLine(c, "open"), Over(conn[c], "dead")} : Becomes(c, new)
  /\ UNCHANGED <<video, dest, status>>

OpenReturns(c) ==
  /\ At(c, "open")
  /\ udp' = "open"
  /\ Becomes(c, Written(c, [conn[c] EXCEPT !.pc = "poll"]))
  /\ UNCHANGED <<video, dest, audio, status>>

\* "d": the call is hung up if it was answered, else declined; all streams end.
HangUp(c) ==
  /\ Reads(c, "d")
  /\ \/ status' = status /\ Becomes(c, AfterLine(c, "decline"))
     \/ status = 1 /\ status' = 0 /\ Becomes(c, AfterLine(c, "decline"))
     \/ status = 1 /\ status' = 1 /\ Becomes(c, AfterLine(c, "hangup"))
  /\ UNCHANGED streams

Decline(c) ==
  /\ At(c, "decline")
  /\ status' = IF conn[c].prev = 1 /\ status = 1 THEN 0 ELSE status
  /\ StopProcThen(c, [conn[c] EXCEPT !.pc = "poll"])

Ponged(ctr) == (IF ctr < 0 THEN 0 ELSE ctr) + 1

Pong(c) ==
  /\ Reads(c, "p")
  /\ Becomes(c, [AfterLine(c, "poll") EXCEPT !.ctr = Ponged(@)])
  /\ UNCHANGED <<streams, status>>
-----------------------------------------------------------------------------
(* The rest of the loop: the status and the keepalive. *)

\* Slip: the count is not compared.
GivenUpSlip(ctr) == FALSE
GivenUp(ctr) == ctr <= -KeepaliveLimit

\* Slip: what lies in the buffer is taken for a sign of life.
MissedSlip(r) == IF r.lines = <<>> THEN r.ctr - 1 ELSE r.ctr
Missed(r) == r.ctr - 1

\* When 5 s are over a ping is due.
Rest(c, new, due) ==
  IF due THEN Written(c, Loop([new EXCEPT
                           !.ctr = Missed(new),
                           !.link = IF GivenUp(new.ctr) THEN "closed" ELSE @]))
         ELSE Loop(new)

\* Slip: prev_status is set where the ring is told only.
KnownSlip(c, new) == IF new = 1 THEN new ELSE conn[c].prev
Known(c, new) == new

\* Without a call or without a network the streams end.
Report(c, new, due) ==
  LET told == [conn[c] EXCEPT !.told = new, !.prev = Known(c, new)]
  IN CASE new = conn[c].prev -> Becomes(c, Rest(c, conn[c], due)) /\ UNCHANGED streams
       [] new # conn[c].prev /\ new = 1 ->
            Becomes(c, Written(c, Rest(c, told, due))) /\ UNCHANGED streams
       [] OTHER -> StopProcThen(c, Written(c, Rest(c, told, due)))

Poll(c, due) == At(c, "poll") /\ Report(c, status, due) /\ UNCHANGED status

\* The SipClient is not registered: another one is tried, for up to 4 s.
Register(c) == At(c, "poll") /\ Goes(c, "register") /\ UNCHANGED <<streams, status>>

RegisterReturns(c, due) ==
  /\ At(c, "register")
  /\ \E new \in {-1, 0} : status' = new /\ Report(c, new, due)
-----------------------------------------------------------------------------
(* The network, the interface and the children, whenever the loop is free. *)

\* As long as a handler may come back to its reader.
Open(c) == conn[c].pc \in {"hello", "wait", "hangup", "open", "register"} /\ ~Busy

Woken(c, new) == Becomes(c, [new EXCEPT !.woken = conn[c].pc = "wait"])

Arrives(c, line) ==
  /\ Open(c) /\ conn[c].link = "up"
  /\ Len(conn[c].lines) < MaxLines /\ (line = "p" => conn[c].ctr < MaxCredit)
  /\ Woken(c, [conn[c] EXCEPT !.lines = Append(@, line)])
  /\ UNCHANGED <<streams, status>>

Shut(c) ==
  /\ Open(c) /\ conn[c].link = "up"
  /\ Woken(c, [conn[c] EXCEPT !.link = "eof"])
  /\ UNCHANGED <<streams, status>>

\* What was not read by then is not read any more.
Lose(c) ==
  /\ Open(c) /\ conn[c].link \in {"up", "eof"}
  /\ Woken(c, [conn[c] EXCEPT !.link = "lost", !.lines = <<>>, !.nul = FALSE])
  /\ UNCHANGED <<streams, status>>

CallComes ==
  /\ ~Busy /\ status # 1 /\ status' = 1
  /\ UNCHANGED <<conn, streams>>

\* Also when a registration that failed made the status -1 while the call rang.
CallGoes ==
  /\ ~Busy /\ status # 0 /\ status' = 0
  /\ UNCHANGED <<conn, streams>>

\* autopendel_ffmpeg finds that a video child exited and reaps it.  Without a new
\* stream the list stays as it is and is tried again; an exception ends the task,
\* which is a Restart to "reaped" that no other follows.
Restart ==
  /\ ~Busy /\ video # "none"
  /\ video' \in {"running", "reaped"}
  /\ UNCHANGED <<conn, dest, audio, udp, status>>
-----------------------------------------------------------------------------
Line(c) ==
  \/ ReadEof(c) \/ ShowOffline(c) \/ Show(c) \/ RequestRaises(c) \/ OpenDoor(c)
  \/ AcceptIdle(c) \/ AcceptLate(c) \/ Accept(c) \/ HangUp(c) \/ Pong(c)

Loops(c, due) == Poll(c, due) \/ RegisterReturns(c, due)

\* What a handler does once it was called.
Runs(c) ==
  \/ HangupReturns(c) \/ HangupRaises(c) \/ Greet(c) \/ DataLost(c) \/ NoData(c)
  \/ Line(c) \/ OpenReturns(c) \/ Decline(c) \/ Register(c) \/ Leave(c) \/ Finish(c)
  \/ \E due \in BOOLEAN : Loops(c, due)

Network(c) == Connect(c) \/ Shut(c) \/ Lose(c) \/ \E line \in Lines : Arrives(c, line)

Next ==
  \/ \E c \in Conns : Runs(c) \/ Network(c)
  \/ CallComes \/ CallGoes \/ Restart

Spec == Init /\ [][Next]_vars

\* The loop serves its coroutines in turn, whatever they wait for ends, and every 5 s
\* are over some day.  Only stop_calls may never return: a session that waits for its
\* threads may wait for ever (RtpSession).
FairSpec ==
  /\ Spec
  /\ \A c \in Conns : /\ SF_vars(~AwaitsHangup(c) /\ Runs(c))
                        /\ SF_vars(~AwaitsHangup(c) /\ Loops(c, TRUE))
-----------------------------------------------------------------------------
(* Properties. *)

TypeOK ==
  /\ conn \in [Conns -> ConnType]
  /\ \A c \in Conns : Len(conn[c].lines) <= MaxLines /\ conn[c].ctr >= -KeepaliveLimit
  /\ \A c, d \in Conns : conn[c].pc \in Running /\ conn[d].pc \in Running => c = d
  /\ video \in {"none", "running", "reaped"} /\ dest \in Conns \cup {None}
  /\ audio \in {"none", "loop", "ring"} /\ udp \in {"none", "pending", "open"}
  /\ status \in {-1, 0, 1}

\* Streams have an owner: the video goes to a connection whose handler was not cleaned up
\* after and that is not offline, and a sound or a microphone endpoint has such a
\* connection, however handlers, restarts and exceptions interleave.  Only a handler
\* that died of an exception leaves its streams behind.
Holds(c) == conn[c].pc \notin {"off", "done"} /\ conn[c].prev # -1
StreamsOwned ==
  /\ video # "none" <=> dest # None
  /\ video # "none" => Holds(dest)
  /\ audio # "none" \/ udp # "none" => \E c \in Conns : Holds(c)

\* The ring tone and the visitor's microphone endpoint need a handler that knows of a
\* call: a call that ended during a registration, a hangup or another handler's work
\* leaves neither behind.
CallSoundHasCall ==
  audio = "ring" \/ udp # "none" =>
    \E c \in Conns : conn[c].pc \notin {"off", "done"} /\ conn[c].prev = 1

\* Two handlers never create the endpoint for port 8102 at the same time, and while one
\* does the placeholder says so: stop_proc cannot take it away.
OneEndpoint ==
  \A c, d \in Conns :
    conn[c].pc = "open" => udp = "pending" /\ (conn[d].pc = "open" => c = d)

\* The panel is never left with another status than the one its handler remembers and
\* compares the next one with, although a late accept tells it that the call is gone.
StatusAgreed == \A c \in Conns : conn[c].pc = "wait" => conn[c].told = conn[c].prev

\* Every ring that lasts is announced to every panel, and so is its end, unless the
\* panel's handler waits for ever for a session to be closed.
Announced ==
  \A c \in Conns :
    /\ status = 1 /\ Live(c) ~> status # 1 \/ conn[c].prev = 1 \/ ~Live(c) \/ []AwaitsHangup(c)
    /\ status # 1 /\ Live(c) ~> status = 1 \/ conn[c].prev # 1 \/ ~Live(c) \/ []AwaitsHangup(c)

\* A panel that fell silent is given up although its connection looks well: neither
\* lines left in the buffer nor calls and registrations that go on keep its handler,
\* only a session that is never closed does.
SilentPanelGivenUp ==
  \A c \in Conns :
    <>[][~\E line \in Lines : Arrives(c, line)]_vars => <>[](~Live(c) \/ AwaitsHangup(c))
=============================================================================
