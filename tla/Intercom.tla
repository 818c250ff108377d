------------------------------ MODULE Intercom ------------------------------
(***************************************************************************)
(* The panel and the server together: VicomClient and one connection of    *)
(* VicomServer, joined by the lines they write to each other.              *)
(*                                                                         *)
(* What the panel sends is in its send buffer tx until it is in the        *)
(* server's reader, what the server writes is on the wire until it is in   *)
(* the panel's receive buffer rx, of which the panel interprets the first  *)
(* line.  A session here ends with its connection: pings, time at the      *)
(* panel, children that exit, broken links and the connections after the   *)
(* first are left to the two modules.                                      *)
(***************************************************************************)
EXTENDS Integers, Sequences

CONSTANTS
  Panel,     \* the connection
  None,
  MaxLines   \* bound: lines in a buffer of the panel, and in the reader of the server

VARIABLES
  pc, dev, connect_success, len, keepalive_ctr, scroff_age, reconn_age, keepalive_age,
  rx, tx,                                  \* the panel
  conn, video, dest, audio, udp, status,   \* the server
  wire,                                    \* lines on their way to the panel
  lost                                     \* history: the panel dropped a line unread

panel  == <<pc, dev, connect_success, len, keepalive_ctr, scroff_age, reconn_age,
            keepalive_age, rx, tx>>
server == <<conn, video, dest, audio, udp, status>>
vars   == <<panel, server, wire, lost>>

C == INSTANCE VicomClient WITH Period <- 1, KeepaliveLimit <- 1, RxMax <- MaxLines,
                               TxMax <- MaxLines, CtrMax <- 0
S == INSTANCE VicomServer WITH Conns <- {Panel}, KeepaliveLimit <- 1, MaxLines <- MaxLines,
                               Lines <- C!ClientCmds, MaxCredit <- 0

Handler == conn[Panel]

Init == C!Init /\ S!Init /\ wire = <<>> /\ lost = FALSE
-----------------------------------------------------------------------------
(* The panel. *)

SocketReads ==
  /\ C!SockRead
  /\ lost' = (lost \/ Len(rx) > 1)
  /\ UNCHANGED <<server, wire>>

\* Bound: a turn begins when what the panel sent before is in the server's reader.
PanelRuns ==
  /\ pc = "kbd" => tx = <<>>
  /\ C!Keyboard \/ C!SockQuiet \/ C!Timers
  /\ UNCHANGED <<server, wire, lost>>
-----------------------------------------------------------------------------
(* The server, with what each step writes. *)

\* Bound: the wire is empty before a step that writes.
Writes(lines) ==
  /\ wire = <<>> \/ lines = <<>>
  /\ wire' = wire \o lines
  /\ UNCHANGED <<panel, lost>>

\* Slip: the two lines are swapped.
StatusLineSlip(new) == CASE new = -1 -> "s1" [] new = 0 -> "s0" [] OTHER -> "s2"

StatusLine(new) == CASE new = -1 -> "s0" [] new = 0 -> "s1" [] OTHER -> "s2"

Greets == S!Greet(Panel) /\ Writes(<<"e", "s0">>)

\* A v for every r that finds a stream, also when the children already run.
Shows ==
  /\ S!Show(Panel)
  /\ \/ video' # "none" /\ Writes(<<"v">>)
     \/ video' = video /\ Writes(<<>>)

\* Slip: the answer is written before the endpoint is created.
AcceptsSlip ==
  \/ S!AcceptLate(Panel) /\ Writes(<<"s1">>)
  \/ S!Accept(Panel) /\ Writes(<<"a">>)
  \/ S!OpenReturns(Panel) /\ Writes(<<>>)

Accepts ==
  \/ S!AcceptLate(Panel) /\ Writes(<<"s1">>)
  \/ S!Accept(Panel) /\ Writes(IF S!EndpointExists THEN <<"a">> ELSE <<>>)
  \/ S!OpenReturns(Panel) /\ Writes(<<"a">>)

Reports ==
  /\ S!Loops(Panel, FALSE)
  /\ Writes(IF status' # Handler.prev THEN <<StatusLine(status')>> ELSE <<>>)

Silently ==
  /\ \/ S!HangupReturns(Panel) \/ S!HangupRaises(Panel) \/ S!NoData(Panel)
     \/ S!ReadEof(Panel) \/ S!ShowOffline(Panel) \/ S!RequestRaises(Panel) \/ S!OpenDoor(Panel)
     \/ S!AcceptIdle(Panel) \/ S!HangUp(Panel) \/ S!Decline(Panel) \/ S!Register(Panel)
  /\ Writes(<<>>)

ServerRuns == Greets \/ Shows \/ Accepts \/ Reports \/ Silently

Visitor == (S!CallComes \/ S!CallGoes) /\ UNCHANGED <<panel, wire, lost>>
-----------------------------------------------------------------------------
(* The connection. *)

Connects == C!Established /\ S!Connect(Panel) /\ UNCHANGED <<wire, lost>>

ToPanel ==
  /\ wire # <<>> /\ C!ServerSends(Head(wire)) /\ wire' = Tail(wire)
  /\ UNCHANGED <<server, lost>>

ToServer ==
  /\ tx # <<>> /\ C!ServerReads /\ S!Arrives(Panel, Head(tx))
  /\ UNCHANGED <<wire, lost>>
-----------------------------------------------------------------------------
Alive ==
  \/ Handler.pc = "off"
  \/ dev.sock_fd = "up" /\ Handler.link = "up" /\ Handler.pc \notin S!Ended

\* A turn of the panel is not interrupted: it looks at the connection once, so what the
\* others do during a turn they may as well do before it, or, if they answer what the
\* panel sent in it, after it.
Next == Alive /\
  \/ SocketReads \/ PanelRuns
  \/ pc = "kbd" /\ (ServerRuns \/ Visitor \/ Connects \/ ToPanel \/ ToServer)

Spec == Init /\ [][Next]_vars
-----------------------------------------------------------------------------
(* Properties. *)

\* Both ends consider the connection theirs, and no line was dropped on it.
Joined ==
  /\ dev.sock_fd = "up" /\ Handler.link = "up" /\ Handler.pc \in {"wait", "open", "poll"}
  /\ ~lost

RequestModes == {"IDLE_REQUEST", "REQUEST_ACTIVE", "REQUEST_RESPONDING"}

Elem(x, s) == \E i \in DOMAIN s : s[i] = x
ToldSoon(line) == Elem(line, rx \o wire)
Dismissed == Elem("d", tx \o Handler.lines) \/ status # 1

\* The panel never stays with another idea of the door than the server has of the
\* panel: whatever keys and calls cross each other, its mode is one of those the
\* handler's prev_status allows, or the line that will correct it is still to be
\* read, or it was the panel that sent the visitor away.
PanelFollows ==
  Joined =>
    /\ Handler.prev = -1 =>
         dev.curr_mode \in {"NO_CONNECTION", "NO_INTERNET"} \/ ToldSoon("s0")
    /\ Handler.prev = 0 => dev.curr_mode \in {"IDLE", "MANUAL_ACTIVE"} \/ ToldSoon("s1")
    /\ Handler.prev = 1 =>
         \/ dev.curr_mode \in RequestModes \cup {"MANUAL_ACTIVE"}
         \/ ToldSoon("s2") \/ Dismissed

\* What the panel offers its user is backed by the server: it shows a request only
\* while the handler knows of one, and an answered one only while the endpoint for
\* its microphone exists, but until the line that takes it back, which the handler
\* sends in the same turn of its loop, was read.
RequestIsReal ==
  Joined /\ dev.curr_mode \in RequestModes =>
    \/ ToldSoon("s1") \/ ToldSoon("s0")
    \/ Handler.pc = "poll" /\ status # 1
    \/ Handler.prev = 1 /\ (dev.curr_mode = "REQUEST_RESPONDING" => udp = "open")

\* "was manual request": what makes the panel show a manual view is never the answer
\* to the request that an incoming call made it send.
ManualOnRequest ==
  [][dev.curr_mode \in RequestModes => dev'.curr_mode # "MANUAL_ACTIVE"]_vars
=============================================================================
