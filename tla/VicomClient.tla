---------------------------- MODULE VicomClient ----------------------------
(***************************************************************************)
(* The door-phone client src/mainvicom/main.c: one thread that repeats     *)
(* three phases for ever: read one keyboard event, poll the server socket  *)
(* and interpret what arrived, run the timers of the current mode.         *)
(*                                                                         *)
(* pc names the phase that runs next.  dev holds the variables that        *)
(* switch_mode touches (mode, the two child programs, the socket, the      *)
(* screen), so that a handler that calls switch_mode several times is the  *)
(* composition of operators on dev.  rx and tx are the kernel's receive    *)
(* and send buffers of the client's socket, one element per command line.  *)
(***************************************************************************)
EXTENDS Integers, Sequences

CONSTANTS
  Period,         \* the 5 s of every timer, in ticks
  KeepaliveLimit, \* the 5 missed pings after which the peer is given up
  RxMax,          \* bound: unread lines the environment lets pile up
  TxMax,          \* lines the kernel's send buffer takes before EAGAIN
  CtrMax          \* bound: the environment pings only while keepalive_ctr < CtrMax

ASSUME ClientAssumption ==
  /\ Period \in Nat \ {0}
  /\ KeepaliveLimit \in Nat \ {0}
  /\ RxMax \in Nat /\ TxMax \in Nat /\ CtrMax \in Nat

VARIABLES
  pc,              \* the phase of the main loop that runs next
  dev,             \* curr_mode, v_pid, a_pid, sock_fd, fb_on
  connect_success, \* a connect() is under way
  len,             \* whether the last FIONREAD that worked reported more than 1 byte
  keepalive_ctr,
  scroff_age, reconn_age, keepalive_age,  \* now minus t_scroff_start, ..., capped
  rx, tx

vars == <<pc, dev, connect_success, len, keepalive_ctr,
          scroff_age, reconn_age, keepalive_age, rx, tx>>
timers == <<scroff_age, reconn_age, keepalive_age>>

Modes == {"IDLE", "IDLE_SCROFF", "NO_CONNECTION", "NO_INTERNET",
          "MANUAL_ACTIVE", "IDLE_REQUEST", "REQUEST_ACTIVE", "REQUEST_RESPONDING"}

\* What the server writes, and what the client writes.
ServerCmds == {"s0", "s1", "s2", "v", "a", "e", "p"}
ClientCmds == {"r", "a", "o", "d", "p"}

Keys == {"ENTER", "MENU", "OTHER"}

\* -1, a running child, a child that exited and was not waited for
Pids == {"none", "running", "zombie"}

\* -1; connect() in progress; established; the peer sent FIN; poll reports an error
Socks == {"none", "connecting", "up", "fin", "reset"}

Ages == 0..Period

Device == [curr_mode: Modes, v_pid: Pids, a_pid: Pids, sock_fd: Socks, fb_on: BOOLEAN]

Init ==
  /\ pc = "kbd"
  /\ dev = [curr_mode |-> "NO_CONNECTION", v_pid |-> "none", a_pid |-> "none",
            sock_fd |-> "none", fb_on |-> TRUE]
  /\ connect_success = FALSE
  /\ len \in BOOLEAN               \* uninitialised in main()
  /\ keepalive_ctr = 0
  /\ scroff_age = 0 /\ keepalive_age = 0
  /\ reconn_age = Period           \* t_reconn_start.tv_sec = -5
  /\ rx = <<>> /\ tx = <<>>
-----------------------------------------------------------------------------
StopPrograms(d) == [d EXCEPT !.v_pid = "none", !.a_pid = "none"]

\* Slip: entering NO_INTERNET leaves the programs alone.
StoppingModesSlip == {"NO_CONNECTION", "IDLE"}

StoppingModes == {"NO_CONNECTION", "NO_INTERNET", "IDLE"}

SwitchMode(d, next) ==
  IF d.curr_mode = next THEN d
  ELSE LET stopped == IF next \in StoppingModes THEN StopPrograms(d) ELSE d
           closed  == IF next = "NO_CONNECTION"
                      THEN [stopped EXCEPT !.sock_fd = "none"] ELSE stopped
       IN  [closed EXCEPT !.curr_mode = next, !.fb_on = (next # "IDLE_SCROFF")]

\* send() fails on a closed or broken socket and when the buffer is full.
CanSend(d) == d.sock_fd \in {"up", "fin"} /\ Len(tx) < TxMax

\* Slip: a failed send closes the socket and stays in the mode.
AfterSendSlip(d) == IF CanSend(d) THEN d ELSE [d EXCEPT !.sock_fd = "none"]

\* The device, and the buffer, after sending cmd from device state d: every
\* caller goes to NO_CONNECTION when the send fails.
AfterSend(d) == IF CanSend(d) THEN d ELSE SwitchMode(d, "NO_CONNECTION")
TxAfter(d, cmd) == IF CanSend(d) THEN Append(tx, cmd) ELSE tx

\* Closing the socket, as its device state shows, drops both buffers.
Buffers(d, r, t) ==
  IF d.sock_fd = "none" THEN rx' = <<>> /\ tx' = <<>> ELSE rx' = r /\ tx' = t
-----------------------------------------------------------------------------
(* Phase 1: the keyboard. *)

\* The command that ENTER sends from each mode.
EnterCmd(mode) ==
  CASE mode = "IDLE" -> "r"
    [] mode = "REQUEST_ACTIVE" -> "a"
    [] OTHER -> "o"

EnterModes == {"IDLE", "REQUEST_ACTIVE", "REQUEST_RESPONDING", "MANUAL_ACTIVE"}
MenuModes  == {"MANUAL_ACTIVE", "REQUEST_RESPONDING", "REQUEST_ACTIVE"}

\* Slip: a key in NO_CONNECTION shows the idle screen too.
AwakeSlip(d) ==
  IF d.curr_mode \in {"IDLE_SCROFF", "NO_CONNECTION"} THEN SwitchMode(d, "IDLE") ELSE d

\* Any key first lights a screen that was off.
Awake(d) == IF d.curr_mode = "IDLE_SCROFF" THEN SwitchMode(d, "IDLE") ELSE d

NoKey ==
  /\ pc = "kbd" /\ pc' = "sock"
  /\ UNCHANGED <<dev, connect_success, len, keepalive_ctr, timers, rx, tx>>

KeyPress(key) ==
  /\ pc = "kbd" /\ pc' = "sock"
  /\ scroff_age' = 0
  /\ LET d == Awake(dev) IN
       \/ /\ key = "ENTER" /\ d.curr_mode \in EnterModes
          /\ dev' = AfterSend(d)
          /\ Buffers(dev', rx, TxAfter(d, EnterCmd(d.curr_mode)))
       \/ /\ key = "MENU" /\ d.curr_mode \in MenuModes
          /\ dev' = SwitchMode(AfterSend(d), "IDLE")
          /\ Buffers(dev', rx, TxAfter(d, "d"))
       \/ /\ ~ (key = "ENTER" /\ d.curr_mode \in EnterModes)
          /\ ~ (key = "MENU" /\ d.curr_mode \in MenuModes)
          /\ dev' = d /\ UNCHANGED <<rx, tx>>
  /\ UNCHANGED <<connect_success, len, keepalive_ctr, reconn_age, keepalive_age>>
-----------------------------------------------------------------------------
(* Phase 2: the socket. *)

\* exec_prog: fork may fail, and a pid that is set is not started again.
Started(pid) == IF pid = "none" THEN {"none", "running"} ELSE {pid}

\* The device and the send buffer after command cmd.
Interpret(cmd) ==
  \/ cmd = "s0" /\ dev' = SwitchMode(dev, "NO_INTERNET") /\ tx' = tx
  \/ cmd \in {"s1", "e"} /\ dev' = SwitchMode(dev, "IDLE") /\ tx' = tx
  \/ /\ cmd = "s2" /\ dev.curr_mode = "MANUAL_ACTIVE"
     /\ LET d == SwitchMode(dev, "REQUEST_ACTIVE") IN
          dev' = AfterSend(d) /\ tx' = (IF CanSend(d) THEN Append(tx, "a") ELSE <<>>)
  \/ /\ cmd = "s2" /\ dev.curr_mode # "MANUAL_ACTIVE"
     /\ dev' = (IF CanSend(dev) THEN SwitchMode(dev, "IDLE_REQUEST")
                                ELSE SwitchMode(dev, "NO_CONNECTION"))
     /\ tx' = (IF CanSend(dev) THEN Append(tx, "r") ELSE <<>>)
  \/ /\ cmd = "v" /\ tx' = tx
     /\ \E pid \in Started(dev.v_pid) :
          LET d == [dev EXCEPT !.v_pid = pid] IN
            dev' = IF pid = "none" THEN d
                   ELSE SwitchMode(d, IF dev.curr_mode = "IDLE_REQUEST"
                                      THEN "REQUEST_ACTIVE" ELSE "MANUAL_ACTIVE")
  \/ /\ cmd = "a" /\ dev.curr_mode = "REQUEST_ACTIVE" /\ tx' = tx
     /\ \E pid \in Started(dev.a_pid) :
          LET d == [dev EXCEPT !.a_pid = pid] IN
            dev' = IF pid = "none" THEN d ELSE SwitchMode(d, "REQUEST_RESPONDING")
  \/ cmd = "a" /\ dev.curr_mode # "REQUEST_ACTIVE" /\ UNCHANGED <<dev, tx>>
  \/ cmd = "p" /\ UNCHANGED <<dev, tx>>

\* Only the first line of what recv() returns is looked at; the rest is lost.
SockRead ==
  /\ pc = "sock" /\ pc' = "timer"
  /\ dev.curr_mode # "NO_CONNECTION"
  /\ dev.sock_fd \in {"up", "fin"}
  /\ rx # <<>>
  /\ len' = TRUE
  /\ rx' = <<>>
  /\ Interpret(Head(rx))
  /\ scroff_age' = IF Head(rx) = "s1" THEN 0 ELSE scroff_age
  /\ keepalive_ctr' = IF Head(rx) # "p" THEN keepalive_ctr
                      ELSE IF keepalive_ctr < 0 THEN 1 ELSE keepalive_ctr + 1
  /\ UNCHANGED <<connect_success, reconn_age, keepalive_age>>

SockQuiet ==
  /\ pc = "sock" /\ pc' = "timer"
  /\ \/ dev.curr_mode = "NO_CONNECTION" /\ UNCHANGED len
     \/ /\ dev.curr_mode # "NO_CONNECTION"
        /\ dev.sock_fd \in {"up", "fin"} /\ rx = <<>> /\ len' = FALSE
     \/ /\ dev.curr_mode # "NO_CONNECTION"
        /\ dev.sock_fd = "none" /\ ~ len /\ UNCHANGED len
  /\ UNCHANGED <<dev, connect_success, keepalive_ctr, timers, rx, tx>>

\* poll reports an error, or the ioctl on fd -1 fails, len keeps the value of
\* an earlier call, and recv fails.
SockError ==
  /\ pc = "sock" /\ pc' = "timer"
  /\ dev.curr_mode # "NO_CONNECTION"
  /\ dev.sock_fd = "reset" \/ (dev.sock_fd = "none" /\ len)
  /\ dev' = SwitchMode(dev, "NO_CONNECTION")
  /\ len' = (dev.sock_fd = "reset" \/ len)   \* len = sizeof(ret) for getsockopt
  /\ rx' = <<>> /\ tx' = <<>>
  /\ UNCHANGED <<connect_success, keepalive_ctr, timers>>
-----------------------------------------------------------------------------
(* Phase 3: the timers of the mode. *)

\* Every Period a new socket: socket() fails, connect() fails at once, or it
\* goes on in the background.
Reconnect ==
  /\ pc = "timer" /\ pc' = "kbd"
  /\ dev.curr_mode = "NO_CONNECTION"
  /\ reconn_age = Period
  /\ \/ dev' = [dev EXCEPT !.sock_fd = "none"] /\ UNCHANGED <<connect_success, reconn_age>>
     \/ /\ dev' = [dev EXCEPT !.sock_fd = "reset"]
        /\ connect_success' = FALSE /\ reconn_age' = 0
     \/ /\ dev' = [dev EXCEPT !.sock_fd = "connecting"]
        /\ connect_success' = TRUE /\ reconn_age' = 0
  /\ rx' = <<>> /\ tx' = <<>>
  /\ UNCHANGED <<len, keepalive_ctr, scroff_age, keepalive_age>>

\* Slip: a new session goes on counting where the last one ended.
CountAfterConnectSlip == keepalive_ctr
CountAfterConnect == 0

AwaitConnect ==
  /\ pc = "timer" /\ pc' = "kbd"
  /\ dev.curr_mode = "NO_CONNECTION"
  /\ reconn_age < Period
  /\ \/ /\ ~ connect_success \/ dev.sock_fd \in {"none", "connecting"}
        /\ UNCHANGED <<dev, connect_success, len, keepalive_ctr>>
     \/ /\ connect_success /\ dev.sock_fd = "reset"
        /\ dev' = [dev EXCEPT !.sock_fd = "none"]
        /\ connect_success' = FALSE /\ len' = TRUE /\ UNCHANGED keepalive_ctr
     \/ /\ connect_success /\ dev.sock_fd \in {"up", "fin"}
        /\ dev' = SwitchMode(dev, "NO_INTERNET")
        /\ connect_success' = FALSE /\ keepalive_ctr' = CountAfterConnect /\ UNCHANGED len
  /\ UNCHANGED <<timers, rx, tx>>

\* Slips: the idle case breaks instead of falling through; no pings while dark;
\* the limit is off by one.
KeepaliveDueIdleSlip == keepalive_age = Period /\ dev.curr_mode \notin {"IDLE", "IDLE_SCROFF"}
KeepaliveDueDarkSlip == keepalive_age = Period /\ dev.fb_on
GivenUpSlip == keepalive_ctr < -KeepaliveLimit

KeepaliveDue == keepalive_age = Period
GivenUp == keepalive_ctr <= -KeepaliveLimit

\* NO_INTERNET pings but never counts a missing answer.
TimerNoInternet ==
  /\ pc = "timer" /\ pc' = "kbd"
  /\ dev.curr_mode = "NO_INTERNET"
  /\ IF KeepaliveDue
     THEN /\ dev' = AfterSend(dev) /\ Buffers(dev', rx, TxAfter(dev, "p"))
          /\ keepalive_age' = 0
     ELSE UNCHANGED <<dev, rx, tx, keepalive_age>>
  /\ UNCHANGED <<connect_success, len, keepalive_ctr, scroff_age, reconn_age>>

\* Every other mode; MODE_IDLE first turns the screen off when its time is up
\* and falls through to the keepalive.
TimerDefault ==
  /\ pc = "timer" /\ pc' = "kbd"
  /\ dev.curr_mode \notin {"NO_CONNECTION", "NO_INTERNET"}
  /\ LET d == IF dev.curr_mode = "IDLE" /\ scroff_age = Period
              THEN SwitchMode(dev, "IDLE_SCROFF") ELSE dev
     IN IF KeepaliveDue
        THEN /\ dev' = IF GivenUp
                       THEN SwitchMode(AfterSend(d), "NO_CONNECTION") ELSE AfterSend(d)
             /\ Buffers(dev', rx, TxAfter(d, "p"))
             /\ keepalive_ctr' = keepalive_ctr - 1
             /\ keepalive_age' = 0
        ELSE dev' = d /\ UNCHANGED <<rx, tx, keepalive_ctr, keepalive_age>>
  /\ UNCHANGED <<connect_success, len, scroff_age, reconn_age>>
-----------------------------------------------------------------------------
(* Time, the children, the network and the server. *)

Older(age) == IF age < Period THEN age + 1 ELSE age

Tick ==
  /\ \E age \in {scroff_age, reconn_age, keepalive_age} : age < Period
  /\ scroff_age' = Older(scroff_age)
  /\ reconn_age' = Older(reconn_age)
  /\ keepalive_age' = Older(keepalive_age)
  /\ UNCHANGED <<pc, dev, connect_success, len, keepalive_ctr, rx, tx>>

ProgramExits ==
  /\ \/ dev.v_pid = "running" /\ dev' = [dev EXCEPT !.v_pid = "zombie"]
     \/ dev.a_pid = "running" /\ dev' = [dev EXCEPT !.a_pid = "zombie"]
  /\ UNCHANGED <<pc, connect_success, len, keepalive_ctr, timers, rx, tx>>

NetChange(from, to) ==
  /\ dev.sock_fd \in from
  /\ dev' = [dev EXCEPT !.sock_fd = to]
  /\ UNCHANGED <<pc, connect_success, len, keepalive_ctr, timers, rx, tx>>

Established == NetChange({"connecting"}, "up")
PeerCloses  == NetChange({"up"}, "fin")
NetFails    == NetChange({"connecting", "up", "fin"}, "reset")

ServerSends(cmd) ==
  /\ dev.sock_fd = "up"
  /\ Len(rx) < RxMax
  /\ cmd = "p" => keepalive_ctr < CtrMax
  /\ rx' = Append(rx, cmd)
  /\ UNCHANGED <<pc, dev, connect_success, len, keepalive_ctr, timers, tx>>

ServerReads ==
  /\ dev.sock_fd = "up" /\ tx # <<>>
  /\ tx' = Tail(tx)
  /\ UNCHANGED <<pc, dev, connect_success, len, keepalive_ctr, timers, rx>>
-----------------------------------------------------------------------------
Keyboard == NoKey \/ \E key \in Keys : KeyPress(key)
Socket   == SockRead \/ SockQuiet \/ SockError
Timers   == Reconnect \/ AwaitConnect \/ TimerNoInternet \/ TimerDefault

MainLoop == Keyboard \/ Socket \/ Timers

Environment ==
  \/ ProgramExits \/ Established \/ PeerCloses \/ NetFails
  \/ ServerReads \/ \E cmd \in ServerCmds : ServerSends(cmd)

Next == MainLoop \/ Tick \/ Environment

Spec == Init /\ [][Next]_vars

\* The loop never blocks for more than its 4 ms polls, and time passes.
FairSpec == Spec /\ WF_vars(MainLoop) /\ WF_vars(Tick)
-----------------------------------------------------------------------------
(* Properties. *)

\* The counter of missed pings included: however many sessions came and went, it never
\* runs more than one below the limit.
TypeOK ==
  /\ pc \in {"kbd", "sock", "timer"}
  /\ dev \in Device
  /\ connect_success \in BOOLEAN /\ len \in BOOLEAN
  /\ keepalive_ctr \in Int /\ keepalive_ctr >= -KeepaliveLimit - 1
  /\ scroff_age \in Ages /\ reconn_age \in Ages /\ keepalive_age \in Ages
  /\ rx \in Seq(ServerCmds) /\ tx \in Seq(ClientCmds)

QuietModes == {"IDLE", "IDLE_SCROFF", "NO_CONNECTION", "NO_INTERNET"}
StreamModes == {"MANUAL_ACTIVE", "REQUEST_ACTIVE", "REQUEST_RESPONDING"}

\* Whatever order lines, keys and failures come in, the camera and microphone
\* programs match the mode: none survives into a quiet mode (and so into the next
\* connection), a stream mode has its picture, an answered call its microphone,
\* and the microphone never runs without the picture.  switch_mode stops the
\* programs in only three of the eight modes, so this rests on which modes lead to
\* which.
ProgramsMatchMode ==
  /\ dev.curr_mode \in QuietModes => dev.v_pid = "none" /\ dev.a_pid = "none"
  /\ dev.curr_mode \in StreamModes => dev.v_pid # "none"
  /\ dev.curr_mode = "REQUEST_RESPONDING" => dev.a_pid # "none"
  /\ dev.a_pid # "none" => dev.v_pid # "none"

\* A mode that talks to the server has a connected socket: only MODE_IDLE and its
\* dark variant can be entered on fd -1, by MENU after a failed "d", and a connect
\* is under way only in NO_CONNECTION.  A connect that is awaited without a socket
\* (socket() failed after a timed-out attempt) is retried before it is polled.
SocketMatchesMode ==
  /\ dev.curr_mode \notin {"NO_CONNECTION", "IDLE", "IDLE_SCROFF"} =>
       dev.sock_fd \in {"up", "fin", "reset"}
  /\ dev.sock_fd = "connecting" => connect_success
  /\ connect_success => /\ dev.curr_mode = "NO_CONNECTION"
                        /\ dev.sock_fd = "none" => reconn_age = Period

\* The missed-ping counter never runs below the limit while connected: a new session
\* starts its count afresh even though NO_CONNECTION keeps the old value, which may be
\* below it.
KeepaliveBounded ==
  dev.curr_mode # "NO_CONNECTION" => keepalive_ctr >= -KeepaliveLimit

\* A session starts clean: whatever keys, lines and failures ended the last one, the
\* loop leaves NO_CONNECTION only for NO_INTERNET, with a fresh keepalive count, no
\* program of the old session and no connect still counted as under way.
FreshSession ==
  [][dev.curr_mode = "NO_CONNECTION" /\ dev'.curr_mode # "NO_CONNECTION" =>
       /\ dev'.curr_mode = "NO_INTERNET"
       /\ dev'.v_pid = "none" /\ dev'.a_pid = "none"
       /\ keepalive_ctr' = 0 /\ ~ connect_success']_vars

\* A link that broke or was never there is noticed: in a mode that relies on it, an
\* error on the socket, or the fd -1 left by MENU, leads to NO_CONNECTION.
Deaf == /\ dev.curr_mode # "NO_CONNECTION"
        /\ dev.sock_fd \in {"none", "reset"}
DeafnessNoticed == Deaf ~> dev.curr_mode = "NO_CONNECTION"

\* A peer that stays silent for ever is given up again and again (the ping counter
\* runs out), except while it leaves the client in NO_INTERNET, which pings but
\* does not count.
SilentPeerGivenUp ==
  <>[](rx = <<>>) => \/ []<>(dev.curr_mode = "NO_CONNECTION")
                     \/ <>[](dev.curr_mode = "NO_INTERNET")
=============================================================================
