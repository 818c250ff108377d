-------------------------- MODULE VicomClient_proofs --------------------------
(***************************************************************************)
(* Proofs about the door-phone client, for every Period, KeepaliveLimit    *)
(* and buffer bound.                                                       *)
(***************************************************************************)
EXTENDS VicomClient, TLAPS

\* What switch_mode does to each field of the device.
LEMMA SwitchModeFields ==
  ASSUME NEW d \in Device, NEW m \in Modes
  PROVE  /\ SwitchMode(d, m) \in Device
         /\ SwitchMode(d, m).curr_mode = m
         /\ IF d.curr_mode # m /\ m \in {"NO_CONNECTION", "NO_INTERNET", "IDLE"}
            THEN SwitchMode(d, m).v_pid = "none" /\ SwitchMode(d, m).a_pid = "none"
            ELSE SwitchMode(d, m).v_pid = d.v_pid /\ SwitchMode(d, m).a_pid = d.a_pid
         /\ SwitchMode(d, m).sock_fd =
              IF d.curr_mode # m /\ m = "NO_CONNECTION" THEN "none" ELSE d.sock_fd
<1>1. CASE d.curr_mode = m
  BY <1>1 DEF SwitchMode
<1>2. CASE d.curr_mode # m /\ m = "NO_CONNECTION"
  BY <1>2 DEF SwitchMode, StoppingModes, StopPrograms, Device, Pids, Socks, Modes
<1>3. CASE d.curr_mode # m /\ m # "NO_CONNECTION"
  BY <1>3 DEF SwitchMode, StoppingModes, StopPrograms, Device, Pids, Socks, Modes
<1> QED
  BY <1>1, <1>2, <1>3

\* The conjuncts of the invariants that speak of the device alone.
Fits(d) ==
  /\ d \in Device
  /\ d.curr_mode \in QuietModes => d.v_pid = "none" /\ d.a_pid = "none"
  /\ d.curr_mode \in StreamModes => d.v_pid # "none"
  /\ d.curr_mode = "REQUEST_RESPONDING" => d.a_pid # "none"
  /\ d.a_pid # "none" => d.v_pid # "none"

\* switch_mode keeps programs and mode in step when it enters a mode that stops
\* them, one that needs no program, or one whose programs already run.
LEMMA SwitchModeFits ==
  ASSUME NEW d \in Device, NEW m \in Modes,
         d.curr_mode = m => Fits(d),
         d.a_pid # "none" => d.v_pid # "none",
         m = "IDLE_SCROFF" => d.v_pid = "none" /\ d.a_pid = "none",
         m \in StreamModes => d.v_pid # "none",
         m = "REQUEST_RESPONDING" => d.a_pid # "none"
  PROVE  Fits(SwitchMode(d, m))
  BY SwitchModeFields DEF Fits, QuietModes, StreamModes, Modes

\* A send leaves the device alone or drops the connection.
LEMMA AfterSendFits ==
  ASSUME NEW d, Fits(d)
  PROVE  /\ Fits(AfterSend(d))
         /\ AfterSend(d) = d \/ /\ AfterSend(d).curr_mode = "NO_CONNECTION"
                                /\ d.curr_mode # "NO_CONNECTION" =>
                                     AfterSend(d).sock_fd = "none"
  <1>1. Fits(SwitchMode(d, "NO_CONNECTION"))
    BY SwitchModeFits DEF Fits, Modes, StreamModes
  <1> QED
    BY <1>1, SwitchModeFields DEF AfterSend, Fits, Modes
-----------------------------------------------------------------------------
\* The inductive invariant: the four invariants together.  The programs need the
\* type of dev, the socket's conjunct needs to know that a connect is under way only
\* in NO_CONNECTION, and the keepalive bound needs the mode.
IInv == TypeOK /\ ProgramsMatchMode /\ SocketMatchesMode /\ KeepaliveBounded

\* What the invariant says of the device alone.
LEMMA IInvFits == IInv => Fits(dev)
  BY DEF IInv, TypeOK, ProgramsMatchMode, Fits

\* main starts without a connection and without programs.
LEMMA IInvInit == Init => IInv
<1> SUFFICES ASSUME Init PROVE IInv
  OBVIOUS
<1>1. TypeOK
  <2>1. dev \in Device
    BY DEF Init, Device, Modes, Pids, Socks
  <2>2. <<>> \in Seq(ServerCmds) /\ <<>> \in Seq(ClientCmds)
    OBVIOUS
  <2>3. connect_success \in BOOLEAN /\ len \in BOOLEAN
    BY Zenon DEF Init
  <2> QED
    BY <2>1, <2>2, <2>3, ClientAssumption DEF Init, TypeOK, Ages
<1>2. ProgramsMatchMode /\ SocketMatchesMode /\ KeepaliveBounded
  BY ClientAssumption
  DEF Init, ProgramsMatchMode, SocketMatchesMode, KeepaliveBounded, QuietModes, StreamModes
<1> QED
  BY <1>1, <1>2 DEF IInv

\* The buffers stay sequences of commands.
LEMMA BuffersType ==
  ASSUME TypeOK, NEW d, NEW e, NEW cmd \in ClientCmds, Buffers(d, rx, TxAfter(e, cmd))
  PROVE  rx' \in Seq(ServerCmds) /\ tx' \in Seq(ClientCmds)
<1>1. tx \in Seq(ClientCmds) /\ rx \in Seq(ServerCmds)
  BY DEF TypeOK
<1>2. Append(tx, cmd) \in Seq(ClientCmds)
  BY <1>1
<1>3. TxAfter(e, cmd) \in Seq(ClientCmds)
  BY <1>1, <1>2 DEF TxAfter
<1>4. <<>> \in Seq(ServerCmds) /\ <<>> \in Seq(ClientCmds)
  OBVIOUS
<1>5. \/ rx' = <<>> /\ tx' = <<>>
      \/ rx' = rx /\ tx' = TxAfter(e, cmd)
  BY Zenon DEF Buffers
<1> QED
  BY <1>1, <1>3, <1>4, <1>5

\* Every key, in every mode, keeps the invariant.
LEMMA KeyboardStep == IInv /\ Keyboard => IInv'
<1> SUFFICES ASSUME IInv, Keyboard PROVE IInv'
  OBVIOUS
<1> USE DEF IInv
<1>1. CASE NoKey
  BY <1>1 DEF NoKey, timers, TypeOK, ProgramsMatchMode, SocketMatchesMode, KeepaliveBounded
<1>2. ASSUME NEW key \in Keys, KeyPress(key) PROVE IInv'
  <2> DEFINE d == Awake(dev)
  <2>1. /\ Fits(d) /\ d.sock_fd = dev.sock_fd
        /\ d.curr_mode = dev.curr_mode \/ (dev.curr_mode = "IDLE_SCROFF" /\ d.curr_mode = "IDLE")
    BY IInvFits, SwitchModeFits, SwitchModeFields DEF Awake, Fits, Modes, StreamModes
  <2>2. /\ Fits(AfterSend(d))
        /\ AfterSend(d) = d \/ /\ AfterSend(d).curr_mode = "NO_CONNECTION"
                               /\ d.curr_mode # "NO_CONNECTION" =>
                                    AfterSend(d).sock_fd = "none"
    BY <2>1, AfterSendFits
  <2>3. /\ UNCHANGED <<connect_success, len, keepalive_ctr, reconn_age, keepalive_age>>
        /\ pc' = "sock" /\ scroff_age' = 0
    BY <1>2 DEF KeyPress
  <2>4. dev.curr_mode # "NO_CONNECTION" => keepalive_ctr >= -KeepaliveLimit /\ ~ connect_success
    BY DEF KeepaliveBounded, SocketMatchesMode
  <2>5. CASE key = "ENTER" /\ d.curr_mode \in EnterModes
    <3>1. dev' = AfterSend(d) /\ Buffers(dev', rx, TxAfter(d, EnterCmd(d.curr_mode)))
      BY <1>2, <2>5 DEF KeyPress, MenuModes
    <3>2. EnterCmd(d.curr_mode) \in ClientCmds
      BY DEF EnterCmd, ClientCmds
    <3>3. TypeOK'
      BY <2>2, <2>3, <3>1, <3>2, BuffersType, ClientAssumption DEF TypeOK, Fits, Ages
    <3>4. ProgramsMatchMode'
      BY <2>2, <3>1 DEF ProgramsMatchMode, Fits
    <3>5. SocketMatchesMode' /\ KeepaliveBounded'
      BY <2>1, <2>2, <2>3, <2>4, <2>5, <3>1
      DEF SocketMatchesMode, KeepaliveBounded, EnterModes, TypeOK
    <3> QED
      BY <3>3, <3>4, <3>5
  <2>6. CASE key = "MENU" /\ d.curr_mode \in MenuModes
    <3>1. dev' = SwitchMode(AfterSend(d), "IDLE") /\ Buffers(dev', rx, TxAfter(d, "d"))
      BY <1>2, <2>6 DEF KeyPress, EnterModes
    <3>2. Fits(dev') /\ dev'.curr_mode = "IDLE" /\ dev'.sock_fd \in {"none", d.sock_fd}
      BY <2>2, <2>6, <3>1, SwitchModeFits, SwitchModeFields
      DEF Fits, Modes, StreamModes, MenuModes
    <3>3. TypeOK'
      BY <2>3, <3>1, <3>2, BuffersType, ClientAssumption DEF TypeOK, Fits, Ages, ClientCmds
    <3>4. ProgramsMatchMode'
      BY <3>2 DEF ProgramsMatchMode, Fits
    <3>5. SocketMatchesMode' /\ KeepaliveBounded'
      BY <2>1, <2>3, <2>4, <2>6, <3>2
      DEF SocketMatchesMode, KeepaliveBounded, MenuModes, TypeOK
    <3> QED
      BY <3>3, <3>4, <3>5
  <2>7. CASE dev' = d /\ UNCHANGED <<rx, tx>>
    <3>1. TypeOK'
      BY <2>1, <2>3, <2>7, ClientAssumption DEF TypeOK, Fits, Ages
    <3>2. ProgramsMatchMode'
      BY <2>1, <2>7 DEF ProgramsMatchMode, Fits
    <3>3. SocketMatchesMode' /\ KeepaliveBounded'
      BY <2>1, <2>3, <2>4, <2>7 DEF SocketMatchesMode, KeepaliveBounded, TypeOK
    <3> QED
      BY <3>1, <3>2, <3>3
  <2> QED
    BY <1>2, <2>5, <2>6, <2>7 DEF KeyPress
<1> QED
  BY <1>1, <1>2 DEF Keyboard

\* Every line received, and every read that fails, keeps the invariant.
LEMMA SocketStep == IInv /\ Socket => IInv'
<1> SUFFICES ASSUME IInv, Socket PROVE IInv'
  OBVIOUS
<1> USE DEF IInv
<1>0. <<>> \in Seq(ServerCmds) /\ <<>> \in Seq(ClientCmds)
  OBVIOUS
<1>1. CASE SockRead
  <2> DEFINE cmd == Head(rx)
  <2>1. /\ dev.curr_mode # "NO_CONNECTION" /\ dev.sock_fd \in {"up", "fin"}
        /\ pc' = "timer" /\ len' = TRUE /\ rx' = <<>>
        /\ UNCHANGED <<connect_success, reconn_age, keepalive_age>>
        /\ scroff_age' \in {0, scroff_age}
        /\ Interpret(cmd)
    BY <1>1 DEF SockRead
  <2>2. keepalive_ctr' \in Int /\ (keepalive_ctr' = keepalive_ctr \/ keepalive_ctr' >= 0)
    BY <1>1 DEF SockRead, TypeOK
  <2>3. ~ connect_success /\ keepalive_ctr >= -KeepaliveLimit
    BY <2>1 DEF SocketMatchesMode, KeepaliveBounded
  <2>4. /\ Fits(dev')
        /\ \/ dev'.curr_mode = "NO_CONNECTION" /\ dev'.sock_fd = "none"
           \/ dev'.sock_fd = dev.sock_fd
        /\ tx' \in Seq(ClientCmds)
    <3>1. Fits(dev) /\ tx \in Seq(ClientCmds)
      BY IInvFits DEF TypeOK
    <3>2. Append(tx, "a") \in Seq(ClientCmds) /\ Append(tx, "r") \in Seq(ClientCmds)
      BY <3>1 DEF ClientCmds
    <3>3. CASE cmd = "s0" /\ dev' = SwitchMode(dev, "NO_INTERNET") /\ tx' = tx
      BY <2>1, <3>1, <3>3, SwitchModeFits, SwitchModeFields DEF Fits, Modes, StreamModes
    <3>4. CASE cmd \in {"s1", "e"} /\ dev' = SwitchMode(dev, "IDLE") /\ tx' = tx
      BY <2>1, <3>1, <3>4, SwitchModeFits, SwitchModeFields DEF Fits, Modes, StreamModes
    <3>5. CASE /\ cmd = "s2" /\ dev.curr_mode = "MANUAL_ACTIVE"
               /\ dev' = AfterSend(SwitchMode(dev, "REQUEST_ACTIVE"))
               /\ \/ tx' = Append(tx, "a")
                  \/ tx' = <<>>
      <4> DEFINE d == SwitchMode(dev, "REQUEST_ACTIVE")
      <4>1. Fits(d) /\ d.curr_mode = "REQUEST_ACTIVE" /\ d.sock_fd = dev.sock_fd
        BY <3>1, <3>5, SwitchModeFits, SwitchModeFields DEF Fits, Modes, StreamModes
      <4> QED
        BY <1>0, <3>2, <3>5, <4>1, AfterSendFits
    <3>6. CASE /\ cmd = "s2" /\ dev.curr_mode # "MANUAL_ACTIVE"
               /\ \/ dev' = SwitchMode(dev, "IDLE_REQUEST") /\ tx' = Append(tx, "r")
                  \/ dev' = SwitchMode(dev, "NO_CONNECTION") /\ tx' = <<>>
      <4>1. CASE dev' = SwitchMode(dev, "IDLE_REQUEST") /\ tx' = Append(tx, "r")
        BY <2>1, <3>1, <3>2, <4>1, SwitchModeFits, SwitchModeFields DEF Fits, Modes, StreamModes
      <4>2. CASE dev' = SwitchMode(dev, "NO_CONNECTION") /\ tx' = <<>>
        BY <1>0, <2>1, <3>1, <4>2, SwitchModeFits, SwitchModeFields DEF Fits, Modes, StreamModes
      <4> QED
        BY <3>6, <4>1, <4>2
    <3>7. ASSUME cmd = "v", tx' = tx, NEW pid \in Started(dev.v_pid),
                 dev' = IF pid = "none" THEN [dev EXCEPT !.v_pid = pid]
                        ELSE SwitchMode([dev EXCEPT !.v_pid = pid],
                                        IF dev.curr_mode = "IDLE_REQUEST"
                                        THEN "REQUEST_ACTIVE" ELSE "MANUAL_ACTIVE")
          PROVE  /\ Fits(dev') /\ dev'.sock_fd = dev.sock_fd
                 /\ tx' \in Seq(ClientCmds)
      <4> DEFINE d == [dev EXCEPT !.v_pid = pid]
                 m == IF dev.curr_mode = "IDLE_REQUEST" THEN "REQUEST_ACTIVE" ELSE "MANUAL_ACTIVE"
      <4>1. /\ d \in Device /\ d.curr_mode = dev.curr_mode /\ d.sock_fd = dev.sock_fd
            /\ d.v_pid = pid /\ d.a_pid = dev.a_pid
            /\ dev.v_pid # "none" => pid = dev.v_pid
            /\ pid = "none" => d = dev
        BY <3>1, <3>7 DEF Fits, Device, Pids, Started
      <4>0. dev' = IF pid = "none" THEN d ELSE SwitchMode(d, m)
        BY <3>7
      <4>m. m \in Modes /\ m \in {"MANUAL_ACTIVE", "REQUEST_ACTIVE"}
        BY DEF Modes
      <4> HIDE DEF d, m
      <4>2. CASE pid = "none"
        BY <3>1, <3>7, <4>0, <4>1, <4>2
      <4>3. CASE pid # "none"
        <5>1. d.curr_mode = m => Fits(d)
          BY <3>1, <4>1, <4>m, <4>3 DEF Fits, StreamModes, QuietModes
        <5>2. d.a_pid # "none" => d.v_pid # "none"
          BY <4>1, <4>3
        <5>3. Fits(SwitchMode(d, m))
          BY <4>1, <4>3, <4>m, <5>1, <5>2, SwitchModeFits
        <5>4. SwitchMode(d, m).sock_fd = dev.sock_fd
          BY <4>1, <4>m, SwitchModeFields
        <5> QED
          BY <3>1, <3>7, <4>0, <4>3, <5>3, <5>4
      <4> QED
        BY <4>2, <4>3
    <3>8. ASSUME dev.curr_mode = "REQUEST_ACTIVE", tx' = tx, NEW pid \in Started(dev.a_pid),
                 dev' = IF pid = "none" THEN [dev EXCEPT !.a_pid = pid]
                        ELSE SwitchMode([dev EXCEPT !.a_pid = pid], "REQUEST_RESPONDING")
          PROVE  /\ Fits(dev') /\ dev'.sock_fd = dev.sock_fd
                 /\ tx' \in Seq(ClientCmds)
      <4> DEFINE d == [dev EXCEPT !.a_pid = pid]
      <4>1. /\ d \in Device /\ d.curr_mode = "REQUEST_ACTIVE" /\ d.sock_fd = dev.sock_fd
            /\ d.v_pid = dev.v_pid /\ d.v_pid # "none" /\ d.a_pid = pid
            /\ pid = "none" => d = dev
        BY <3>1, <3>8 DEF Fits, Device, Pids, Started, StreamModes
      <4>2. CASE pid = "none"
        BY <3>1, <3>8, <4>1, <4>2
      <4>3. CASE pid # "none"
        <5>1. Fits(SwitchMode(d, "REQUEST_RESPONDING"))
          BY <4>1, <4>3, SwitchModeFits DEF Modes
        <5>2. SwitchMode(d, "REQUEST_RESPONDING").sock_fd = dev.sock_fd
          BY <4>1, SwitchModeFields DEF Modes
        <5> QED
          BY <3>1, <3>8, <4>3, <5>1, <5>2
      <4> QED
        BY <4>2, <4>3
    <3>9. CASE UNCHANGED <<dev, tx>>
      BY <3>1, <3>9
    <3> QED
      BY <2>1, <3>3, <3>4, <3>5, <3>6, <3>7, <3>8, <3>9 DEF Interpret
  <2>5. TypeOK'
    BY <1>0, <2>1, <2>2, <2>4, ClientAssumption DEF TypeOK, Fits, Ages
  <2>6. ProgramsMatchMode'
    BY <2>4 DEF ProgramsMatchMode, Fits
  <2>7. SocketMatchesMode' /\ KeepaliveBounded'
    BY <2>1, <2>2, <2>3, <2>4, ClientAssumption DEF SocketMatchesMode, KeepaliveBounded, TypeOK
  <2> QED
    BY <2>5, <2>6, <2>7
<1>2. CASE SockQuiet
  BY <1>2 DEF SockQuiet, timers, TypeOK, ProgramsMatchMode, SocketMatchesMode, KeepaliveBounded
<1>3. CASE SockError
  <2>1. /\ dev.curr_mode # "NO_CONNECTION" /\ dev' = SwitchMode(dev, "NO_CONNECTION")
        /\ pc' = "timer" /\ len' \in BOOLEAN /\ rx' = <<>> /\ tx' = <<>>
        /\ UNCHANGED <<connect_success, keepalive_ctr, scroff_age, reconn_age, keepalive_age>>
    BY <1>3 DEF SockError, timers
  <2>2. /\ Fits(dev') /\ dev'.curr_mode = "NO_CONNECTION" /\ dev'.sock_fd = "none"
    BY <2>1, IInvFits, SwitchModeFits, SwitchModeFields DEF Fits, Modes, StreamModes
  <2>3. TypeOK'
    BY <1>0, <2>1, <2>2 DEF TypeOK, Fits
  <2>4. ProgramsMatchMode'
    BY <2>2 DEF ProgramsMatchMode, Fits
  <2>5. SocketMatchesMode' /\ KeepaliveBounded'
    BY <2>1, <2>2 DEF SocketMatchesMode, KeepaliveBounded, TypeOK
  <2> QED
    BY <2>3, <2>4, <2>5
<1> QED
  BY <1>1, <1>2, <1>3 DEF Socket

\* The loop's timers - reconnect, keepalive, dark screen - keep the invariant.
LEMMA TimersStep == IInv /\ Timers => IInv'
<1> SUFFICES ASSUME IInv, Timers PROVE IInv'
  OBVIOUS
<1> USE DEF IInv
<1>0. <<>> \in Seq(ServerCmds) /\ <<>> \in Seq(ClientCmds)
  OBVIOUS
<1>1. CASE Reconnect
  <2>1. dev.curr_mode = "NO_CONNECTION" /\ dev.v_pid = "none" /\ dev.a_pid = "none"
    BY <1>1 DEF Reconnect, ProgramsMatchMode, QuietModes
  <2>2. PICK sock \in Socks : dev' = [dev EXCEPT !.sock_fd = sock]
    BY <1>1 DEF Reconnect, Socks
  <2>3. dev' \in Device /\ dev'.curr_mode = "NO_CONNECTION" /\ dev'.sock_fd = sock
        /\ dev'.v_pid = "none" /\ dev'.a_pid = "none"
    BY <2>1, <2>2 DEF TypeOK, Device
  <2>4. TypeOK'
    <3>1. /\ connect_success' \in BOOLEAN /\ reconn_age' \in {0, reconn_age}
          /\ pc' = "kbd" /\ rx' = <<>> /\ tx' = <<>>
          /\ UNCHANGED <<len, keepalive_ctr, scroff_age, keepalive_age>>
      BY <1>1 DEF Reconnect, TypeOK
    <3> QED
      BY <1>0, <2>3, <3>1, ClientAssumption DEF TypeOK, Ages
  <2>5. ProgramsMatchMode'
    BY <2>3 DEF ProgramsMatchMode, StreamModes
  <2>6. SocketMatchesMode' /\ KeepaliveBounded'
    BY <1>1, <2>1, <2>3 DEF Reconnect, SocketMatchesMode, KeepaliveBounded, TypeOK, Device
  <2> QED
    BY <2>4, <2>5, <2>6
<1>2. CASE AwaitConnect
  <2>1. /\ dev.curr_mode = "NO_CONNECTION" /\ dev.v_pid = "none" /\ dev.a_pid = "none"
        /\ reconn_age # Period
        /\ pc' = "kbd" /\ UNCHANGED <<scroff_age, reconn_age, keepalive_age, rx, tx>>
    BY <1>2, ClientAssumption DEF AwaitConnect, ProgramsMatchMode, QuietModes, timers, TypeOK, Ages
  <2>2. CASE UNCHANGED <<dev, connect_success, len, keepalive_ctr>>
    BY <2>1, <2>2 DEF TypeOK, ProgramsMatchMode, SocketMatchesMode, KeepaliveBounded
  <2>3. CASE /\ dev' = [dev EXCEPT !.sock_fd = "none"]
             /\ connect_success' = FALSE /\ len' = TRUE /\ UNCHANGED keepalive_ctr
    <3>1. dev' \in Device /\ dev'.curr_mode = "NO_CONNECTION" /\ dev'.sock_fd = "none"
          /\ dev'.v_pid = "none" /\ dev'.a_pid = "none"
      BY <2>1, <2>3 DEF TypeOK, Device, Socks
    <3> QED
      BY <2>1, <2>3, <3>1
      DEF TypeOK, ProgramsMatchMode, SocketMatchesMode, KeepaliveBounded, StreamModes
  <2>4. CASE /\ dev.sock_fd \in {"up", "fin"}
             /\ dev' = SwitchMode(dev, "NO_INTERNET")
             /\ connect_success' = FALSE /\ keepalive_ctr' = 0 /\ UNCHANGED len
    <3>1. Fits(dev') /\ dev'.curr_mode = "NO_INTERNET" /\ dev'.sock_fd = dev.sock_fd
      <4>1. dev \in Device /\ "NO_INTERNET" \in Modes
        BY DEF TypeOK, Modes
      <4>2. Fits(SwitchMode(dev, "NO_INTERNET"))
        BY <2>1, <4>1, SwitchModeFits DEF StreamModes
      <4> QED
        BY <2>1, <2>4, <4>1, <4>2, SwitchModeFields
    <3>2. TypeOK'
      <4>1. connect_success' \in BOOLEAN /\ len' = len
        BY <2>4, Zenon
      <4>2. keepalive_ctr' \in Int /\ keepalive_ctr' >= -KeepaliveLimit - 1
        BY <2>4, ClientAssumption
      <4> QED
        BY <2>1, <3>1, <4>1, <4>2 DEF TypeOK, Fits
    <3>3. ProgramsMatchMode'
      BY <3>1 DEF ProgramsMatchMode, Fits
    <3>4. SocketMatchesMode' /\ KeepaliveBounded'
      BY <2>4, <3>1, ClientAssumption DEF SocketMatchesMode, KeepaliveBounded
    <3> QED
      BY <3>2, <3>3, <3>4
  <2> QED
    BY <1>2, <2>2, <2>3, <2>4 DEF AwaitConnect, CountAfterConnect
<1>3. CASE TimerNoInternet
  <2>1. /\ dev.curr_mode = "NO_INTERNET" /\ ~ connect_success
        /\ keepalive_ctr >= -KeepaliveLimit
        /\ pc' = "kbd" /\ keepalive_age' \in {0, keepalive_age}
        /\ UNCHANGED <<connect_success, len, keepalive_ctr, scroff_age, reconn_age>>
    BY <1>3 DEF TimerNoInternet, SocketMatchesMode, KeepaliveBounded
  <2>2. CASE dev' = AfterSend(dev) /\ Buffers(dev', rx, TxAfter(dev, "p"))
    <3>1. rx' \in Seq(ServerCmds) /\ tx' \in Seq(ClientCmds)
      BY <2>2, BuffersType DEF ClientCmds
    <3>2. Fits(dev') /\ (dev' = dev \/ (dev'.curr_mode = "NO_CONNECTION" /\ dev'.sock_fd = "none"))
      BY <2>1, <2>2, IInvFits, AfterSendFits
    <3>3. TypeOK'
      BY <2>1, <3>1, <3>2, ClientAssumption DEF TypeOK, Fits, Ages
    <3>4. ProgramsMatchMode'
      BY <3>2 DEF ProgramsMatchMode, Fits
    <3>5. SocketMatchesMode' /\ KeepaliveBounded'
      BY <2>1, <3>2 DEF SocketMatchesMode, KeepaliveBounded, TypeOK
    <3> QED
      BY <3>3, <3>4, <3>5
  <2>3. CASE UNCHANGED <<dev, rx, tx>>
    BY <2>1, <2>3, ClientAssumption
    DEF TypeOK, ProgramsMatchMode, SocketMatchesMode, KeepaliveBounded, Ages
  <2> QED
    BY <1>3, <2>2, <2>3 DEF TimerNoInternet
<1>4. CASE TimerDefault
  <2> DEFINE dark == SwitchMode(dev, "IDLE_SCROFF")
             d == IF dev.curr_mode = "IDLE" /\ scroff_age = Period THEN dark ELSE dev
  <2>1. /\ dev.curr_mode \notin {"NO_CONNECTION", "NO_INTERNET"} /\ ~ connect_success
        /\ keepalive_ctr >= -KeepaliveLimit /\ keepalive_ctr \in Int
        /\ pc' = "kbd" /\ UNCHANGED <<connect_success, len, scroff_age, reconn_age>>
    BY <1>4 DEF TimerDefault, SocketMatchesMode, KeepaliveBounded, TypeOK
  <2>2. /\ Fits(d) /\ d.sock_fd = dev.sock_fd /\ d.curr_mode # "NO_CONNECTION"
        /\ d.curr_mode = dev.curr_mode \/ d.curr_mode = "IDLE_SCROFF"
    <3>1. CASE dev.curr_mode = "IDLE" /\ scroff_age = Period
      <4>1. dev.v_pid = "none" /\ dev.a_pid = "none"
        BY <3>1 DEF ProgramsMatchMode, QuietModes
      <4> QED
        BY <3>1, <4>1, IInvFits, SwitchModeFits, SwitchModeFields DEF Fits, Modes, StreamModes
    <3>2. CASE ~ (dev.curr_mode = "IDLE" /\ scroff_age = Period)
      BY <2>1, <3>2, IInvFits
    <3> QED
      BY <3>1, <3>2
  <2> HIDE DEF d
  <2>3. /\ Fits(AfterSend(d))
        /\ AfterSend(d) = d \/ (AfterSend(d).curr_mode = "NO_CONNECTION" /\ AfterSend(d).sock_fd = "none")
    BY <2>2, AfterSendFits
  <2>4. CASE /\ dev' = IF GivenUp THEN SwitchMode(AfterSend(d), "NO_CONNECTION") ELSE AfterSend(d)
             /\ Buffers(dev', rx, TxAfter(d, "p"))
             /\ keepalive_ctr' = keepalive_ctr - 1
             /\ keepalive_age' = 0
    <3>1. rx' \in Seq(ServerCmds) /\ tx' \in Seq(ClientCmds)
      BY <2>4, BuffersType DEF ClientCmds
    <3>2. /\ Fits(dev')
          /\ (~ GivenUp /\ dev' = d)
             \/ (dev'.curr_mode = "NO_CONNECTION" /\ dev'.sock_fd = "none")
      <4>1. CASE ~ GivenUp
        BY <2>3, <2>4, <4>1
      <4>2. CASE GivenUp
        <5>1. AfterSend(d) \in Device
          BY <2>3 DEF Fits
        <5>2. Fits(SwitchMode(AfterSend(d), "NO_CONNECTION"))
          BY <2>3, <5>1, SwitchModeFits DEF Fits, Modes, StreamModes
        <5>3. /\ SwitchMode(AfterSend(d), "NO_CONNECTION").curr_mode = "NO_CONNECTION"
              /\ SwitchMode(AfterSend(d), "NO_CONNECTION").sock_fd = "none"
          BY <2>2, <2>3, <5>1, SwitchModeFields DEF Modes
        <5> QED
          BY <2>4, <4>2, <5>2, <5>3
      <4> QED
        BY <4>1, <4>2
    <3>3. TypeOK'
      BY <2>1, <2>4, <3>1, <3>2, ClientAssumption DEF TypeOK, Fits, Ages
    <3>4. ProgramsMatchMode'
      BY <3>2 DEF ProgramsMatchMode, Fits
    <3>5. SocketMatchesMode'
      BY <2>1, <2>2, <3>2 DEF SocketMatchesMode
    <3>6. KeepaliveBounded'
      BY <2>1, <2>4, <3>2, ClientAssumption DEF KeepaliveBounded, GivenUp
    <3> QED
      BY <3>3, <3>4, <3>5, <3>6
  <2>5. CASE dev' = d /\ UNCHANGED <<rx, tx, keepalive_ctr, keepalive_age>>
    <3>1. TypeOK'
      BY <2>1, <2>2, <2>5 DEF TypeOK, Fits
    <3>2. ProgramsMatchMode'
      BY <2>2, <2>5 DEF ProgramsMatchMode, Fits
    <3>3. SocketMatchesMode' /\ KeepaliveBounded'
      BY <2>1, <2>2, <2>5 DEF SocketMatchesMode, KeepaliveBounded
    <3> QED
      BY <3>1, <3>2, <3>3
  <2> QED
    BY <1>4, <2>4, <2>5 DEF TimerDefault, d
<1> QED
  BY <1>1, <1>2, <1>3, <1>4 DEF Timers

\* Time, the children, the network and the server.
LEMMA EnvironmentStep == IInv /\ (Tick \/ Environment) => IInv'
<1> SUFFICES ASSUME IInv, Tick \/ Environment PROVE IInv'
  OBVIOUS
<1> USE DEF IInv
<1>1. CASE Tick
  <2>1. /\ UNCHANGED <<pc, dev, connect_success, len, keepalive_ctr, rx, tx>>
        /\ scroff_age' \in Ages /\ reconn_age' \in Ages /\ keepalive_age' \in Ages
        /\ reconn_age = Period => reconn_age' = Period
    BY <1>1, ClientAssumption DEF Tick, Older, TypeOK, Ages
  <2> QED
    BY <2>1 DEF TypeOK, ProgramsMatchMode, SocketMatchesMode, KeepaliveBounded
<1>2. CASE ProgramExits
  <2>1. UNCHANGED <<pc, connect_success, len, keepalive_ctr, scroff_age, reconn_age, keepalive_age, rx, tx>>
    BY <1>2 DEF ProgramExits, timers
  <2>2. /\ dev' \in Device /\ dev'.curr_mode = dev.curr_mode /\ dev'.sock_fd = dev.sock_fd
        /\ dev'.v_pid = "none" <=> dev.v_pid = "none"
        /\ dev'.a_pid = "none" <=> dev.a_pid = "none"
    BY <1>2 DEF ProgramExits, TypeOK, Device, Pids
  <2> QED
    BY <2>1, <2>2 DEF TypeOK, ProgramsMatchMode, SocketMatchesMode, KeepaliveBounded
<1>3. CASE Established \/ PeerCloses \/ NetFails
  <2>1. UNCHANGED <<pc, connect_success, len, keepalive_ctr, scroff_age, reconn_age, keepalive_age, rx, tx>>
    BY <1>3 DEF Established, PeerCloses, NetFails, NetChange, timers
  <2>2. PICK to \in {"up", "fin", "reset"} : dev.sock_fd # "none" /\ dev' = [dev EXCEPT !.sock_fd = to]
    BY <1>3 DEF Established, PeerCloses, NetFails, NetChange
  <2>3. /\ dev' \in Device /\ dev'.curr_mode = dev.curr_mode /\ dev'.sock_fd = to
        /\ dev'.v_pid = dev.v_pid /\ dev'.a_pid = dev.a_pid
    BY <2>2 DEF TypeOK, Device, Socks
  <2> QED
    BY <2>1, <2>2, <2>3 DEF TypeOK, ProgramsMatchMode, SocketMatchesMode, KeepaliveBounded
<1>4. CASE ServerReads \/ \E cmd \in ServerCmds : ServerSends(cmd)
  <2>1. UNCHANGED <<pc, dev, connect_success, len, keepalive_ctr, scroff_age, reconn_age, keepalive_age>>
    BY <1>4 DEF ServerReads, ServerSends, timers
  <2>2. rx' \in Seq(ServerCmds) /\ tx' \in Seq(ClientCmds)
    <3>1. rx \in Seq(ServerCmds) /\ tx \in Seq(ClientCmds)
      BY DEF TypeOK
    <3>2. CASE ServerReads
      <4>1. tx # <<>> /\ tx' = Tail(tx) /\ rx' = rx
        BY <3>2 DEF ServerReads
      <4> QED
        BY <3>1, <4>1
    <3>3. ASSUME NEW cmd \in ServerCmds, ServerSends(cmd)
          PROVE  rx' \in Seq(ServerCmds) /\ tx' \in Seq(ClientCmds)
      <4>1. rx' = Append(rx, cmd) /\ tx' = tx
        BY <3>3 DEF ServerSends
      <4> QED
        BY <3>1, <4>1
    <3> QED
      BY <1>4, <3>2, <3>3
  <2> QED
    BY <2>1, <2>2 DEF TypeOK, ProgramsMatchMode, SocketMatchesMode, KeepaliveBounded
<1> QED
  BY <1>1, <1>2, <1>3, <1>4 DEF Environment

\* Every step of the client, its network and its programs keeps the invariant.
LEMMA IInvStep == IInv /\ [Next]_vars => IInv'
<1>1. IInv /\ UNCHANGED vars => IInv'
  BY DEF vars, IInv, TypeOK, ProgramsMatchMode, SocketMatchesMode, KeepaliveBounded
<1> QED
  BY <1>1, KeyboardStep, SocketStep, TimersStep, EnvironmentStep DEF Next, MainLoop

\* The inductive invariant holds in every behaviour.
THEOREM Invariance == Spec => []IInv
<1> QED
  BY IInvInit, IInvStep, PTL DEF Spec

\* Every variable of the client keeps its type, and the count of missed pings is never more
\* than one below the limit.
THEOREM TypeCorrect == Spec => []TypeOK
<1>1. IInv => TypeOK
  BY DEF IInv
<1> QED
  BY <1>1, Invariance, PTL

\* Camera and microphone programs run only in modes that want them, for every
\* order of keys, server lines, failed forks and network failures.
THEOREM ProgramsFollowMode == Spec => []ProgramsMatchMode
<1>1. IInv => ProgramsMatchMode
  BY DEF IInv
<1> QED
  BY <1>1, Invariance, PTL

\* Only MODE_IDLE and its dark variant are ever entered without a socket, and a
\* connect is under way only in NO_CONNECTION.
THEOREM SocketFollowsMode == Spec => []SocketMatchesMode
<1>1. IInv => SocketMatchesMode
  BY DEF IInv
<1> QED
  BY <1>1, Invariance, PTL

\* The count of missed pings stays within the limit while connected.
THEOREM KeepaliveNeverOverruns == Spec => []KeepaliveBounded
<1>1. IInv => KeepaliveBounded
  BY DEF IInv
<1> QED
  BY <1>1, Invariance, PTL

\* The loop leaves NO_CONNECTION only into NO_INTERNET and with nothing left of the
\* session before.
THEOREM SessionsStartFresh == Spec => FreshSession
<1> DEFINE Fresh == dev.curr_mode = "NO_CONNECTION" /\ dev'.curr_mode # "NO_CONNECTION" =>
                      /\ dev'.curr_mode = "NO_INTERNET"
                      /\ dev'.v_pid = "none" /\ dev'.a_pid = "none"
                      /\ keepalive_ctr' = 0 /\ ~ connect_success'
<1>1. IInv /\ Next => Fresh
  <2> SUFFICES ASSUME IInv, Next, dev.curr_mode = "NO_CONNECTION",
                      dev'.curr_mode # "NO_CONNECTION"
               PROVE  Fresh
    OBVIOUS
  <2>0. dev \in Device
    BY DEF IInv, TypeOK
  <2>1. CASE Keyboard
    <3>1. ASSUME NEW key \in Keys, KeyPress(key) PROVE FALSE
      <4>1. Awake(dev) = dev
        BY DEF Awake
      <4> QED
        BY <3>1, <4>1 DEF KeyPress, EnterModes, MenuModes
    <3>2. CASE NoKey
      BY <3>2 DEF NoKey
    <3> QED
      BY <2>1, <3>1, <3>2 DEF Keyboard
  <2>2. CASE Socket
    BY <2>2 DEF Socket, SockRead, SockQuiet, SockError
  <2>3. CASE Timers
    <3>1. CASE Reconnect
      BY <2>0, <3>1 DEF Reconnect, Device
    <3>2. CASE AwaitConnect
      <4>1. /\ dev' = SwitchMode(dev, "NO_INTERNET")
            /\ connect_success' = FALSE /\ keepalive_ctr' = 0
        BY <2>0, <3>2 DEF AwaitConnect, CountAfterConnect, Device
      <4> QED
        BY <2>0, <4>1, SwitchModeFields DEF Modes
    <3>3. CASE TimerNoInternet \/ TimerDefault
      BY <3>3 DEF TimerNoInternet, TimerDefault
    <3> QED
      BY <2>3, <3>1, <3>2, <3>3 DEF Timers
  <2>4. CASE Tick \/ Environment
    BY <2>0, <2>4 DEF Tick, Environment, ProgramExits, Established, PeerCloses, NetFails,
       NetChange, ServerReads, ServerSends, Device
  <2> QED
    BY <2>1, <2>2, <2>3, <2>4 DEF Next, MainLoop
<1>2. IInv /\ [Next]_vars => [Fresh]_vars
  BY <1>1
<1> QED
  BY <1>2, Invariance, PTL DEF Spec, FreshSession
===============================================================================
