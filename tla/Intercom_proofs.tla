--------------------------- MODULE Intercom_proofs ---------------------------
(***************************************************************************)
(* The invariants of Intercom, whatever the buffers hold.                  *)
(*                                                                         *)
(* What the handler wrote and the panel did not interpret yet is one pipe, *)
(* rx and then wire.  The last status in it settles what the panel will    *)
(* take the door for; behind it only lines come that suit that status.     *)
(***************************************************************************)
EXTENDS Intercom, TLAPS

Pipe == rx \o wire

\* In q there is a line behind which only lines of rest come.
Ends(q, line, rest) ==
  \E i \in DOMAIN q : q[i] = line /\ \A j \in DOMAIN q : j > i => q[j] \in rest
Only(q, rest) == \A i \in DOMAIN q : q[i] \in rest

\* Every answer in q is followed by the status that takes it back.
Revoked(q) ==
  \A i \in DOMAIN q : q[i] = "a" => \E j \in DOMAIN q : j > i /\ q[j] \in {"s0", "s1"}
-----------------------------------------------------------------------------
(* Pipes. *)

\* A status at the end of a pipe is its last one.
LEMMA EndsWith ==
  ASSUME NEW T, NEW q \in Seq(T), NEW line \in T, NEW rest
  PROVE  Ends(Append(q, line), line, rest)
<1>. DEFINE p == Append(q, line)
<1>1. p \in Seq(T) /\ Len(p) = Len(q) + 1 /\ p[Len(p)] = line
  OBVIOUS
<1>2. Len(p) \in DOMAIN p /\ \A j \in DOMAIN p : ~(j > Len(p))
  BY <1>1
<1>. QED
  BY <1>1, <1>2 DEF Ends

\* It stays the last one when a line that suits it is written.
LEMMA EndsAppend ==
  ASSUME NEW T, NEW q \in Seq(T), NEW x \in T, NEW line, NEW rest, x \in rest,
         Ends(q, line, rest)
  PROVE  Ends(Append(q, x), line, rest)
<1>. DEFINE p == Append(q, x)
<1>1. PICK i \in DOMAIN q : q[i] = line /\ \A j \in DOMAIN q : j > i => q[j] \in rest
  BY DEF Ends
<1>2. /\ DOMAIN p = 1..(Len(q) + 1) /\ DOMAIN q = 1..Len(q)
      /\ \A j \in DOMAIN q : p[j] = q[j]
      /\ p[Len(q) + 1] = x
  OBVIOUS
<1>3. i \in DOMAIN p /\ p[i] = line
  BY <1>1, <1>2
<1>4. \A j \in DOMAIN p : j > i => p[j] \in rest
  BY <1>1, <1>2
<1>. HIDE DEF p
<1>5. Ends(p, line, rest)
  BY <1>3, <1>4 DEF Ends
<1>. QED
  BY <1>5 DEF p

\* A pipe of suiting lines stays one.
LEMMA OnlyAppend ==
  ASSUME NEW T, NEW q \in Seq(T), NEW x \in T, NEW rest, x \in rest, Only(q, rest)
  PROVE  Only(Append(q, x), rest)
BY DEF Only

\* The element behind the first one is the first of the rest.
LEMMA TailIs ==
  ASSUME NEW T, NEW q \in Seq(T), q # <<>>
  PROVE  /\ Tail(q) \in Seq(T) /\ DOMAIN q = 1..Len(q) /\ Len(q) \in Nat /\ Len(q) > 0
         /\ DOMAIN Tail(q) = 1..(Len(q) - 1)
         /\ \A i \in 1..(Len(q) - 1) : Tail(q)[i] = q[i + 1]
         /\ Head(q) = q[1] /\ Head(q) \in T
OBVIOUS

\* The first line is read: the last status is still to come, or it was that line.
LEMMA EndsTail ==
  ASSUME NEW T, NEW q \in Seq(T), q # <<>>, NEW line, NEW rest, Ends(q, line, rest)
  PROVE  Ends(Tail(q), line, rest) \/ (Head(q) = line /\ Only(Tail(q), rest))
<1>. DEFINE p == Tail(q)
<1>1. PICK i \in DOMAIN q : q[i] = line /\ \A j \in DOMAIN q : j > i => q[j] \in rest
  BY DEF Ends
<1>2. /\ DOMAIN q = 1..Len(q) /\ Len(q) \in Nat /\ DOMAIN p = 1..(Len(q) - 1)
      /\ \A k \in 1..(Len(q) - 1) : p[k] = q[k + 1]
      /\ Head(q) = q[1]
  BY TailIs
<1>. HIDE DEF p
<1>3. CASE i = 1
  <2>1. \A k \in DOMAIN p : p[k] \in rest
    BY <1>1, <1>2, <1>3
  <2>. QED
    BY <2>1, <1>1, <1>2, <1>3 DEF Only, p
<1>4. CASE i # 1
  <2>1. i - 1 \in DOMAIN p /\ p[i - 1] = line
    BY <1>1, <1>2, <1>4
  <2>2. \A k \in DOMAIN p : k > i - 1 => p[k] \in rest
    BY <1>1, <1>2, <1>4
  <2>3. Ends(p, line, rest)
    BY <2>1, <2>2 DEF Ends
  <2>. QED
    BY <2>3 DEF p
<1>. QED
  BY <1>3, <1>4

\* The rest of a pipe of suiting lines is one.
LEMMA OnlyTail ==
  ASSUME NEW T, NEW q \in Seq(T), q # <<>>, NEW rest, Only(q, rest)
  PROVE  Only(Tail(q), rest) /\ Head(q) \in rest
<1>. DEFINE p == Tail(q)
<1>1. /\ DOMAIN q = 1..Len(q) /\ Len(q) \in Nat /\ Len(q) > 0 /\ DOMAIN p = 1..(Len(q) - 1)
      /\ \A k \in 1..(Len(q) - 1) : p[k] = q[k + 1]
      /\ Head(q) = q[1]
  BY TailIs
<1>. HIDE DEF p
<1>2. Only(p, rest) /\ Head(q) \in rest
  BY <1>1 DEF Only
<1>. QED
  BY <1>2 DEF p

\* A line that is no answer leaves every answer revoked.
LEMMA RevokedAppend ==
  ASSUME NEW T, NEW q \in Seq(T), NEW x \in T, Revoked(q), x # "a"
  PROVE  Revoked(Append(q, x))
<1>. DEFINE p == Append(q, x)
<1>1. /\ DOMAIN p = 1..(Len(q) + 1) /\ DOMAIN q = 1..Len(q) /\ Len(q) \in Nat
      /\ \A j \in DOMAIN q : p[j] = q[j]
      /\ p[Len(q) + 1] = x
  OBVIOUS
<1>. HIDE DEF p
<1>2. ASSUME NEW i \in DOMAIN p, p[i] = "a"
      PROVE  \E j \in DOMAIN p : j > i /\ p[j] \in {"s0", "s1"}
  <2>1. i \in DOMAIN q /\ q[i] = "a"
    BY <1>1, <1>2
  <2>2. PICK j \in DOMAIN q : j > i /\ q[j] \in {"s0", "s1"}
    BY <2>1 DEF Revoked
  <2>3. j \in DOMAIN p /\ p[j] = q[j]
    BY <1>1
  <2>. QED
    BY <2>2, <2>3
<1>3. Revoked(p)
  BY <1>2 DEF Revoked
<1>. QED
  BY <1>3 DEF p

\* The first line is read: what revokes an answer is behind it.
LEMMA RevokedTail ==
  ASSUME NEW T, NEW q \in Seq(T), q # <<>>, Revoked(q)
  PROVE  /\ Revoked(Tail(q))
         /\ Head(q) = "a" => Elem("s0", Tail(q)) \/ Elem("s1", Tail(q))
<1>. DEFINE p == Tail(q)
<1>1. /\ DOMAIN q = 1..Len(q) /\ Len(q) \in Nat /\ Len(q) > 0 /\ DOMAIN p = 1..(Len(q) - 1)
      /\ \A k \in 1..(Len(q) - 1) : p[k] = q[k + 1]
      /\ Head(q) = q[1]
  BY TailIs
<1>. HIDE DEF p
<1>2. ASSUME NEW i \in DOMAIN q, q[i] = "a"
      PROVE  \E j \in DOMAIN p : j > i - 1 /\ p[j] \in {"s0", "s1"}
  <2>1. PICK j \in DOMAIN q : j > i /\ q[j] \in {"s0", "s1"}
    BY <1>2 DEF Revoked
  <2>2. j - 1 \in DOMAIN p /\ p[j - 1] = q[j] /\ j - 1 > i - 1
    BY <1>1, <2>1
  <2>. QED
    BY <2>1, <2>2
<1>3. ASSUME NEW i \in DOMAIN p, p[i] = "a"
      PROVE  \E j \in DOMAIN p : j > i /\ p[j] \in {"s0", "s1"}
  <2>1. i + 1 \in DOMAIN q /\ q[i + 1] = "a" /\ (i + 1) - 1 = i
    BY <1>1, <1>3
  <2>. QED
    BY <1>2, <2>1
<1>4. ASSUME Head(q) = "a"
      PROVE  Elem("s0", p) \/ Elem("s1", p)
  <2>1. 1 \in DOMAIN q /\ q[1] = "a"
    BY <1>1, <1>4
  <2>. QED
    BY <1>2, <2>1 DEF Elem
<1>5. Revoked(p)
  BY <1>3 DEF Revoked
<1>. QED
  BY <1>4, <1>5 DEF p

\* A pipe without answers, or whose last status takes them back.
LEMMA RevokedBy ==
  ASSUME NEW T, NEW q \in Seq(T), NEW line \in {"s0", "s1"}, NEW rest, "a" \notin rest
  PROVE  /\ Only(q, rest) => Revoked(q)
         /\ Ends(q, line, rest) => Revoked(q) /\ Elem(line, q)
<1>1. Only(q, rest) => Revoked(q)
  BY DEF Only, Revoked
<1>2. ASSUME Ends(q, line, rest)
      PROVE  Revoked(q) /\ Elem(line, q)
  <2>1. PICK i \in DOMAIN q : q[i] = line /\ \A j \in DOMAIN q : j > i => q[j] \in rest
    BY <1>2 DEF Ends
  <2>2. ASSUME NEW k \in DOMAIN q, q[k] = "a"
        PROVE  i > k
    <3>1. ~(k > i) /\ k # i
      BY <2>1, <2>2
    <3>2. k \in Int /\ i \in Int
      OBVIOUS
    <3>. QED
      BY <3>1, <3>2
  <2>. QED
    BY <2>1, <2>2 DEF Revoked, Elem
<1>. QED
  BY <1>1, <1>2

\* What is in a queue stays there when something is put behind it, and is at its head
\* or stays there when the head is taken.
LEMMA ElemKept ==
  ASSUME NEW T, NEW q \in Seq(T), NEW x \in T, NEW y
  PROVE  /\ Elem(y, q) => Elem(y, Append(q, x))
         /\ Elem(x, Append(q, x))
         /\ q # <<>> /\ Elem(y, q) => Head(q) = y \/ Elem(y, Tail(q))
<1>1. Elem(y, q) => Elem(y, Append(q, x))
  BY DEF Elem
<1>2. Elem(x, Append(q, x))
  <2>1. Len(q) + 1 \in DOMAIN Append(q, x) /\ Append(q, x)[Len(q) + 1] = x
    OBVIOUS
  <2>. QED
    BY <2>1 DEF Elem
<1>3. ASSUME q # <<>>, NEW i \in DOMAIN q, q[i] = y
      PROVE  Head(q) = y \/ Elem(y, Tail(q))
  <2>. DEFINE p == Tail(q)
  <2>1. /\ DOMAIN q = 1..Len(q) /\ Len(q) \in Nat /\ DOMAIN p = 1..(Len(q) - 1)
        /\ \A k \in 1..(Len(q) - 1) : p[k] = q[k + 1]
        /\ Head(q) = q[1]
    BY <1>3, TailIs
  <2>. HIDE DEF p
  <2>2. i = 1 \/ (i - 1 \in DOMAIN p /\ p[i - 1] = y)
    BY <1>3, <2>1
  <2>. QED
    BY <1>3, <2>1, <2>2 DEF Elem, p
<1>. QED
  BY <1>1, <1>2, <1>3 DEF Elem
-----------------------------------------------------------------------------
(* The invariant. *)

Points == {"off", "hello", "greet", "wait", "hangup", "decline", "open", "poll", "register"}

Endpoints == {"none", "pending", "open"}

Typed ==
  /\ dev \in C!Device
  /\ rx \in Seq(C!ServerCmds) /\ wire \in Seq(C!ServerCmds)
  /\ tx \in Seq(C!ClientCmds) /\ lost \in BOOLEAN
  /\ conn \in [{Panel} -> S!ConnType] /\ udp \in Endpoints /\ status \in {-1, 0, 1}

\* Nothing ages but the reconnection, no connection is closed but by a socket that is,
\* and until it was greeted the panel is as it was when it connected.
Still ==
  /\ keepalive_age = 0 /\ scroff_age = 0 /\ dev.curr_mode # "IDLE_SCROFF"
  /\ dev.sock_fd # "fin" /\ (dev.sock_fd \in {"connecting", "up"} => reconn_age = 0)
  /\ Handler.link = "up" /\ Handler.pc \in Points \cup S!Ended
  /\ Handler.pc = "off" => dev.curr_mode = "NO_CONNECTION" /\ dev.sock_fd # "up" /\ tx = <<>>
  /\ Handler.pc \in {"off", "hello", "greet"} =>
       /\ rx = <<>> /\ wire = <<>> /\ ~lost /\ Handler.prev = -1
       /\ dev.sock_fd = "up" => dev.curr_mode \in {"NO_CONNECTION", "NO_INTERNET"}
  /\ udp = "pending" => Handler.pc \in {"open", "dead"}
  /\ Handler.pc = "open" => Handler.prev = 1

Together == dev.sock_fd = "up" /\ Handler.pc \notin S!Ended /\ ~lost

Offline ==
  Handler.prev = -1 =>
    \/ dev.curr_mode \in {"NO_CONNECTION", "NO_INTERNET"} /\ Pipe = <<>>
    \/ Ends(Pipe, "s0", {})

Idle ==
  Handler.prev = 0 =>
    \/ dev.curr_mode \in {"IDLE", "MANUAL_ACTIVE"} /\ Only(Pipe, {"v"})
    \/ Ends(Pipe, "s1", {"v"})

\* The visitor was sent away: the d is on its way to the handler, or was read.
Fetched == Elem("d", tx) \/ Elem("d", Handler.lines)
Parting == Handler.pc = "register" \/ (Handler.pc = "poll" /\ status # 1)
Going == Handler.pc \in {"hangup", "decline"} \/ Parting

Called ==
  Handler.prev = 1 =>
    \/ dev.curr_mode \in RequestModes \cup {"MANUAL_ACTIVE"} /\ Only(Pipe, {"v", "a"})
    \/ Ends(Pipe, "s2", {"v", "a"})
    \/ Fetched \/ Going

\* Without an endpoint an answer is not believed for long.
Answered ==
  Handler.prev = 1 /\ udp # "open" /\ ~Parting =>
    /\ Revoked(Pipe)
    /\ dev.curr_mode = "REQUEST_RESPONDING" => ToldSoon("s0") \/ ToldSoon("s1")

Agreed == Offline /\ Idle /\ Called /\ Answered

IInv == Typed /\ Still /\ (Together => Agreed)
-----------------------------------------------------------------------------
(* The panel. *)

\* switch_mode sets the mode, and only NO_CONNECTION costs the socket.
LEMMA SwitchModeFields ==
  ASSUME NEW d \in C!Device, NEW m \in C!Modes
  PROVE  /\ C!SwitchMode(d, m) \in C!Device
         /\ C!SwitchMode(d, m).curr_mode = m
         /\ C!SwitchMode(d, m).sock_fd =
              IF d.curr_mode # m /\ m = "NO_CONNECTION" THEN "none" ELSE d.sock_fd
<1>1. CASE d.curr_mode = m
  BY <1>1 DEF C!SwitchMode
<1>2. CASE d.curr_mode # m /\ m = "NO_CONNECTION"
  BY <1>2 DEF C!SwitchMode, C!StoppingModes, C!StopPrograms, C!Device, C!Pids, C!Socks, C!Modes
<1>3. CASE d.curr_mode # m /\ m # "NO_CONNECTION"
  BY <1>3 DEF C!SwitchMode, C!StoppingModes, C!StopPrograms, C!Device, C!Pids, C!Socks, C!Modes
<1>. QED
  BY <1>1, <1>2, <1>3

\* A send leaves the device alone, or ends in NO_CONNECTION without a socket.
LEMMA AfterSendFields ==
  ASSUME NEW d \in C!Device, d.curr_mode # "NO_CONNECTION"
  PROVE  /\ C!AfterSend(d) \in C!Device
         /\ \/ C!AfterSend(d) = d
            \/ /\ C!AfterSend(d).curr_mode = "NO_CONNECTION" /\ C!AfterSend(d).sock_fd = "none"
               /\ ~C!CanSend(d)
<1>1. "NO_CONNECTION" \in C!Modes
  BY DEF C!Modes
<1>. QED
  BY <1>1, SwitchModeFields DEF C!AfterSend

\* What a turn of the panel can change besides the lines it interprets: a session
\* begins or breaks, a command is sent, and MENU leaves a view for IDLE with a d.
Turn ==
  /\ keepalive_age' = 0 /\ scroff_age' = 0
  /\ dev' \in C!Device /\ dev'.curr_mode # "IDLE_SCROFF" /\ dev'.sock_fd # "fin"
  /\ tx' \in Seq(C!ClientCmds) /\ rx' \in {rx, <<>>}
  /\ dev'.sock_fd \in {"connecting", "up"} => reconn_age' = 0
  /\ dev'.sock_fd = "up" =>
       /\ dev.sock_fd = "up" /\ rx' = rx
       /\ tx' = tx \/ \E cmd \in C!ClientCmds : tx' = Append(tx, cmd)
       /\ \/ dev'.curr_mode = dev.curr_mode
          \/ dev.curr_mode = "NO_CONNECTION" /\ dev'.curr_mode = "NO_INTERNET"
          \/ /\ dev.curr_mode \in C!MenuModes /\ dev'.curr_mode = "IDLE"
             /\ tx' = Append(tx, "d")
  /\ dev.curr_mode = "NO_CONNECTION" /\ dev.sock_fd # "up" =>
       dev'.curr_mode = "NO_CONNECTION" /\ dev'.sock_fd # "up" /\ tx' \in {tx, <<>>}
\* A key.
LEMMA KeyTurns ==
  ASSUME Typed, Still, NEW key \in C!Keys, C!KeyPress(key)
  PROVE  Turn
<1>. DEFINE d == C!Awake(dev)
<1>1. d = dev /\ dev \in C!Device /\ dev.curr_mode # "IDLE_SCROFF"
  BY DEF C!Awake, Still, Typed
<1>2. /\ scroff_age' = 0 /\ keepalive_age' = 0 /\ reconn_age' = reconn_age
      /\ dev.sock_fd # "fin" /\ (dev.sock_fd \in {"connecting", "up"} => reconn_age = 0)
  BY DEF C!KeyPress, Still
<1>3. tx \in Seq(C!ClientCmds) /\ <<>> \in Seq(C!ClientCmds)
  BY DEF Typed
<1>4. ASSUME NEW cmd \in C!ClientCmds, dev.curr_mode # "NO_CONNECTION",
             C!AfterSend(dev).sock_fd # "none" => dev.sock_fd # "none",
             NEW e, e.sock_fd = C!AfterSend(dev).sock_fd,
             C!Buffers(e, rx, C!TxAfter(dev, cmd))
      PROVE  /\ tx' \in Seq(C!ClientCmds) /\ rx' \in {rx, <<>>}
             /\ e.sock_fd = "up" =>
                  /\ dev.sock_fd = "up" /\ rx' = rx /\ C!AfterSend(dev) = dev
                  /\ tx' = tx \/ tx' = Append(tx, cmd)
                  /\ C!CanSend(dev) => tx' = Append(tx, cmd)
  <2>1. Append(tx, cmd) \in Seq(C!ClientCmds)
    BY <1>3, <1>4
  <2>2. C!TxAfter(dev, cmd) = tx \/ C!TxAfter(dev, cmd) = Append(tx, cmd)
    BY DEF C!TxAfter
  <2>3. C!CanSend(dev) => C!TxAfter(dev, cmd) = Append(tx, cmd)
    BY DEF C!TxAfter
  <2>4. \/ rx' = <<>> /\ tx' = <<>> /\ e.sock_fd = "none"
        \/ rx' = rx /\ tx' = C!TxAfter(dev, cmd) /\ e.sock_fd # "none"
    BY <1>4, Zenon DEF C!Buffers
  <2>5. C!AfterSend(dev) = dev \/ C!AfterSend(dev).sock_fd = "none"
    BY <1>1, <1>4, AfterSendFields
  <2>. QED
    BY <1>3, <1>4, <2>1, <2>2, <2>3, <2>4, <2>5
<1>5. CASE key = "ENTER" /\ dev.curr_mode \in C!EnterModes
  <2>1. dev.curr_mode # "NO_CONNECTION" /\ C!EnterCmd(dev.curr_mode) \in C!ClientCmds
    BY <1>5 DEF C!EnterModes, C!EnterCmd, C!ClientCmds
  <2>2. /\ dev' = C!AfterSend(dev)
        /\ C!Buffers(dev', rx, C!TxAfter(dev, C!EnterCmd(dev.curr_mode)))
    BY <1>1, <1>5 DEF C!KeyPress
  <2>3. /\ dev' \in C!Device
        /\ dev' = dev \/ (dev'.curr_mode = "NO_CONNECTION" /\ dev'.sock_fd = "none")
    BY <1>1, <2>1, <2>2, AfterSendFields
  <2>4. /\ tx' \in Seq(C!ClientCmds) /\ rx' \in {rx, <<>>}
        /\ dev'.sock_fd = "up" =>
             /\ dev.sock_fd = "up" /\ rx' = rx
             /\ tx' = tx \/ tx' = Append(tx, C!EnterCmd(dev.curr_mode))
    BY <1>4, <2>1, <2>2, <2>3
  <2>. QED
    BY <1>1, <1>2, <2>1, <2>3, <2>4 DEF Turn
<1>6. CASE key = "MENU" /\ dev.curr_mode \in C!MenuModes
  <2>1. dev.curr_mode # "NO_CONNECTION" /\ "d" \in C!ClientCmds /\ "IDLE" \in C!Modes
    BY <1>6 DEF C!MenuModes, C!ClientCmds, C!Modes
  <2>. DEFINE sent == C!AfterSend(dev)
  <2>2. /\ dev' = C!SwitchMode(sent, "IDLE")
        /\ C!Buffers(dev', rx, C!TxAfter(dev, "d"))
    BY <1>1, <1>6 DEF C!KeyPress
  <2>3. /\ sent \in C!Device
        /\ sent = dev \/ (sent.sock_fd = "none" /\ ~C!CanSend(dev))
    BY <1>1, <2>1, AfterSendFields
  <2>4. dev' \in C!Device /\ dev'.curr_mode = "IDLE" /\ dev'.sock_fd = sent.sock_fd
    BY <2>1, <2>2, <2>3, SwitchModeFields
  <2>5. /\ tx' \in Seq(C!ClientCmds) /\ rx' \in {rx, <<>>}
        /\ dev'.sock_fd = "up" =>
             /\ dev.sock_fd = "up" /\ rx' = rx /\ sent = dev
             /\ C!CanSend(dev) => tx' = Append(tx, "d")
    BY <1>4, <2>1, <2>2, <2>3, <2>4
  <2>6. dev'.sock_fd = "up" => tx' = Append(tx, "d")
    <3>1. sent = dev => C!CanSend(dev)
      BY <2>1, SwitchModeFields, <1>1 DEF C!AfterSend, C!Modes
    <3>. QED
      BY <2>5, <3>1
  <2>. QED
    BY <1>1, <1>2, <1>6, <2>1, <2>3, <2>4, <2>5, <2>6 DEF Turn
<1>7. CASE dev' = dev /\ UNCHANGED <<rx, tx>>
  BY <1>1, <1>2, <1>3, <1>7 DEF Turn
<1>. QED
  BY <1>1, <1>5, <1>6, <1>7 DEF C!KeyPress

\* The connection is established or not, and nothing else is due.
LEMMA TimersTurn ==
  ASSUME Typed, Still, C!Timers
  PROVE  Turn
<1>1. /\ dev \in C!Device /\ dev.curr_mode # "IDLE_SCROFF"
      /\ scroff_age = 0 /\ keepalive_age = 0
      /\ dev.sock_fd # "fin" /\ (dev.sock_fd \in {"connecting", "up"} => reconn_age = 0)
      /\ tx \in Seq(C!ClientCmds) /\ <<>> \in Seq(C!ClientCmds)
  BY DEF Typed, Still
<1>2. CASE C!Reconnect
  <2>1. /\ reconn_age = 1 /\ dev.curr_mode = "NO_CONNECTION" /\ rx' = <<>> /\ tx' = <<>>
        /\ scroff_age' = 0 /\ keepalive_age' = 0
    BY <1>1, <1>2 DEF C!Reconnect
  <2>2. \E sock \in {"none", "reset", "connecting"} :
          /\ dev' = [dev EXCEPT !.sock_fd = sock]
          /\ sock = "connecting" => reconn_age' = 0
    BY <1>2 DEF C!Reconnect
  <2>3. /\ dev' \in C!Device /\ dev'.curr_mode = "NO_CONNECTION" /\ dev'.sock_fd \notin {"up", "fin"}
        /\ dev'.sock_fd = "connecting" => reconn_age' = 0
    BY <1>1, <2>1, <2>2 DEF C!Device, C!Socks
  <2>. QED
    BY <1>1, <2>1, <2>3 DEF Turn
<1>3. CASE C!AwaitConnect
  <2>1. /\ dev.curr_mode = "NO_CONNECTION" /\ rx' = rx /\ tx' = tx
        /\ scroff_age' = 0 /\ keepalive_age' = 0 /\ reconn_age' = reconn_age
    BY <1>1, <1>3 DEF C!AwaitConnect, C!timers
  <2>2. \/ dev' = dev
        \/ dev.sock_fd = "reset" /\ dev' = [dev EXCEPT !.sock_fd = "none"]
        \/ dev.sock_fd \in {"up", "fin"} /\ dev' = C!SwitchMode(dev, "NO_INTERNET")
    BY <1>3 DEF C!AwaitConnect
  <2>3. CASE dev' = dev
    BY <1>1, <2>1, <2>3 DEF Turn
  <2>4. CASE dev.sock_fd = "reset" /\ dev' = [dev EXCEPT !.sock_fd = "none"]
    <3>1. dev' \in C!Device /\ dev'.curr_mode = "NO_CONNECTION" /\ dev'.sock_fd = "none"
      BY <1>1, <2>1, <2>4 DEF C!Device, C!Socks
    <3>. QED
      BY <1>1, <2>1, <3>1 DEF Turn
  <2>5. CASE dev.sock_fd \in {"up", "fin"} /\ dev' = C!SwitchMode(dev, "NO_INTERNET")
    <3>1. "NO_INTERNET" \in C!Modes
      BY DEF C!Modes
    <3>2. dev' \in C!Device /\ dev'.curr_mode = "NO_INTERNET" /\ dev'.sock_fd = dev.sock_fd
      BY <1>1, <2>5, <3>1, SwitchModeFields
    <3>3. dev.sock_fd \in {"up", "fin"}
      BY <2>5
    <3>. QED
      BY <1>1, <2>1, <3>2, <3>3 DEF Turn
  <2>. QED
    BY <2>2, <2>3, <2>4, <2>5
<1>4. CASE C!TimerNoInternet \/ C!TimerDefault
  <2>1. ~C!KeepaliveDue
    BY <1>1 DEF C!KeepaliveDue
  <2>2. /\ dev' = dev /\ rx' = rx /\ tx' = tx
        /\ scroff_age' = 0 /\ keepalive_age' = 0 /\ reconn_age' = reconn_age
    BY <1>1, <1>4, <2>1 DEF C!TimerNoInternet, C!TimerDefault
  <2>. QED
    BY <1>1, <2>2 DEF Turn
<1>. QED
  BY <1>2, <1>3, <1>4 DEF C!Timers

\* Whatever the panel does but interpret a line.
LEMMA PanelTurns ==
  ASSUME Typed, Still, PanelRuns
  PROVE  Turn /\ UNCHANGED <<server, wire, lost>>
<1>1. CASE C!NoKey \/ C!SockQuiet
  <2>1. UNCHANGED <<dev, scroff_age, reconn_age, keepalive_age, rx, tx>>
    BY <1>1 DEF C!NoKey, C!SockQuiet, C!timers
  <2>. QED
    BY <2>1 DEF Turn, Typed, Still, PanelRuns
<1>. QED
  BY <1>1, KeyTurns, TimersTurn DEF PanelRuns, C!Keyboard
\* The panel's own turn leaves the two in agreement: it changes its view by itself
\* only to send a visitor away.
LEMMA PanelKeeps ==
  ASSUME IInv, PanelRuns
  PROVE  IInv'
<1>1. Typed /\ Still
  BY DEF IInv
<1>2. Turn /\ UNCHANGED <<server, wire, lost>>
  BY <1>1, PanelTurns
<1>3. Handler' = Handler /\ conn' = conn /\ udp' = udp /\ status' = status /\ wire' = wire /\ lost' = lost
  BY <1>2 DEF server, Handler
<1>4. Typed'
  <2>1. <<>> \in Seq(C!ServerCmds)
    OBVIOUS
  <2>. QED
    BY <1>1, <1>2, <1>3, <2>1 DEF Typed, Turn
<1>5. Still'
  <2>1. Handler.pc = "off" => dev'.curr_mode = "NO_CONNECTION" /\ dev'.sock_fd # "up" /\ tx' = <<>>
    BY <1>1, <1>2 DEF Still, Turn
  <2>2. Handler.pc \in {"off", "hello", "greet"} => rx' = <<>>
    BY <1>1, <1>2 DEF Still, Turn
  <2>3. Handler.pc \in {"off", "hello", "greet"} /\ dev'.sock_fd = "up" =>
          dev'.curr_mode \in {"NO_CONNECTION", "NO_INTERNET"}
    BY <1>1, <1>2 DEF Still, Turn, C!MenuModes
  <2>. QED
    BY <1>1, <1>2, <1>3, <2>1, <2>2, <2>3 DEF Still, Turn
<1>6. ASSUME Together' PROVE Agreed'
  <2>1. Together /\ dev'.sock_fd = "up"
    BY <1>2, <1>3, <1>6 DEF Together, Turn
  <2>2. Offline /\ Idle /\ Called /\ Answered
    BY <2>1 DEF IInv, Agreed
  <2>3. Pipe' = Pipe
    BY <1>2, <1>3, <2>1 DEF Pipe, Turn
  <2>4. Fetched => Fetched'
    <3>1. tx \in Seq(C!ClientCmds)
      BY <1>1 DEF Typed
    <3>2. Elem("d", tx) => Elem("d", tx')
      BY <1>2, <2>1, <3>1, ElemKept DEF Turn
    <3>. QED
      BY <1>3, <3>2 DEF Fetched
  <2>5. Going' <=> Going
    BY <1>3 DEF Going, Parting
  <2>6. Parting' <=> Parting
    BY <1>3 DEF Parting
  <2>7. \/ dev'.curr_mode = dev.curr_mode
        \/ dev.curr_mode = "NO_CONNECTION" /\ dev'.curr_mode = "NO_INTERNET"
        \/ dev.curr_mode \in C!MenuModes /\ dev'.curr_mode = "IDLE" /\ Fetched'
    <3>1. tx \in Seq(C!ClientCmds) /\ "d" \in C!ClientCmds
      BY <1>1 DEF Typed, C!ClientCmds
    <3>2. tx' = Append(tx, "d") => Fetched'
      <4>1. Elem("d", Append(tx, "d"))
        BY <3>1, ElemKept
      <4>. QED
        BY <4>1 DEF Fetched
    <3>. QED
      BY <1>2, <2>1, <3>2 DEF Turn
  <2>8. Offline'
    BY <1>3, <2>2, <2>3, <2>7 DEF Offline, C!MenuModes
  <2>9. Idle'
    BY <1>3, <2>2, <2>3, <2>7 DEF Idle
  <2>10. Called'
    BY <1>3, <2>2, <2>3, <2>4, <2>5, <2>7 DEF Called, RequestModes
  <2>11. Answered'
    BY <1>3, <2>2, <2>3, <2>6, <2>7 DEF Answered, ToldSoon, Pipe
  <2>. QED
    BY <2>8, <2>9, <2>10, <2>11 DEF Agreed
<1>. QED
  BY <1>4, <1>5, <1>6 DEF IInv

\* The mode after a line, while the connection lasts.
LEMMA LineRead ==
  ASSUME Typed, Still, C!SockRead
  PROVE  /\ dev' \in C!Device /\ dev'.curr_mode # "IDLE_SCROFF"
         /\ dev'.sock_fd \in {"up", "none"} /\ dev.sock_fd = "up"
         /\ tx' \in Seq(C!ClientCmds) /\ (dev'.sock_fd = "up" =>
              tx' = tx \/ \E cmd \in C!ClientCmds : tx' = Append(tx, cmd))
         /\ dev'.sock_fd = "up" =>
              /\ Head(rx) = "s0" => dev'.curr_mode = "NO_INTERNET"
              /\ Head(rx) \in {"s1", "e"} => dev'.curr_mode = "IDLE"
              /\ Head(rx) = "s2" => dev'.curr_mode \in {"REQUEST_ACTIVE", "IDLE_REQUEST"}
              /\ Head(rx) = "v" =>
                   \/ dev'.curr_mode \in {dev.curr_mode, "MANUAL_ACTIVE"}
                   \/ dev.curr_mode = "IDLE_REQUEST" /\ dev'.curr_mode = "REQUEST_ACTIVE"
              /\ Head(rx) = "a" =>
                   \/ dev'.curr_mode = dev.curr_mode
                   \/ dev.curr_mode = "REQUEST_ACTIVE" /\ dev'.curr_mode = "REQUEST_RESPONDING"
              /\ Head(rx) = "p" => dev'.curr_mode = dev.curr_mode
<1>1. /\ dev \in C!Device /\ dev.curr_mode # "NO_CONNECTION" /\ dev.curr_mode # "IDLE_SCROFF"
      /\ dev.sock_fd = "up" /\ C!Interpret(Head(rx))
      /\ tx \in Seq(C!ClientCmds) /\ <<>> \in Seq(C!ClientCmds)
      /\ Append(tx, "a") \in Seq(C!ClientCmds) /\ Append(tx, "r") \in Seq(C!ClientCmds)
      /\ "a" \in C!ClientCmds /\ "r" \in C!ClientCmds
  BY DEF C!SockRead, Typed, Still, C!ClientCmds
<1>2. \A m \in C!Modes : /\ C!SwitchMode(dev, m) \in C!Device
                         /\ C!SwitchMode(dev, m).curr_mode = m
                         /\ C!SwitchMode(dev, m).sock_fd = IF m = "NO_CONNECTION" THEN "none" ELSE "up"
  BY <1>1, SwitchModeFields
<1>3. {"NO_INTERNET", "IDLE", "REQUEST_ACTIVE", "IDLE_REQUEST", "NO_CONNECTION", "MANUAL_ACTIVE",
       "REQUEST_RESPONDING"} \subseteq C!Modes
  BY DEF C!Modes
<1>4. CASE Head(rx) = "s0" /\ dev' = C!SwitchMode(dev, "NO_INTERNET") /\ tx' = tx
  BY <1>1, <1>2, <1>3, <1>4
<1>5. CASE Head(rx) \in {"s1", "e"} /\ dev' = C!SwitchMode(dev, "IDLE") /\ tx' = tx
  BY <1>1, <1>2, <1>3, <1>5
<1>6. CASE /\ Head(rx) = "s2" /\ dev.curr_mode = "MANUAL_ACTIVE"
           /\ LET d == C!SwitchMode(dev, "REQUEST_ACTIVE") IN
                dev' = C!AfterSend(d) /\ tx' = (IF C!CanSend(d) THEN Append(tx, "a") ELSE <<>>)
  <2>. DEFINE d == C!SwitchMode(dev, "REQUEST_ACTIVE")
  <2>1. d \in C!Device /\ d.curr_mode = "REQUEST_ACTIVE" /\ d.sock_fd = "up"
    BY <1>1, <1>2, <1>3
  <2>2. dev' = C!AfterSend(d) /\ tx' = (IF C!CanSend(d) THEN Append(tx, "a") ELSE <<>>)
    BY <1>6
  <2>. HIDE DEF d
  <2>3. /\ dev' \in C!Device
        /\ \/ dev' = d
           \/ dev'.curr_mode = "NO_CONNECTION" /\ dev'.sock_fd = "none"
    BY <2>1, <2>2, AfterSendFields
  <2>4. dev'.sock_fd = "up" => tx' = Append(tx, "a")
    <3>1. ~C!CanSend(d) => dev'.sock_fd = "none"
      BY <1>3, <2>1, <2>2, SwitchModeFields DEF C!AfterSend
    <3>. QED
      BY <2>2, <3>1
  <2>5. tx' \in Seq(C!ClientCmds)
    BY <1>1, <2>2
  <2>6. Head(rx) = "s2"
    BY <1>6
  <2>. QED
    BY <1>1, <2>1, <2>3, <2>4, <2>5, <2>6
<1>7. CASE /\ Head(rx) = "s2"
           /\ dev' = (IF C!CanSend(dev) THEN C!SwitchMode(dev, "IDLE_REQUEST")
                                        ELSE C!SwitchMode(dev, "NO_CONNECTION"))
           /\ tx' = (IF C!CanSend(dev) THEN Append(tx, "r") ELSE <<>>)
  BY <1>1, <1>2, <1>3, <1>7
<1>8. CASE /\ Head(rx) = "v" /\ tx' = tx
           /\ \E pid \in C!Started(dev.v_pid) :
                LET d == [dev EXCEPT !.v_pid = pid] IN
                  dev' = IF pid = "none" THEN d
                         ELSE C!SwitchMode(d, IF dev.curr_mode = "IDLE_REQUEST"
                                              THEN "REQUEST_ACTIVE" ELSE "MANUAL_ACTIVE")
  <2>1. PICK pid \in C!Started(dev.v_pid) :
          dev' = IF pid = "none" THEN [dev EXCEPT !.v_pid = pid]
                 ELSE C!SwitchMode([dev EXCEPT !.v_pid = pid],
                                   IF dev.curr_mode = "IDLE_REQUEST"
                                   THEN "REQUEST_ACTIVE" ELSE "MANUAL_ACTIVE")
    BY <1>8
  <2>. DEFINE d == [dev EXCEPT !.v_pid = pid]
              m == IF dev.curr_mode = "IDLE_REQUEST" THEN "REQUEST_ACTIVE" ELSE "MANUAL_ACTIVE"
  <2>2. d \in C!Device /\ d.curr_mode = dev.curr_mode /\ d.sock_fd = "up"
    BY <1>1 DEF C!Device, C!Started, C!Pids
  <2>3. m \in C!Modes /\ m # "NO_CONNECTION"
    BY <1>3
  <2>4. /\ C!SwitchMode(d, m) \in C!Device /\ C!SwitchMode(d, m).curr_mode = m
        /\ C!SwitchMode(d, m).sock_fd = "up"
    BY <2>2, <2>3, SwitchModeFields
  <2>5. dev' = d \/ dev' = C!SwitchMode(d, m)
    BY <2>1
  <2>. HIDE DEF d
  <2>. QED
    BY <1>1, <1>3, <1>8, <2>2, <2>4, <2>5
<1>9. CASE /\ Head(rx) = "a" /\ dev.curr_mode = "REQUEST_ACTIVE" /\ tx' = tx
           /\ \E pid \in C!Started(dev.a_pid) :
                LET d == [dev EXCEPT !.a_pid = pid] IN
                  dev' = IF pid = "none" THEN d ELSE C!SwitchMode(d, "REQUEST_RESPONDING")
  <2>1. PICK pid \in C!Started(dev.a_pid) :
          dev' = IF pid = "none" THEN [dev EXCEPT !.a_pid = pid]
                 ELSE C!SwitchMode([dev EXCEPT !.a_pid = pid], "REQUEST_RESPONDING")
    BY <1>9
  <2>. DEFINE d == [dev EXCEPT !.a_pid = pid]
  <2>2. d \in C!Device /\ d.curr_mode = dev.curr_mode /\ d.sock_fd = "up"
    BY <1>1 DEF C!Device, C!Started, C!Pids
  <2>3. /\ C!SwitchMode(d, "REQUEST_RESPONDING") \in C!Device
        /\ C!SwitchMode(d, "REQUEST_RESPONDING").curr_mode = "REQUEST_RESPONDING"
        /\ C!SwitchMode(d, "REQUEST_RESPONDING").sock_fd = "up"
    <3>1. "REQUEST_RESPONDING" \in C!Modes
      BY <1>3
    <3>. HIDE DEF d
    <3>. QED
      BY <2>2, <3>1, SwitchModeFields
  <2>. HIDE DEF d
  <2>. QED
    BY <1>1, <1>9, <2>1, <2>2, <2>3 DEF d
<1>10. CASE Head(rx) \in {"a", "p"} /\ UNCHANGED <<dev, tx>>
  BY <1>1, <1>10
<1>. QED
  BY <1>1, <1>4, <1>5, <1>6, <1>7, <1>8, <1>9, <1>10 DEF C!Interpret
\* The pipe when the buffer holds one line.
LEMMA OneInFront ==
  ASSUME NEW T, NEW r \in Seq(T), NEW w \in Seq(T), r # <<>>, Len(r) <= 1
  PROVE  /\ r \o w \in Seq(T) /\ r \o w # <<>>
         /\ Head(r \o w) = Head(r) /\ Tail(r \o w) = w
<1>1. PICK k \in Nat : k = Len(r)
  OBVIOUS
<1>2. k <= 1 /\ k # 0
  BY <1>1
<1>3. k = 1
  BY <1>2
<1>. DEFINE p == r \o w
<1>4. p \in Seq(T) /\ Len(p) = k + Len(w) /\ Len(w) \in Nat
  BY <1>1
<1>5. /\ \A i \in 1..k : p[i] = r[i]
      /\ \A i \in 1..Len(w) : p[i + k] = w[i]
  BY <1>1
<1>. HIDE DEF p
<1>6. p # <<>> /\ Head(p) = Head(r)
  BY <1>3, <1>4, <1>5
<1>7. Tail(p) \in Seq(T) /\ Len(Tail(p)) = Len(w) /\ \A i \in 1..Len(w) : Tail(p)[i] = w[i]
  BY <1>3, <1>4, <1>5, <1>6
<1>8. Tail(p) = w
  BY <1>7
<1>. QED
  BY <1>4, <1>6, <1>8 DEF p

\* The panel interprets the first line of the pipe.
LEMMA PipeRead ==
  ASSUME Typed, rx # <<>>, Len(rx) <= 1, rx' = <<>>, wire' = wire
  PROVE  /\ Pipe \in Seq(C!ServerCmds) /\ Pipe # <<>>
         /\ Head(Pipe) = Head(rx) /\ Pipe' = Tail(Pipe)
<1>1. rx \in Seq(C!ServerCmds) /\ wire \in Seq(C!ServerCmds)
  BY DEF Typed
<1>2. /\ Pipe \in Seq(C!ServerCmds) /\ Pipe # <<>>
      /\ Head(Pipe) = Head(rx) /\ Tail(Pipe) = wire
  BY <1>1, OneInFront DEF Pipe
<1>3. Pipe' = wire
  BY <1>1 DEF Pipe
<1>. QED
  BY <1>2, <1>3

\* A line that arrives goes from the wire to the buffer.
LEMMA PipeMoves ==
  ASSUME Typed, wire # <<>>, rx' = Append(rx, Head(wire)), wire' = Tail(wire)
  PROVE  Pipe' = Pipe /\ rx' \in Seq(C!ServerCmds) /\ wire' \in Seq(C!ServerCmds)
<1>1. rx \in Seq(C!ServerCmds) /\ wire \in Seq(C!ServerCmds)
  BY DEF Typed
<1>2. rx' \in Seq(C!ServerCmds) /\ wire' \in Seq(C!ServerCmds)
  BY <1>1
<1>3. Append(rx, Head(wire)) \o Tail(wire) = rx \o wire
  BY <1>1
<1>. QED
  BY <1>2, <1>3 DEF Pipe

\* A line is read.  Unless others were lost with it, the panel is where the line
\* leads, and the next status to come is the last one still.
LEMMA ReadKeeps ==
  ASSUME IInv, SocketReads
  PROVE  IInv'
<1>1. Typed /\ Still
  BY DEF IInv
<1>2. /\ C!SockRead /\ lost' = (lost \/ Len(rx) > 1)
      /\ UNCHANGED <<server, wire>>
  BY DEF SocketReads
<1>3. Handler' = Handler /\ conn' = conn /\ udp' = udp /\ status' = status /\ wire' = wire
  BY <1>2 DEF server, Handler
<1>4. /\ rx # <<>> /\ rx' = <<>> /\ dev.curr_mode # "NO_CONNECTION"
      /\ keepalive_age' = keepalive_age /\ reconn_age' = reconn_age /\ scroff_age' \in {0, scroff_age}
  BY <1>2 DEF C!SockRead
<1>5. /\ dev' \in C!Device /\ dev'.curr_mode # "IDLE_SCROFF"
      /\ dev'.sock_fd \in {"up", "none"} /\ dev.sock_fd = "up"
      /\ tx' \in Seq(C!ClientCmds)
  BY <1>1, <1>2, LineRead
<1>6. Handler.pc \notin {"off", "hello", "greet"}
  BY <1>1, <1>4 DEF Still
<1>7. Typed'
  <2>1. <<>> \in Seq(C!ServerCmds) /\ lost' \in BOOLEAN
    BY <1>2
  <2>. QED
    BY <1>1, <1>3, <1>4, <1>5, <2>1 DEF Typed
<1>8. Still'
  BY <1>1, <1>3, <1>4, <1>5, <1>6 DEF Still
<1>9. ASSUME Together' PROVE Agreed'
  <2>1. Together /\ dev'.sock_fd = "up" /\ Len(rx) <= 1
    <3>1. ~(lost \/ Len(rx) > 1) /\ dev'.sock_fd = "up" /\ Handler.pc \notin S!Ended
      BY <1>2, <1>3, <1>9 DEF Together
    <3>2. rx \in Seq(C!ServerCmds)
      BY <1>1 DEF Typed
    <3>. QED
      BY <1>5, <3>1, <3>2 DEF Together
  <2>2. Offline /\ Idle /\ Called /\ Answered
    BY <2>1 DEF IInv, Agreed
  <2>3. /\ Pipe \in Seq(C!ServerCmds) /\ Pipe # <<>>
        /\ Head(Pipe) = Head(rx) /\ Pipe' = Tail(Pipe)
    BY <1>1, <1>3, <1>4, <2>1, PipeRead
  <2>. DEFINE line == Head(Pipe)
              mode == dev'.curr_mode
  <2>4. /\ line = "s0" => mode = "NO_INTERNET"
        /\ line \in {"s1", "e"} => mode = "IDLE"
        /\ line = "s2" => mode \in {"REQUEST_ACTIVE", "IDLE_REQUEST"}
        /\ line = "v" =>
             \/ mode \in {dev.curr_mode, "MANUAL_ACTIVE"}
             \/ dev.curr_mode = "IDLE_REQUEST" /\ mode = "REQUEST_ACTIVE"
        /\ line = "a" =>
             \/ mode = dev.curr_mode
             \/ dev.curr_mode = "REQUEST_ACTIVE" /\ mode = "REQUEST_RESPONDING"
        /\ line = "p" => mode = dev.curr_mode
        /\ line \in C!ServerCmds
    <3>1. line = Head(rx) /\ line \in C!ServerCmds
      BY <2>3
    <3>. HIDE DEF line
    <3>. QED
      BY <1>1, <1>2, <2>1, <3>1, LineRead
  <2>5. Fetched => Fetched'
    <3>1. tx' = tx \/ \E cmd \in C!ClientCmds : tx' = Append(tx, cmd)
      BY <1>1, <1>2, <2>1, LineRead
    <3>2. tx \in Seq(C!ClientCmds)
      BY <1>1 DEF Typed
    <3>3. Elem("d", tx) => Elem("d", tx')
      BY <3>1, <3>2, ElemKept
    <3>. QED
      BY <1>3, <3>3 DEF Fetched
  <2>6. (Going' <=> Going) /\ (Parting' <=> Parting)
    BY <1>3 DEF Going, Parting
  <2>. HIDE DEF line, mode
  <2>7. ASSUME Handler.prev = -1 PROVE Ends(Pipe', "s0", {}) \/ (mode = "NO_INTERNET" /\ Pipe' = <<>>)
    <3>1. Ends(Pipe, "s0", {})
      BY <2>2, <2>3, <2>7 DEF Offline
    <3>2. Ends(Tail(Pipe), "s0", {}) \/ (line = "s0" /\ Only(Tail(Pipe), {}))
      BY <2>3, <3>1, EndsTail DEF line
    <3>3. Only(Tail(Pipe), {}) => Tail(Pipe) = <<>>
      <4>1. Tail(Pipe) \in Seq(C!ServerCmds)
        BY <2>3
      <4>. QED
        BY <4>1 DEF Only
    <3>. QED
      BY <2>3, <2>4, <3>2, <3>3
  <2>8. ASSUME Handler.prev = 0
        PROVE  Ends(Pipe', "s1", {"v"}) \/ (mode \in {"IDLE", "MANUAL_ACTIVE"} /\ Only(Pipe', {"v"}))
    <3>1. CASE Ends(Pipe, "s1", {"v"})
      <4>1. Ends(Tail(Pipe), "s1", {"v"}) \/ (line = "s1" /\ Only(Tail(Pipe), {"v"}))
        BY <2>3, <3>1, EndsTail DEF line
      <4>. QED
        BY <2>3, <2>4, <4>1
    <3>2. CASE dev.curr_mode \in {"IDLE", "MANUAL_ACTIVE"} /\ Only(Pipe, {"v"})
      <4>1. Only(Tail(Pipe), {"v"}) /\ line = "v"
        BY <2>3, <3>2, OnlyTail DEF line
      <4>. QED
        BY <2>3, <2>4, <3>2, <4>1
    <3>. QED
      BY <2>2, <2>8, <3>1, <3>2 DEF Idle
  <2>9. ASSUME Handler.prev = 1, ~Fetched, ~Going
        PROVE  \/ Ends(Pipe', "s2", {"v", "a"})
               \/ mode \in RequestModes \cup {"MANUAL_ACTIVE"} /\ Only(Pipe', {"v", "a"})
    <3>1. CASE Ends(Pipe, "s2", {"v", "a"})
      <4>1. Ends(Tail(Pipe), "s2", {"v", "a"}) \/ (line = "s2" /\ Only(Tail(Pipe), {"v", "a"}))
        BY <2>3, <3>1, EndsTail DEF line
      <4>. QED
        BY <2>3, <2>4, <4>1 DEF RequestModes
    <3>2. CASE dev.curr_mode \in RequestModes \cup {"MANUAL_ACTIVE"} /\ Only(Pipe, {"v", "a"})
      <4>1. Only(Tail(Pipe), {"v", "a"}) /\ line \in {"v", "a"}
        BY <2>3, <3>2, OnlyTail DEF line
      <4>. QED
        BY <2>3, <2>4, <3>2, <4>1 DEF RequestModes
    <3>. QED
      BY <2>2, <2>9, <3>1, <3>2 DEF Called
  <2>10. ASSUME Handler.prev = 1, udp # "open", ~Parting
         PROVE  /\ Revoked(Pipe')
                /\ mode = "REQUEST_RESPONDING" => Elem("s0", Pipe') \/ Elem("s1", Pipe')
    <3>1. /\ Revoked(Pipe)
          /\ dev.curr_mode = "REQUEST_RESPONDING" => Elem("s0", Pipe) \/ Elem("s1", Pipe)
      BY <2>2, <2>10 DEF Answered, ToldSoon, Pipe
    <3>2. /\ Revoked(Pipe')
          /\ line = "a" => Elem("s0", Pipe') \/ Elem("s1", Pipe')
      BY <2>3, <3>1, RevokedTail DEF line
    <3>3. ASSUME NEW y, Elem(y, Pipe) PROVE line = y \/ Elem(y, Pipe')
      BY <2>3, <3>3, ElemKept DEF line
    <3>4. ASSUME mode = "REQUEST_RESPONDING"
          PROVE  Elem("s0", Pipe') \/ Elem("s1", Pipe')
      <4>1. line \notin {"s0", "s1", "s2", "e"}
        BY <2>4, <3>4
      <4>2. line = "a" \/ dev.curr_mode = "REQUEST_RESPONDING"
        BY <2>4, <3>4, <4>1 DEF C!ServerCmds
      <4>. QED
        BY <3>1, <3>2, <3>3, <4>1, <4>2
    <3>. QED
      BY <3>2, <3>4
  <2>11. Offline' /\ Idle'
    BY <1>3, <2>7, <2>8 DEF Offline, Idle, mode
  <2>12. Called'
    BY <1>3, <2>5, <2>6, <2>9 DEF Called, mode
  <2>13. Answered'
    BY <1>3, <2>6, <2>10 DEF Answered, ToldSoon, Pipe, mode
  <2>. QED
    BY <2>11, <2>12, <2>13 DEF Agreed
<1>. QED
  BY <1>7, <1>8, <1>9 DEF IInv
-----------------------------------------------------------------------------
(* The handler. *)

\* The handler is a record.
LEMMA HandlerIs ==
  ASSUME Typed
  PROVE  /\ Handler \in S!ConnType /\ Handler.prev \in {-1, 0, 1}
         /\ Handler.lines \in Seq(C!ClientCmds)
BY DEF Typed, Handler, S!ConnType

\* It becomes the one that a step makes of it.
LEMMA BecomesGives ==
  ASSUME Typed, NEW r \in S!ConnType, S!Becomes(Panel, r)
  PROVE  Handler' = r /\ conn' \in [{Panel} -> S!ConnType]
BY DEF Typed, Handler, S!Becomes

\* A handler's record with another point of control.
LEMMA PointChanges ==
  ASSUME NEW r \in S!ConnType, NEW p \in Points \cup S!Ended
  PROVE  LET q == [r EXCEPT !.pc = p]
         IN /\ q \in S!ConnType /\ q.pc = p
            /\ q.prev = r.prev /\ q.lines = r.lines /\ q.link = r.link
BY DEF S!ConnType, Points, S!Running, S!Suspended, S!Ended

\* What is left of a handler that died.
LEMMA OverGives ==
  ASSUME NEW r \in S!ConnType
  PROVE  /\ S!Over(r, "dead") \in S!ConnType
         /\ S!Over(r, "dead").pc = "dead" /\ S!Over(r, "dead").link = "up"
<1>1. <<>> \in Seq(C!ClientCmds)
  OBVIOUS
<1>2. S!NewConn \in S!ConnType /\ S!NewConn.link = "up"
  BY <1>1 DEF S!NewConn, S!ConnType
<1>. QED
  BY <1>2 DEF S!Over, S!ConnType, S!Ended

\* On a connection that is up the loop goes on waiting.
LEMMA LoopWaits ==
  ASSUME NEW r \in S!ConnType, r.link = "up"
  PROVE  LET q == S!Loop(r)
         IN /\ q \in S!ConnType /\ q.pc = "wait"
            /\ q.prev = r.prev /\ q.lines = r.lines /\ q.link = "up"
<1>1. S!Loop(r) = [r EXCEPT !.pc = "wait"]
  BY DEF S!Loop
<1>. QED
  BY <1>1, PointChanges DEF Points

\* One line is taken out of the buffer.
LEMMA LineTaken ==
  ASSUME Typed, Still, NEW line, S!Reads(Panel, line), NEW p \in Points
  PROVE  LET q == S!AfterLine(Panel, p)
         IN /\ q \in S!ConnType /\ q.pc = p /\ q.prev = Handler.prev /\ q.link = "up"
            /\ Handler.pc = "wait" /\ Handler.lines # <<>> /\ Head(Handler.lines) = line
            /\ q.lines = Tail(Handler.lines)
            /\ Elem("d", Handler.lines) => line = "d" \/ Elem("d", q.lines)
<1>1. /\ Handler.pc = "wait" /\ Handler.lines # <<>> /\ Head(Handler.lines) = line
      /\ Handler \in S!ConnType /\ Handler.lines \in Seq(C!ClientCmds) /\ Handler.link = "up"
  BY HandlerIs DEF S!Reads, S!HasData, S!At, Handler, Still
<1>2. Tail(Handler.lines) \in Seq(C!ClientCmds) /\ (line \in S!Commands) \in BOOLEAN
  BY <1>1
<1>3. /\ S!AfterLine(Panel, p) = [Handler EXCEPT !.pc = p, !.woken = FALSE,
                                  !.lines = Tail(Handler.lines), !.nul = line \in S!Commands]
  BY <1>1 DEF S!AfterLine, Handler
<1>. DEFINE q == [Handler EXCEPT !.pc = p, !.woken = FALSE,
                                  !.lines = Tail(Handler.lines), !.nul = line \in S!Commands]
<1>4. /\ q \in S!ConnType /\ q.pc = p /\ q.prev = Handler.prev /\ q.link = "up"
      /\ q.lines = Tail(Handler.lines)
  BY <1>1, <1>2 DEF S!ConnType, Points, S!Running, S!Suspended
<1>5. Elem("d", Handler.lines) => line = "d" \/ Elem("d", Tail(Handler.lines))
  BY <1>1, ElemKept
<1>. HIDE DEF q
<1>. QED
  BY <1>1, <1>3, <1>4, <1>5 DEF q

\* What a step writes goes to the end of the pipe.
LEMMA WritesGive ==
  ASSUME Typed, NEW lines \in Seq(C!ServerCmds), Writes(lines)
  PROVE  /\ dev' = dev /\ rx' = rx /\ tx' = tx /\ lost' = lost
         /\ reconn_age' = reconn_age /\ keepalive_age' = keepalive_age /\ scroff_age' = scroff_age
         /\ wire' \in Seq(C!ServerCmds) /\ Pipe \in Seq(C!ServerCmds)
         /\ Pipe' = Pipe \o lines
         /\ lines = <<>> => Pipe' = Pipe /\ wire' = wire
<1>1. rx \in Seq(C!ServerCmds) /\ wire \in Seq(C!ServerCmds)
  BY DEF Typed
<1>2. /\ wire' = wire \o lines
      /\ dev' = dev /\ rx' = rx /\ tx' = tx /\ lost' = lost
      /\ reconn_age' = reconn_age /\ keepalive_age' = keepalive_age /\ scroff_age' = scroff_age
  BY DEF Writes, panel
<1>3. /\ wire \o lines \in Seq(C!ServerCmds) /\ rx \o wire \in Seq(C!ServerCmds)
      /\ rx \o (wire \o lines) = (rx \o wire) \o lines
      /\ lines = <<>> => wire \o lines = wire
  BY <1>1
<1>. QED
  BY <1>2, <1>3 DEF Pipe

\* One line more.
LEMMA OneMore ==
  ASSUME NEW T, NEW q \in Seq(T), NEW x \in T
  PROVE  q \o <<x>> = Append(q, x)
OBVIOUS

\* A step that leaves the pipe alone and does not forget that the visitor was sent away.
LEMMA QuietAgrees ==
  ASSUME Agreed, Handler'.prev = Handler.prev, Pipe' = Pipe, dev'.curr_mode = dev.curr_mode,
         Handler.prev = 1 /\ (Fetched \/ Going) => Fetched' \/ Going',
         Handler.prev = 1 /\ ~Parting' => ~Parting /\ udp' = udp
  PROVE  Agreed'
<1>1. Offline' /\ Idle'
  BY DEF Agreed, Offline, Idle
<1>2. Called'
  BY DEF Agreed, Called
<1>3. Answered'
  BY DEF Agreed, Answered, ToldSoon, Pipe
<1>. QED
  BY <1>1, <1>2, <1>3 DEF Agreed

\* A step of a handler that was greeted.
LEMMA StepKeeps ==
  ASSUME IInv, dev.sock_fd = "up", Handler.pc \notin S!Ended,
         dev' = dev, rx' = rx, tx' = tx, lost' = lost, reconn_age' = reconn_age,
         keepalive_age' = keepalive_age, scroff_age' = scroff_age,
         wire' \in Seq(C!ServerCmds), conn' \in [{Panel} -> S!ConnType],
         Handler'.link = "up", udp' \in Endpoints, status' \in {-1, 0, 1},
         Handler'.pc \in (Points \ {"off", "hello", "greet"}) \cup S!Ended,
         udp' = "pending" => Handler'.pc \in {"open", "dead"},
         Handler'.pc = "open" => Handler'.prev = 1,
         Agreed /\ Handler'.pc \notin S!Ended => Agreed'
  PROVE  IInv'
<1>1. Typed'
  BY DEF IInv, Typed
<1>2. Still'
  BY DEF IInv, Still, S!Ended
<1>3. Together' => Agreed'
  BY DEF IInv, Together
<1>. QED
  BY <1>1, <1>2, <1>3 DEF IInv-----------------------------------------------------------------------------
(* The handler's steps. *)

Talking == dev.sock_fd = "up" /\ Handler.pc \notin S!Ended

\* A handler that died where it was.
LEMMA DiesKeeps ==
  ASSUME IInv, Talking, Writes(<<>>), conn' \in [{Panel} -> S!ConnType],
         Handler'.pc = "dead", Handler'.link = "up", udp' \in Endpoints, status' \in {-1, 0, 1}
  PROVE  IInv'
<1>1. /\ dev' = dev /\ rx' = rx /\ tx' = tx /\ lost' = lost /\ wire' \in Seq(C!ServerCmds)
      /\ reconn_age' = reconn_age /\ keepalive_age' = keepalive_age /\ scroff_age' = scroff_age
  <2>1. <<>> \in Seq(C!ServerCmds) /\ Typed
    BY DEF IInv
  <2>. QED
    BY <2>1, WritesGive
<1>. QED
  BY <1>1, StepKeeps DEF Talking, S!Ended, IInv, Typed

\* stop_proc ends with the endpoint gone, or the handler dies.
LEMMA StopProcGives ==
  ASSUME Typed, NEW r \in S!ConnType, r.link = "up", S!StopProcThen(Panel, r)
  PROVE  /\ conn' \in [{Panel} -> S!ConnType] /\ Handler'.link = "up" /\ udp' \in Endpoints
         /\ \/ Handler' = r /\ udp' = "none"
            \/ Handler'.pc = "dead"
<1>1. Handler \in S!ConnType /\ conn[Panel] = Handler /\ udp \in Endpoints
  BY HandlerIs DEF Handler, Typed
<1>2. CASE S!StopProcRaises
  <2>1. S!Becomes(Panel, S!Over(Handler, "dead"))
    BY <1>1, <1>2 DEF S!StopProcThen
  <2>2. /\ S!Over(Handler, "dead") \in S!ConnType
        /\ S!Over(Handler, "dead").pc = "dead" /\ S!Over(Handler, "dead").link = "up"
    BY <1>1, OverGives
  <2>3. udp' = udp
    BY <1>2 DEF S!StopProcThen, S!StopProc
  <2>. QED
    BY <1>1, <2>1, <2>2, <2>3, BecomesGives
<1>3. CASE ~S!StopProcRaises
  <2>1. S!Becomes(Panel, r) /\ udp' = "none"
    BY <1>3 DEF S!StopProcThen, S!StopProc
  <2>. QED
    BY <2>1, BecomesGives DEF Endpoints
<1>. QED
  BY <1>2, <1>3

\* The greeting leaves s0 in the pipe.
LEMMA GreetKeeps ==
  ASSUME IInv, Talking, Greets
  PROVE  IInv'
<1>1. Typed /\ Still
  BY DEF IInv
<1>2. Handler \in S!ConnType /\ Handler.link = "up" /\ Handler.pc = "greet" /\ conn[Panel] = Handler
  BY <1>1, HandlerIs DEF Still, Greets, S!Greet, S!At, Handler
<1>3. rx = <<>> /\ wire = <<>> /\ ~lost /\ Handler.prev = -1
  BY <1>1, <1>2 DEF Still
<1>. DEFINE r == S!Loop(Handler)
<1>4. r \in S!ConnType /\ r.pc = "wait" /\ r.prev = -1 /\ r.link = "up"
  BY <1>2, <1>3, LoopWaits
<1>5. S!StopProcThen(Panel, r) /\ Writes(<<"e", "s0">>) /\ status' = status
  <2>1. S!Written(Panel, r) = r
    BY <1>2 DEF S!Written
  <2>. QED
    BY <1>2, <2>1 DEF Greets, S!Greet
<1>. HIDE DEF r
<1>6. /\ conn' \in [{Panel} -> S!ConnType] /\ Handler'.link = "up" /\ udp' \in Endpoints
      /\ (Handler' = r /\ udp' = "none") \/ Handler'.pc = "dead"
  BY <1>1, <1>4, <1>5, StopProcGives
<1>7. /\ dev' = dev /\ rx' = rx /\ tx' = tx /\ lost' = lost
      /\ reconn_age' = reconn_age /\ keepalive_age' = keepalive_age /\ scroff_age' = scroff_age
      /\ wire' \in Seq(C!ServerCmds) /\ Pipe' = Pipe \o <<"e", "s0">>
  <2>1. <<"e", "s0">> \in Seq(C!ServerCmds)
    BY DEF C!ServerCmds
  <2>. QED
    BY <1>1, <1>5, <2>1, WritesGive
<1>8. ASSUME Handler'.pc \notin S!Ended PROVE Agreed'
  <2>1. Handler'.prev = -1
    BY <1>4, <1>6, <1>8 DEF S!Ended
  <2>2. Pipe' = Append(<<"e">>, "s0")
    BY <1>3, <1>7 DEF Pipe
  <2>3. Ends(Pipe', "s0", {})
    <3>1. <<"e">> \in Seq({"e", "s0"})
      OBVIOUS
    <3>. QED
      BY <2>2, <3>1, EndsWith
  <2>. QED
    BY <2>1, <2>3 DEF Agreed, Offline, Idle, Called, Answered
<1>9. Handler'.pc \in {"wait", "dead"} /\ (udp' = "pending" => Handler'.pc = "dead")
  BY <1>4, <1>6
<1>. QED
  BY <1>5, <1>6, <1>7, <1>8, <1>9, StepKeeps DEF Talking, Points, S!Ended, IInv, Typed

\* A line whose answer suits the status, or is none, keeps the agreement.
LEMMA SuitingKeeps ==
  ASSUME IInv, Talking, Handler.pc \in {"wait", "open"},
         NEW lines \in {<<>>, <<"v">>, <<"a">>}, Writes(lines),
         conn' \in [{Panel} -> S!ConnType], Handler'.link = "up",
         Handler'.pc \in {"poll", "open"}, Handler'.prev = Handler.prev,
         Handler'.pc = "open" => Handler.prev = 1,
         udp' \in Endpoints, status' = status, udp' = "pending" => Handler'.pc = "open",
         Elem("d", Handler.lines) => Elem("d", Handler'.lines),
         lines = <<>> => udp' = udp \/ (udp = "none" /\ udp' = "pending"),
         lines = <<"v">> => Handler.prev # -1 /\ udp' = udp,
         lines = <<"a">> => Handler.prev = 1 /\ udp' = "open"
  PROVE  IInv'
<1>1. Typed /\ Handler.prev \in {-1, 0, 1}
  BY HandlerIs DEF IInv
<1>2. lines \in Seq(C!ServerCmds)
  <2>1. "v" \in C!ServerCmds /\ "a" \in C!ServerCmds
    BY DEF C!ServerCmds
  <2>2. <<>> \in Seq(C!ServerCmds) /\ <<"v">> \in Seq(C!ServerCmds) /\ <<"a">> \in Seq(C!ServerCmds)
    BY <2>1
  <2>. QED
    BY <2>2
<1>3. /\ dev' = dev /\ rx' = rx /\ tx' = tx /\ lost' = lost
      /\ reconn_age' = reconn_age /\ keepalive_age' = keepalive_age /\ scroff_age' = scroff_age
      /\ wire' \in Seq(C!ServerCmds) /\ Pipe \in Seq(C!ServerCmds) /\ Pipe' = Pipe \o lines
      /\ lines = <<>> => Pipe' = Pipe
  BY <1>1, <1>2, WritesGive
<1>4. ~Going /\ ~Parting /\ (Fetched => Fetched')
  BY <1>3 DEF Going, Parting, Fetched
<1>5. ASSUME Agreed PROVE Agreed'
  <2>1. CASE lines = <<>>
    <3>1. Pipe' = Pipe
      BY <1>3, <2>1
    <3>2. Offline' /\ Idle' /\ Called'
      BY <1>3, <1>4, <1>5, <3>1 DEF Agreed, Offline, Idle, Called
    <3>3. Answered'
      BY <1>3, <1>4, <1>5, <2>1, <3>1 DEF Agreed, Answered, ToldSoon, Pipe
    <3>. QED
      BY <3>2, <3>3 DEF Agreed
  <2>2. ASSUME NEW x \in {"v", "a"}, lines = <<x>>
        PROVE  Agreed'
    <3>1. x \in C!ServerCmds /\ Pipe' = Append(Pipe, x)
      <4>1. x \in C!ServerCmds
        BY DEF C!ServerCmds
      <4>. QED
        BY <1>3, <2>2, <4>1, OneMore
    <3>2. /\ x = "v" => Handler.prev # -1 /\ udp' = udp
          /\ x = "a" => Handler.prev = 1 /\ udp' = "open"
      BY <2>2
    <3>3. Handler.prev # -1
      BY <3>2
    <3>4. Idle'
      <4>1. ASSUME Handler.prev = 0
            PROVE  \/ dev.curr_mode \in {"IDLE", "MANUAL_ACTIVE"} /\ Only(Append(Pipe, x), {"v"})
                   \/ Ends(Append(Pipe, x), "s1", {"v"})
        <5>1. x = "v"
          BY <3>2, <4>1
        <5>2. \/ dev.curr_mode \in {"IDLE", "MANUAL_ACTIVE"} /\ Only(Pipe, {"v"})
              \/ Ends(Pipe, "s1", {"v"})
          BY <1>5, <4>1 DEF Agreed, Idle
        <5>3. Only(Pipe, {"v"}) => Only(Append(Pipe, x), {"v"})
          BY <1>3, <3>1, <5>1, OnlyAppend
        <5>4. Ends(Pipe, "s1", {"v"}) => Ends(Append(Pipe, x), "s1", {"v"})
          BY <1>3, <3>1, <5>1, EndsAppend
        <5>. QED
          BY <5>2, <5>3, <5>4
      <4>. QED
        BY <1>3, <3>1, <4>1 DEF Idle
    <3>5. Called'
      <4>1. ASSUME Handler.prev = 1, ~Fetched'
            PROVE  \/ dev.curr_mode \in RequestModes \cup {"MANUAL_ACTIVE"} /\ Only(Append(Pipe, x), {"v", "a"})
                   \/ Ends(Append(Pipe, x), "s2", {"v", "a"})
        <5>1. \/ dev.curr_mode \in RequestModes \cup {"MANUAL_ACTIVE"} /\ Only(Pipe, {"v", "a"})
              \/ Ends(Pipe, "s2", {"v", "a"})
          BY <1>4, <1>5, <4>1 DEF Agreed, Called
        <5>2. Only(Pipe, {"v", "a"}) => Only(Append(Pipe, x), {"v", "a"})
          BY <1>3, <3>1, OnlyAppend
        <5>3. Ends(Pipe, "s2", {"v", "a"}) => Ends(Append(Pipe, x), "s2", {"v", "a"})
          BY <1>3, <3>1, EndsAppend
        <5>. QED
          BY <5>1, <5>2, <5>3
      <4>. QED
        BY <1>3, <3>1, <4>1 DEF Called
    <3>6. Answered'
      <4>1. CASE x = "a"
        BY <3>2, <4>1 DEF Answered
      <4>2. ASSUME x = "v", Handler.prev = 1, udp # "open"
            PROVE  /\ Revoked(Append(Pipe, x))
                   /\ dev.curr_mode = "REQUEST_RESPONDING" =>
                        Elem("s0", Append(Pipe, x)) \/ Elem("s1", Append(Pipe, x))
        <5>1. /\ Revoked(Pipe)
              /\ dev.curr_mode = "REQUEST_RESPONDING" => Elem("s0", Pipe) \/ Elem("s1", Pipe)
          BY <1>4, <1>5, <4>2 DEF Agreed, Answered, ToldSoon, Pipe
        <5>2. Revoked(Append(Pipe, x))
          BY <1>3, <3>1, <4>2, <5>1, RevokedAppend
        <5>3. \A y : Elem(y, Pipe) => Elem(y, Append(Pipe, x))
          BY <1>3, <3>1, ElemKept
        <5>. QED
          BY <5>1, <5>2, <5>3
      <4>. QED
        BY <1>3, <3>1, <3>2, <4>1, <4>2 DEF Answered, ToldSoon, Pipe
    <3>. QED
      BY <3>3, <3>4, <3>5, <3>6 DEF Agreed, Offline
  <2>. QED
    BY <2>1, <2>2
<1>. QED
  BY <1>3, <1>5, StepKeeps DEF Talking, Points, S!Ended, IInv, Typed
\* A line other than d whose handler goes on to the status.
LEMMA LineKeeps ==
  ASSUME IInv, Talking, NEW line, S!Reads(Panel, line), line # "d",
         NEW p \in {"poll", "open"}, S!Becomes(Panel, S!AfterLine(Panel, p)),
         p = "open" => Handler.prev = 1,
         udp' \in Endpoints, status' = status, udp' = "pending" => p = "open",
         NEW lines \in {<<>>, <<"v">>, <<"a">>}, Writes(lines),
         lines = <<>> => udp' = udp \/ (udp = "none" /\ udp' = "pending"),
         lines = <<"v">> => Handler.prev # -1 /\ udp' = udp,
         lines = <<"a">> => Handler.prev = 1 /\ udp' = "open"
  PROVE  IInv'
<1>1. Typed /\ Still /\ p \in Points
  BY DEF IInv, Points
<1>. DEFINE q == S!AfterLine(Panel, p)
<1>2. /\ q \in S!ConnType /\ q.pc = p /\ q.prev = Handler.prev /\ q.link = "up"
      /\ Handler.pc = "wait"
      /\ Elem("d", Handler.lines) => line = "d" \/ Elem("d", q.lines)
  BY <1>1, LineTaken
<1>3. Handler' = q /\ conn' \in [{Panel} -> S!ConnType]
  BY <1>1, <1>2, BecomesGives
<1>. HIDE DEF q
<1>. QED
  BY <1>2, <1>3, SuitingKeeps

\* The picture.
LEMMA ShowsKeeps ==
  ASSUME IInv, Talking, Shows
  PROVE  IInv'
<1>1. /\ S!Reads(Panel, "r") /\ Handler.prev # -1 /\ udp' = udp /\ status' = status
      /\ S!Becomes(Panel, S!AfterLine(Panel, "poll"))
      /\ Writes(<<"v">>) \/ Writes(<<>>)
  BY DEF Shows, S!Show, Handler
<1>2. Handler.pc = "wait" /\ udp # "pending" /\ udp \in Endpoints
  BY <1>1 DEF Typed, IInv, Still, S!Reads, S!HasData, S!At, Handler
<1>3. CASE Writes(<<"v">>)
  BY <1>1, <1>2, <1>3, LineKeeps
<1>4. CASE Writes(<<>>)
  BY <1>1, <1>2, <1>4, LineKeeps
<1>. QED
  BY <1>1, <1>3, <1>4

\* A late answer: s1, and the status that follows it is another.
LEMMA AcceptLateKeeps ==
  ASSUME IInv, Talking, S!AcceptLate(Panel), Writes(<<"s1">>)
  PROVE  IInv'
<1>1. Typed /\ Still /\ "poll" \in Points
  BY DEF IInv, Points
<1>2. /\ S!Reads(Panel, "a") /\ Handler.prev = 1 /\ status # 1 /\ status' = status /\ udp' = udp
      /\ S!Becomes(Panel, [S!AfterLine(Panel, "poll") EXCEPT !.told = 0])
  BY DEF S!AcceptLate, S!streams, Handler
<1>. DEFINE q == S!AfterLine(Panel, "poll")
            r == [q EXCEPT !.told = 0]
<1>3. /\ q \in S!ConnType /\ q.pc = "poll" /\ q.prev = Handler.prev /\ q.link = "up"
      /\ Handler.pc = "wait"
  BY <1>1, <1>2, LineTaken
<1>4. r \in S!ConnType /\ r.pc = "poll" /\ r.prev = 1 /\ r.link = "up"
  <2>. HIDE DEF q
  <2>. QED
    BY <1>2, <1>3 DEF S!ConnType
<1>5. S!Becomes(Panel, r)
  BY <1>2
<1>. HIDE DEF r
<1>6. Handler' = r /\ conn' \in [{Panel} -> S!ConnType]
  BY <1>1, <1>4, <1>5, BecomesGives
<1>7. /\ dev' = dev /\ rx' = rx /\ tx' = tx /\ lost' = lost
      /\ reconn_age' = reconn_age /\ keepalive_age' = keepalive_age /\ scroff_age' = scroff_age
      /\ wire' \in Seq(C!ServerCmds)
  <2>1. <<"s1">> \in Seq(C!ServerCmds)
    BY DEF C!ServerCmds
  <2>. QED
    BY <1>1, <2>1, WritesGive
<1>8. udp # "pending" /\ udp \in Endpoints
  BY <1>1, <1>3 DEF Still, Typed
<1>9. Parting' /\ Going' /\ Handler'.prev = 1
  BY <1>2, <1>4, <1>6 DEF Parting, Going
<1>10. Agreed'
  BY <1>9 DEF Agreed, Offline, Idle, Called, Answered
<1>. QED
  BY <1>2, <1>4, <1>6, <1>7, <1>8, <1>10, StepKeeps DEF Talking, Points, S!Ended, IInv, Typed

\* The answer, when there is an endpoint; until then nothing is written.
LEMMA AcceptKeeps ==
  ASSUME IInv, Talking, S!Accept(Panel), Writes(IF S!EndpointExists THEN <<"a">> ELSE <<>>)
  PROVE  IInv'
<1>1. Typed /\ Still
  BY DEF IInv
<1>2. /\ S!Reads(Panel, "a") /\ Handler.prev = 1 /\ conn[Panel] = Handler /\ status' = status
      /\ IF S!EndpointExists
         THEN udp' = udp /\ S!Becomes(Panel, S!AfterLine(Panel, "poll"))
         ELSE /\ udp' = "pending"
              /\ \E new \in {S!AfterLine(Panel, "open"), S!Over(conn[Panel], "dead")} :
                   S!Becomes(Panel, new)
  BY DEF S!Accept, Handler
<1>3. Handler.pc = "wait" /\ udp # "pending" /\ udp \in Endpoints
  BY <1>1, <1>2 DEF Typed, Still, S!Reads, S!HasData, S!At, Handler
<1>4. CASE udp # "none"
  <2>1. S!EndpointExists
    BY <1>4 DEF S!EndpointExists
  <2>2. udp' = udp /\ S!Becomes(Panel, S!AfterLine(Panel, "poll")) /\ Writes(<<"a">>)
    BY <1>2, <2>1
  <2>3. CASE udp = "open"
    BY <1>2, <2>2, <2>3, LineKeeps DEF Endpoints
  <2>. QED
    BY <1>3, <1>4, <2>3 DEF Endpoints
<1>5. CASE udp = "none"
  <2>1. ~S!EndpointExists
    BY <1>5 DEF S!EndpointExists
  <2>2. /\ udp' = "pending" /\ Writes(<<>>)
        /\ \/ S!Becomes(Panel, S!AfterLine(Panel, "open"))
           \/ S!Becomes(Panel, S!Over(Handler, "dead"))
    BY <1>2, <2>1
  <2>3. CASE S!Becomes(Panel, S!AfterLine(Panel, "open"))
    BY <1>2, <1>5, <2>2, <2>3, LineKeeps DEF Endpoints
  <2>4. CASE S!Becomes(Panel, S!Over(Handler, "dead"))
    <3>1. /\ S!Over(Handler, "dead") \in S!ConnType
          /\ S!Over(Handler, "dead").pc = "dead" /\ S!Over(Handler, "dead").link = "up"
      BY <1>1, HandlerIs, OverGives
    <3>2. conn' \in [{Panel} -> S!ConnType] /\ Handler'.pc = "dead" /\ Handler'.link = "up"
      BY <1>1, <2>4, <3>1, BecomesGives
    <3>. QED
      BY <1>1, <1>2, <2>2, <3>2, DiesKeeps DEF Endpoints, Typed
  <2>. QED
    BY <2>2, <2>3, <2>4
<1>. QED
  BY <1>4, <1>5

\* The endpoint is there and the panel is told.
LEMMA OpenReturnsKeeps ==
  ASSUME IInv, Talking, S!OpenReturns(Panel), Writes(<<"a">>)
  PROVE  IInv'
<1>1. Typed /\ Still
  BY DEF IInv
<1>2. /\ Handler \in S!ConnType /\ Handler.pc = "open" /\ Handler.prev = 1
      /\ Handler.link = "up" /\ conn[Panel] = Handler
  BY <1>1, HandlerIs DEF Still, S!OpenReturns, S!At, Handler
<1>. DEFINE r == [Handler EXCEPT !.pc = "poll"]
<1>3. r \in S!ConnType /\ r.pc = "poll" /\ r.prev = 1 /\ r.lines = Handler.lines /\ r.link = "up"
  BY <1>2, PointChanges DEF Points
<1>4. udp' = "open" /\ status' = status /\ S!Becomes(Panel, r)
  BY <1>2 DEF S!OpenReturns, S!Written
<1>. HIDE DEF r
<1>5. Handler' = r /\ conn' \in [{Panel} -> S!ConnType]
  BY <1>1, <1>3, <1>4, BecomesGives
<1>. QED
  BY <1>2, <1>3, <1>4, <1>5, SuitingKeeps DEF Endpoints
\* What the handler becomes when it looks at the status, and what it writes of it.
LEMMA ReportGives ==
  ASSUME Typed, Still, NEW new \in {-1, 0, 1}, S!Report(Panel, new, FALSE),
         Handler.pc \in {"poll", "register"}
  PROVE  /\ conn' \in [{Panel} -> S!ConnType] /\ Handler'.link = "up" /\ udp' \in Endpoints
         /\ \/ Handler'.pc = "dead"
            \/ /\ Handler'.pc = "wait" /\ Handler'.prev = new /\ udp' # "pending"
               /\ Handler'.lines = Handler.lines
               /\ new = Handler.prev => udp' = udp
<1>1. /\ Handler \in S!ConnType /\ Handler.link = "up" /\ conn[Panel] = Handler
      /\ udp \in Endpoints /\ udp # "pending"
  BY HandlerIs DEF Still, Typed, Handler
<1>. DEFINE told == [Handler EXCEPT !.told = new, !.prev = new]
<1>2. told \in S!ConnType /\ told.prev = new /\ told.lines = Handler.lines /\ told.link = "up"
  BY <1>1 DEF S!ConnType
<1>3. /\ S!Loop(Handler) \in S!ConnType /\ S!Loop(Handler).pc = "wait"
      /\ S!Loop(Handler).prev = Handler.prev /\ S!Loop(Handler).lines = Handler.lines
      /\ S!Loop(Handler).link = "up"
  BY <1>1, LoopWaits
<1>. HIDE DEF told
<1>4. /\ S!Loop(told) \in S!ConnType /\ S!Loop(told).pc = "wait"
      /\ S!Loop(told).prev = new /\ S!Loop(told).lines = Handler.lines
      /\ S!Loop(told).link = "up"
  BY <1>2, LoopWaits
<1>5. /\ S!Rest(Panel, Handler, FALSE) = S!Loop(Handler)
      /\ S!Written(Panel, S!Rest(Panel, told, FALSE)) = S!Loop(told)
  BY <1>1 DEF S!Rest, S!Written
<1>6. \/ new = Handler.prev /\ S!Becomes(Panel, S!Loop(Handler)) /\ udp' = udp
      \/ new # Handler.prev /\ new = 1 /\ S!Becomes(Panel, S!Loop(told)) /\ udp' = udp
      \/ new # Handler.prev /\ new # 1 /\ S!StopProcThen(Panel, S!Loop(told))
  BY <1>1, <1>5 DEF S!Report, S!Known, S!streams, told
<1>7. CASE new = Handler.prev /\ S!Becomes(Panel, S!Loop(Handler)) /\ udp' = udp
  BY <1>1, <1>3, <1>7, BecomesGives
<1>8. CASE new # Handler.prev /\ S!Becomes(Panel, S!Loop(told)) /\ udp' = udp
  BY <1>1, <1>4, <1>8, BecomesGives
<1>9. CASE new # Handler.prev /\ S!StopProcThen(Panel, S!Loop(told))
  BY <1>4, <1>9, StopProcGives
<1>. QED
  BY <1>6, <1>7, <1>8, <1>9

\* The status: another than the last one is written behind whatever is in the pipe.
LEMMA ReportsKeeps ==
  ASSUME IInv, Talking, Reports
  PROVE  IInv'
<1>1. Typed /\ Still
  BY DEF IInv
<1>2. PICK new \in {-1, 0, 1} :
        /\ status' = new /\ S!Report(Panel, new, FALSE)
        /\ \/ Handler.pc = "poll" /\ new = status
           \/ Handler.pc = "register" /\ new # 1
  <2>1. CASE S!Poll(Panel, FALSE)
    <3>1. Handler.pc = "poll" /\ status' = status /\ S!Report(Panel, status, FALSE)
      BY <2>1 DEF S!Poll, S!At, Handler
    <3>2. status \in {-1, 0, 1}
      BY <1>1 DEF Typed
    <3>. QED
      BY <3>1, <3>2, Zenon
  <2>2. CASE S!RegisterReturns(Panel, FALSE)
    <3>1. PICK new \in {-1, 0} : status' = new /\ S!Report(Panel, new, FALSE)
      BY <2>2 DEF S!RegisterReturns
    <3>2. Handler.pc = "register" /\ new # 1 /\ new \in {-1, 0, 1}
      BY <2>2 DEF S!RegisterReturns, S!At, Handler
    <3>. QED
      BY <3>1, <3>2, Zenon
  <2>. QED
    BY <2>1, <2>2 DEF Reports, S!Loops
<1>3. conn' \in [{Panel} -> S!ConnType] /\ Handler'.link = "up" /\ udp' \in Endpoints
  BY <1>1, <1>2, ReportGives
<1>. DEFINE x == StatusLine(new)
            lines == IF new # Handler.prev THEN <<x>> ELSE <<>>
<1>4. Writes(lines) /\ lines \in Seq(C!ServerCmds) /\ x \in C!ServerCmds
  <2>1. x \in C!ServerCmds
    BY DEF StatusLine, C!ServerCmds
  <2>2. lines \in Seq(C!ServerCmds)
    BY <2>1
  <2>. QED
    BY <1>2, <2>1, <2>2 DEF Reports
<1>. HIDE DEF x
<1>5. /\ dev' = dev /\ rx' = rx /\ tx' = tx /\ lost' = lost
      /\ reconn_age' = reconn_age /\ keepalive_age' = keepalive_age /\ scroff_age' = scroff_age
      /\ wire' \in Seq(C!ServerCmds) /\ Pipe \in Seq(C!ServerCmds)
      /\ new = Handler.prev => Pipe' = Pipe
      /\ new # Handler.prev => Pipe' = Append(Pipe, x)
  <2>. HIDE DEF lines
  <2>1. /\ dev' = dev /\ rx' = rx /\ tx' = tx /\ lost' = lost
        /\ reconn_age' = reconn_age /\ keepalive_age' = keepalive_age /\ scroff_age' = scroff_age
        /\ wire' \in Seq(C!ServerCmds) /\ Pipe \in Seq(C!ServerCmds) /\ Pipe' = Pipe \o lines
        /\ lines = <<>> => Pipe' = Pipe
    BY <1>1, <1>4, WritesGive
  <2>2. Pipe \o <<x>> = Append(Pipe, x)
    BY <1>4, <2>1, OneMore
  <2>. QED
    BY <2>1, <2>2 DEF lines
<1>. HIDE DEF lines
<1>6. ASSUME Agreed, Handler'.pc \notin S!Ended PROVE Agreed'
  <2>1. /\ Handler'.pc = "wait" /\ Handler'.prev = new /\ Handler'.lines = Handler.lines
        /\ new = Handler.prev => udp' = udp
    BY <1>1, <1>2, <1>6, ReportGives DEF S!Ended
  <2>2. CASE new = Handler.prev
    <3>1. Handler.prev = 1 => ~Going /\ ~Parting
      BY <1>2, <2>2 DEF Going, Parting
    <3>2. Fetched => Fetched'
      BY <1>5, <2>1 DEF Fetched
    <3>. QED
      BY <1>5, <1>6, <2>1, <2>2, <3>1, <3>2, QuietAgrees
  <2>3. CASE new # Handler.prev /\ new \in {-1, 0}
    <3>1. Ends(Pipe', x, {"v"}) /\ Ends(Pipe', x, {})
      <4>1. Ends(Append(Pipe, x), x, {"v"}) /\ Ends(Append(Pipe, x), x, {})
        BY <1>4, <1>5, EndsWith
      <4>. QED
        BY <1>5, <2>3, <4>1
    <3>2. (new = -1 => x = "s0") /\ (new = 0 => x = "s1")
      BY DEF StatusLine, x
    <3>. QED
      BY <2>1, <2>3, <3>1, <3>2 DEF Agreed, Offline, Idle, Called, Answered
  <2>4. CASE new # Handler.prev /\ new = 1
    <3>1. x = "s2" /\ Pipe' = Append(Pipe, x) /\ Ends(Pipe', "s2", {"v", "a"})
      <4>1. x = "s2"
        BY <2>4 DEF StatusLine, x
      <4>2. Ends(Append(Pipe, x), x, {"v", "a"})
        BY <1>4, <1>5, EndsWith
      <4>. QED
        BY <1>5, <2>4, <4>1, <4>2
    <3>2. /\ Revoked(Pipe)
          /\ dev.curr_mode = "REQUEST_RESPONDING" => Elem("s0", Pipe) \/ Elem("s1", Pipe)
      <4>1. CASE Handler.prev = -1
        <5>1. \/ dev.curr_mode \in {"NO_CONNECTION", "NO_INTERNET"} /\ Pipe = <<>>
              \/ Ends(Pipe, "s0", {})
          BY <1>6, <4>1 DEF Agreed, Offline
        <5>2. Revoked(<<>>)
          BY DEF Revoked
        <5>3. Ends(Pipe, "s0", {}) => Revoked(Pipe) /\ Elem("s0", Pipe)
          BY <1>5, RevokedBy
        <5>. QED
          BY <5>1, <5>2, <5>3
      <4>2. CASE Handler.prev = 0
        <5>1. \/ dev.curr_mode \in {"IDLE", "MANUAL_ACTIVE"} /\ Only(Pipe, {"v"})
              \/ Ends(Pipe, "s1", {"v"})
          BY <1>6, <4>2 DEF Agreed, Idle
        <5>2. /\ Only(Pipe, {"v"}) => Revoked(Pipe)
              /\ Ends(Pipe, "s1", {"v"}) => Revoked(Pipe) /\ Elem("s1", Pipe)
          BY <1>5, RevokedBy
        <5>. QED
          BY <5>1, <5>2
      <4>. QED
        BY <1>1, <2>4, <4>1, <4>2, HandlerIs
    <3>3. Revoked(Append(Pipe, x))
      BY <1>4, <1>5, <3>1, <3>2, RevokedAppend
    <3>4. \A y : Elem(y, Pipe) => Elem(y, Append(Pipe, x))
      BY <1>4, <1>5, ElemKept
    <3>5. Answered'
      BY <1>5, <3>1, <3>2, <3>3, <3>4 DEF Answered, ToldSoon, Pipe
    <3>. QED
      BY <2>1, <2>4, <3>1, <3>5 DEF Agreed, Offline, Idle, Called
  <2>. QED
    BY <2>2, <2>3, <2>4
<1>7. /\ Handler'.pc \in {"wait", "dead"} /\ (udp' = "pending" => Handler'.pc = "dead")
      /\ status' \in {-1, 0, 1}
  BY <1>1, <1>2, ReportGives
<1>. QED
  BY <1>3, <1>5, <1>6, <1>7, StepKeeps DEF Talking, Points, S!Ended
\* A step that writes nothing and leaves prev_status alone.
LEMMA SilentKeeps ==
  ASSUME IInv, Talking, Handler.pc \notin {"off", "hello", "greet"},
         Writes(<<>>), NEW r \in S!ConnType, S!Becomes(Panel, r),
         r.prev = Handler.prev, r.link = "up",
         r.pc \in {"hangup", "decline", "poll", "register"},
         udp' \in {udp, "none"}, udp # "pending", status' \in {-1, 0, 1},
         LET parting == r.pc = "register" \/ (r.pc = "poll" /\ status' # 1)
         IN Handler.prev = 1 =>
              /\ \/ parting \/ r.pc \in {"hangup", "decline"}
                 \/ ~Going /\ (Elem("d", Handler.lines) => Elem("d", r.lines))
              /\ parting \/ (~Parting /\ udp' = udp)
  PROVE  IInv'
<1>1. Typed /\ udp \in Endpoints
  BY DEF IInv, Typed
<1>2. Handler' = r /\ conn' \in [{Panel} -> S!ConnType]
  BY <1>1, BecomesGives
<1>3. /\ dev' = dev /\ rx' = rx /\ tx' = tx /\ lost' = lost
      /\ reconn_age' = reconn_age /\ keepalive_age' = keepalive_age /\ scroff_age' = scroff_age
      /\ wire' \in Seq(C!ServerCmds) /\ Pipe' = Pipe
  <2>1. <<>> \in Seq(C!ServerCmds)
    OBVIOUS
  <2>. QED
    BY <1>1, <2>1, WritesGive
<1>4. Parting' <=> r.pc = "register" \/ (r.pc = "poll" /\ status' # 1)
  BY <1>2 DEF Parting
<1>5. Going' <=> r.pc \in {"hangup", "decline"} \/ Parting'
  BY <1>2 DEF Going
<1>6. Fetched' <=> Elem("d", tx) \/ Elem("d", r.lines)
  BY <1>2, <1>3 DEF Fetched
<1>7. Handler.prev = 1 /\ (Fetched \/ Going) => Fetched' \/ Going'
  BY <1>4, <1>5, <1>6 DEF Fetched
<1>8. Handler.prev = 1 /\ ~Parting' => ~Parting /\ udp' = udp
  BY <1>4
<1>9. Agreed => Agreed'
  BY <1>2, <1>3, <1>7, <1>8, QuietAgrees
<1>. QED
  BY <1>1, <1>2, <1>3, <1>9, StepKeeps DEF Talking, Points, S!Ended, Endpoints

\* Nothing to interpret: the 0.1 s are over, a line or the registration does nothing.
LEMMA IdleKeeps ==
  ASSUME IInv, Talking, Writes(<<>>),
         \/ S!NoData(Panel) \/ S!ReadEof(Panel) \/ S!ShowOffline(Panel)
         \/ S!OpenDoor(Panel) \/ S!AcceptIdle(Panel)
  PROVE  IInv'
<1>1. Typed /\ Still /\ "poll" \in Points
  BY DEF IInv, Points
<1>2. /\ Handler \in S!ConnType /\ Handler.link = "up" /\ Handler.pc = "wait"
      /\ conn[Panel] = Handler /\ udp' = udp /\ status' = status
      /\ udp # "pending" /\ status \in {-1, 0, 1}
  BY <1>1, HandlerIs
  DEF Still, Typed, Handler, S!At, S!HasData, S!Reads, S!streams, S!NoData, S!ReadEof, S!ShowOffline,
      S!OpenDoor, S!AcceptIdle
<1>3. ~Going /\ ~Parting
  BY <1>2 DEF Going, Parting
<1>4. CASE S!NoData(Panel)
  <2>. DEFINE r == [Handler EXCEPT !.pc = "poll", !.woken = FALSE]
  <2>1. r \in S!ConnType /\ r.pc = "poll" /\ r.prev = Handler.prev /\ r.link = "up" /\ r.lines = Handler.lines
    BY <1>2 DEF S!ConnType, S!Running
  <2>2. S!Becomes(Panel, r)
    BY <1>2, <1>4 DEF S!NoData
  <2>. HIDE DEF r
  <2>. QED
    BY <1>2, <1>3, <2>1, <2>2, SilentKeeps
<1>5. CASE S!ReadEof(Panel)
  <2>. DEFINE r == [Handler EXCEPT !.pc = "poll", !.woken = FALSE, !.nul = FALSE]
  <2>1. r \in S!ConnType /\ r.pc = "poll" /\ r.prev = Handler.prev /\ r.link = "up" /\ r.lines = Handler.lines
    BY <1>2 DEF S!ConnType, S!Running
  <2>2. S!Becomes(Panel, r)
    BY <1>2, <1>5 DEF S!ReadEof
  <2>. HIDE DEF r
  <2>. QED
    BY <1>2, <1>3, <2>1, <2>2, SilentKeeps
<1>6. ASSUME NEW line, line # "d", S!Reads(Panel, line),
             S!Becomes(Panel, S!AfterLine(Panel, "poll"))
      PROVE  IInv'
  BY <1>1, <1>2, <1>6, LineKeeps DEF Typed
<1>. QED
  BY <1>4, <1>5, <1>6 DEF S!ShowOffline, S!OpenDoor, S!AcceptIdle

\* The d of the panel.
LEMMA HangUpKeeps ==
  ASSUME IInv, Talking, Writes(<<>>), S!HangUp(Panel)
  PROVE  IInv'
<1>1. Typed /\ Still
  BY DEF IInv
<1>2. PICK p \in {"decline", "hangup"} :
        /\ S!Becomes(Panel, S!AfterLine(Panel, p))
        /\ status' \in {status, 0}
  BY DEF S!HangUp
<1>3. S!Reads(Panel, "d") /\ udp' = udp /\ p \in Points /\ status \in {-1, 0, 1}
  BY <1>1 DEF S!HangUp, S!streams, Points, Typed
<1>. DEFINE r == S!AfterLine(Panel, p)
<1>4. /\ r \in S!ConnType /\ r.pc = p /\ r.prev = Handler.prev /\ r.link = "up"
      /\ Handler.pc = "wait"
  BY <1>1, <1>3, LineTaken
<1>5. udp # "pending" /\ ~Parting /\ S!Becomes(Panel, r)
  BY <1>1, <1>2, <1>4 DEF Still, Parting
<1>. HIDE DEF r
<1>. QED
  BY <1>2, <1>3, <1>4, <1>5, SilentKeeps

\* stop_calls is over, and the visitor is declined; then the status is no call.
LEMMA DeclineKeeps ==
  ASSUME IInv, Talking, Writes(<<>>), S!Decline(Panel)
  PROVE  IInv'
<1>1. Typed /\ Still
  BY DEF IInv
<1>2. /\ Handler \in S!ConnType /\ Handler.link = "up" /\ Handler.pc = "decline"
      /\ conn[Panel] = Handler /\ status \in {-1, 0, 1} /\ udp # "pending"
  BY <1>1, HandlerIs DEF Still, Typed, Handler, S!Decline, S!At
<1>. DEFINE r == [Handler EXCEPT !.pc = "poll"]
<1>3. r \in S!ConnType /\ r.pc = "poll" /\ r.prev = Handler.prev /\ r.link = "up"
  BY <1>2, PointChanges DEF Points
<1>4. /\ S!StopProcThen(Panel, r)
      /\ status' = IF Handler.prev = 1 /\ status = 1 THEN 0 ELSE status
  BY <1>2 DEF S!Decline
<1>. HIDE DEF r
<1>5. /\ status' \in {-1, 0, 1}
      /\ Handler.prev = 1 => status' # 1
  BY <1>2, <1>4
<1>6. /\ conn' \in [{Panel} -> S!ConnType] /\ Handler'.link = "up" /\ udp' \in Endpoints
      /\ (Handler' = r /\ udp' = "none") \/ Handler'.pc = "dead"
  BY <1>1, <1>3, <1>4, StopProcGives
<1>7. CASE Handler'.pc = "dead"
  BY <1>5, <1>6, <1>7, DiesKeeps
<1>8. CASE S!Becomes(Panel, r) /\ udp' = "none"
  BY <1>2, <1>3, <1>5, <1>8, SilentKeeps
<1>9. (S!Becomes(Panel, r) /\ udp' = "none") \/ Handler'.pc = "dead"
  <2>1. Handler'.pc = "dead" \/ S!Becomes(Panel, r)
    <3>1. CASE S!StopProcRaises
      <4>1. S!Becomes(Panel, S!Over(Handler, "dead"))
        BY <1>2, <1>4, <3>1 DEF S!StopProcThen
      <4>2. S!Over(Handler, "dead") \in S!ConnType /\ S!Over(Handler, "dead").pc = "dead"
        BY <1>2, OverGives
      <4>. QED
        BY <1>1, <4>1, <4>2, BecomesGives
    <3>. QED
      BY <1>4, <3>1 DEF S!StopProcThen
  <2>. QED
    BY <1>3, <1>6, <2>1
<1>. QED
  BY <1>7, <1>8, <1>9
\* A hangup is over.
LEMMA HangupReturnsKeeps ==
  ASSUME IInv, Talking, Writes(<<>>), S!HangupReturns(Panel)
  PROVE  IInv'
<1>1. Typed /\ Still
  BY DEF IInv
<1>2. /\ Handler \in S!ConnType /\ Handler.link = "up" /\ conn[Panel] = Handler
      /\ status' = 0 /\ udp' = udp
  BY <1>1, HandlerIs DEF Still, Typed, Handler, S!HangupReturns, S!streams
<1>3. CASE S!At(Panel, "hangup") /\ S!Goes(Panel, "decline")
  <2>. DEFINE r == [Handler EXCEPT !.pc = "decline"]
  <2>1. r \in S!ConnType /\ r.pc = "decline" /\ r.prev = Handler.prev /\ r.link = "up"
    <3>1. "decline" \in Points \cup S!Ended
      BY DEF Points
    <3>. QED
      BY <1>2, <3>1, PointChanges
  <2>2. S!Becomes(Panel, r) /\ Handler.pc = "hangup"
    BY <1>2, <1>3 DEF S!Goes, S!Becomes, S!At, Handler
  <2>3. udp # "pending" /\ ~Parting
    BY <1>1, <2>2 DEF Still, Parting
  <2>. HIDE DEF r
  <2>. QED
    BY <1>2, <2>1, <2>2, <2>3, SilentKeeps
<1>4. CASE S!At(Panel, "hello") /\ S!Goes(Panel, "greet")
  <2>. DEFINE r == [Handler EXCEPT !.pc = "greet"]
  <2>1. r \in S!ConnType /\ r.pc = "greet" /\ r.prev = Handler.prev /\ r.link = "up"
    BY <1>2, PointChanges, SMTT(30) DEF Points
  <2>2. S!Becomes(Panel, r) /\ Handler.pc = "hello"
    BY <1>2, <1>4 DEF S!Goes, S!Becomes, S!At, Handler
  <2>. HIDE DEF r
  <2>3. Handler' = r /\ conn' \in [{Panel} -> S!ConnType]
    BY <1>1, <2>1, <2>2, BecomesGives
  <2>4. /\ dev' = dev /\ rx' = rx /\ tx' = tx /\ lost' = lost /\ wire' = wire
        /\ reconn_age' = reconn_age /\ keepalive_age' = keepalive_age /\ scroff_age' = scroff_age
        /\ Pipe' = Pipe
    <3>1. <<>> \in Seq(C!ServerCmds)
      OBVIOUS
    <3>. QED
      BY <1>1, <3>1, WritesGive
  <2>5. rx = <<>> /\ wire = <<>> /\ ~lost /\ Handler.prev = -1 /\ udp # "pending"
        /\ dev.curr_mode \in {"NO_CONNECTION", "NO_INTERNET"}
    BY <1>1, <2>2 DEF Still, Talking
  <2>6. Typed'
    BY <1>1, <1>2, <2>3, <2>4 DEF Typed
  <2>7. Still'
    BY <1>1, <1>2, <2>1, <2>3, <2>4, <2>5 DEF Still, Points
  <2>8. Agreed'
    <3>1. Pipe' = <<>>
      BY <2>4, <2>5 DEF Pipe
    <3>. QED
      BY <2>1, <2>3, <2>4, <2>5, <3>1 DEF Agreed, Offline, Idle, Called, Answered
  <2>. QED
    BY <2>6, <2>7, <2>8 DEF IInv
<1>5. ~S!At(Panel, "bye")
  BY <1>1 DEF S!At, Still, Handler, Points, S!Ended
<1>. QED
  BY <1>3, <1>4, <1>5 DEF S!HangupReturns

\* The registration is looked after: the status that comes of it is another.
LEMMA RegisterKeeps ==
  ASSUME IInv, Talking, Writes(<<>>), S!Register(Panel)
  PROVE  IInv'
<1>1. Typed /\ Still
  BY DEF IInv
<1>2. /\ Handler \in S!ConnType /\ Handler.link = "up" /\ Handler.pc = "poll"
      /\ conn[Panel] = Handler /\ status' = status /\ udp' = udp
      /\ status \in {-1, 0, 1} /\ udp # "pending"
  BY <1>1, HandlerIs DEF Still, Typed, Handler, S!Register, S!At, S!streams
<1>. DEFINE r == [Handler EXCEPT !.pc = "register"]
<1>3. r \in S!ConnType /\ r.pc = "register" /\ r.prev = Handler.prev /\ r.link = "up"
  BY <1>2, PointChanges DEF Points
<1>4. S!Becomes(Panel, r)
  BY <1>2 DEF S!Register, S!Goes, S!Becomes
<1>. HIDE DEF r
<1>. QED
  BY <1>2, <1>3, <1>4, SilentKeeps

\* An exception in the interface.
LEMMA RaisesKeeps ==
  ASSUME IInv, Talking, Writes(<<>>), S!RequestRaises(Panel) \/ S!HangupRaises(Panel)
  PROVE  IInv'
<1>1. Typed /\ Still
  BY DEF IInv
<1>2. /\ Handler \in S!ConnType /\ S!Becomes(Panel, S!Over(Handler, "dead"))
      /\ status' = status /\ udp' = udp
  BY <1>1, HandlerIs DEF Handler, S!RequestRaises, S!HangupRaises, S!streams
<1>3. /\ S!Over(Handler, "dead") \in S!ConnType
      /\ S!Over(Handler, "dead").pc = "dead" /\ S!Over(Handler, "dead").link = "up"
  BY <1>2, OverGives
<1>4. conn' \in [{Panel} -> S!ConnType] /\ Handler'.pc = "dead" /\ Handler'.link = "up"
  BY <1>1, <1>2, <1>3, BecomesGives
<1>. QED
  BY <1>1, <1>2, <1>4, DiesKeeps DEF Typed

\* Every step of the handler.
LEMMA ServerKeeps ==
  ASSUME IInv, Talking, ServerRuns
  PROVE  IInv'
<1>1. CASE Accepts
  BY <1>1, AcceptLateKeeps, AcceptKeeps, OpenReturnsKeeps DEF Accepts
<1>2. CASE Silently
  BY <1>2, HangupReturnsKeeps, IdleKeeps, RaisesKeeps, HangUpKeeps, DeclineKeeps, RegisterKeeps
  DEF Silently
<1>. QED
  BY <1>1, <1>2, GreetKeeps, ShowsKeeps, ReportsKeeps DEF ServerRuns
-----------------------------------------------------------------------------
(* The visitor and the connection. *)

\* Calls come and go while the handler does not look.
LEMMA VisitorKeeps ==
  ASSUME IInv, Visitor
  PROVE  IInv'
<1>1. Typed /\ Still
  BY DEF IInv
<1>2. /\ dev' = dev /\ rx' = rx /\ tx' = tx /\ lost' = lost /\ wire' = wire
      /\ reconn_age' = reconn_age /\ keepalive_age' = keepalive_age /\ scroff_age' = scroff_age
      /\ conn' = conn /\ udp' = udp /\ status' \in {0, 1} /\ ~S!Busy
  BY DEF Visitor, panel, S!CallComes, S!CallGoes, S!streams
<1>3. Handler' = Handler /\ Pipe' = Pipe
  BY <1>2 DEF Handler, Pipe
<1>4. Handler.pc # "poll"
  BY <1>2 DEF S!Busy, S!Running, Handler
<1>5. (Going' <=> Going) /\ (Parting' <=> Parting) /\ (Fetched' <=> Fetched)
  BY <1>2, <1>3, <1>4 DEF Going, Parting, Fetched
<1>6. Typed'
  BY <1>1, <1>2 DEF Typed
<1>7. Still'
  BY <1>1, <1>2, <1>3 DEF Still
<1>8. Agreed => Agreed'
  BY <1>2, <1>3, <1>5, QuietAgrees
<1>. QED
  BY <1>2, <1>3, <1>6, <1>7, <1>8 DEF IInv, Together

\* A connection begins with empty buffers, and a handler that knows of nothing.
LEMMA ConnectsKeeps ==
  ASSUME IInv, Connects
  PROVE  IInv'
<1>1. Typed /\ Still
  BY DEF IInv
<1>2. /\ rx' = rx /\ tx' = tx /\ lost' = lost /\ wire' = wire
      /\ reconn_age' = reconn_age /\ keepalive_age' = keepalive_age /\ scroff_age' = scroff_age
      /\ dev.sock_fd = "connecting" /\ dev' = [dev EXCEPT !.sock_fd = "up"]
  BY DEF Connects, C!Established, C!NetChange, C!timers
<1>3. /\ Handler \in S!ConnType /\ Handler.link = "up" /\ Handler.pc = "off" /\ udp' = udp
      /\ conn[Panel] = Handler /\ status \in {-1, 0, 1} /\ status' \in {status, 0}
      /\ \E p \in {"greet", "hello"} : S!Goes(Panel, p)
  BY <1>1, HandlerIs DEF Still, Typed, Handler, Connects, S!Connect, S!StopCalls, S!streams
<1>4. PICK p \in {"greet", "hello"} : S!Goes(Panel, p)
  BY <1>3
<1>. DEFINE r == [Handler EXCEPT !.pc = p]
<1>5. r \in S!ConnType /\ r.pc = p /\ r.prev = Handler.prev /\ r.link = "up"
  BY <1>3, PointChanges DEF Points
<1>6. S!Becomes(Panel, r)
  BY <1>3, <1>4 DEF S!Goes, S!Becomes
<1>. HIDE DEF r
<1>7. Handler' = r /\ conn' \in [{Panel} -> S!ConnType]
  BY <1>1, <1>5, <1>6, BecomesGives
<1>8. dev' \in C!Device /\ dev'.sock_fd = "up" /\ dev'.curr_mode = dev.curr_mode
  BY <1>1, <1>2 DEF Typed, C!Device, C!Socks
<1>9. /\ dev.curr_mode = "NO_CONNECTION" /\ rx = <<>> /\ wire = <<>> /\ ~lost
      /\ Handler.prev = -1 /\ udp # "pending"
  BY <1>1, <1>3 DEF Still
<1>10. Typed'
  BY <1>1, <1>2, <1>3, <1>7, <1>8 DEF Typed
<1>11. Still'
  BY <1>1, <1>2, <1>3, <1>5, <1>7, <1>8, <1>9 DEF Still, Points
<1>12. Agreed'
  <2>1. Pipe' = <<>>
    BY <1>2, <1>9 DEF Pipe
  <2>. QED
    BY <1>5, <1>7, <1>8, <1>9, <2>1 DEF Agreed, Offline, Idle, Called, Answered
<1>. QED
  BY <1>10, <1>11, <1>12 DEF IInv

\* A line reaches the panel's buffer.
LEMMA ToPanelKeeps ==
  ASSUME IInv, ToPanel
  PROVE  IInv'
<1>1. Typed /\ Still
  BY DEF IInv
<1>2. /\ wire # <<>> /\ rx' = Append(rx, Head(wire)) /\ wire' = Tail(wire)
      /\ dev' = dev /\ tx' = tx /\ lost' = lost /\ dev.sock_fd = "up"
      /\ reconn_age' = reconn_age /\ keepalive_age' = keepalive_age /\ scroff_age' = scroff_age
      /\ conn' = conn /\ udp' = udp /\ status' = status
  BY DEF ToPanel, C!ServerSends, C!timers, server
<1>3. Pipe' = Pipe /\ rx' \in Seq(C!ServerCmds) /\ wire' \in Seq(C!ServerCmds)
  BY <1>1, <1>2, PipeMoves
<1>4. Handler' = Handler
  BY <1>2 DEF Handler
<1>5. (Going' <=> Going) /\ (Parting' <=> Parting) /\ (Fetched' <=> Fetched)
  BY <1>2, <1>4 DEF Going, Parting, Fetched
<1>6. Typed'
  BY <1>1, <1>2, <1>3 DEF Typed
<1>7. Still'
  BY <1>1, <1>2, <1>4 DEF Still
<1>8. Agreed => Agreed'
  BY <1>2, <1>3, <1>4, <1>5, QuietAgrees
<1>. QED
  BY <1>2, <1>4, <1>6, <1>7, <1>8 DEF IInv, Together

\* A line reaches the server's reader.
LEMMA ToServerKeeps ==
  ASSUME IInv, ToServer
  PROVE  IInv'
<1>1. Typed /\ Still
  BY DEF IInv
<1>2. /\ tx # <<>> /\ tx' = Tail(tx) /\ tx \in Seq(C!ClientCmds)
      /\ dev' = dev /\ rx' = rx /\ lost' = lost /\ wire' = wire
      /\ reconn_age' = reconn_age /\ keepalive_age' = keepalive_age /\ scroff_age' = scroff_age
      /\ S!Arrives(Panel, Head(tx))
  BY <1>1 DEF ToServer, C!ServerReads, C!timers, Typed
<1>. DEFINE line == Head(tx)
            r == [Handler EXCEPT !.lines = Append(@, line), !.woken = Handler.pc = "wait"]
<1>3. /\ Handler \in S!ConnType /\ Handler.lines \in Seq(C!ClientCmds)
      /\ conn[Panel] = Handler
      /\ line \in C!ClientCmds /\ Tail(tx) \in Seq(C!ClientCmds)
  BY <1>1, <1>2, HandlerIs DEF Handler
<1>4. udp' = udp /\ status' = status /\ S!Becomes(Panel, r)
  BY <1>2, <1>3 DEF S!Arrives, S!Woken, S!Becomes, S!streams
<1>5. /\ r \in S!ConnType /\ r.pc = Handler.pc /\ r.prev = Handler.prev /\ r.link = Handler.link
      /\ r.lines = Append(Handler.lines, line)
  <2>1. Append(Handler.lines, line) \in Seq(C!ClientCmds) /\ (Handler.pc = "wait") \in BOOLEAN
    BY <1>3
  <2>. HIDE DEF line
  <2>. QED
    BY <1>3, <2>1 DEF S!ConnType
<1>. HIDE DEF r
<1>6. Handler' = r /\ conn' \in [{Panel} -> S!ConnType]
  BY <1>1, <1>4, <1>5, BecomesGives
<1>7. Fetched => Fetched'
  <2>1. Elem("d", tx) => line = "d" \/ Elem("d", Tail(tx))
    BY <1>2, ElemKept
  <2>2. /\ Elem("d", Handler.lines) => Elem("d", Append(Handler.lines, line))
        /\ Elem(line, Append(Handler.lines, line))
    BY <1>3, ElemKept
  <2>. HIDE DEF line
  <2>. QED
    BY <1>2, <1>5, <1>6, <2>1, <2>2 DEF Fetched
<1>. HIDE DEF line
<1>8. (Going' <=> Going) /\ (Parting' <=> Parting) /\ Pipe' = Pipe
  BY <1>2, <1>4, <1>5, <1>6 DEF Going, Parting, Pipe
<1>9. Typed'
  BY <1>1, <1>2, <1>3, <1>4, <1>6 DEF Typed
<1>10. Still'
  BY <1>1, <1>2, <1>4, <1>5, <1>6 DEF Still
<1>11. Agreed => Agreed'
  BY <1>2, <1>4, <1>5, <1>6, <1>7, <1>8, QuietAgrees
<1>. QED
  BY <1>2, <1>5, <1>6, <1>9, <1>10, <1>11 DEF IInv, Together-----------------------------------------------------------------------------
(* The theorems. *)

\* Before the panel connects there is nothing to agree on.
LEMMA IInvInit == Init => IInv
<1> SUFFICES ASSUME Init PROVE IInv
  OBVIOUS
<1>1. /\ dev = [curr_mode |-> "NO_CONNECTION", v_pid |-> "none", a_pid |-> "none",
                sock_fd |-> "none", fb_on |-> TRUE]
      /\ scroff_age = 0 /\ keepalive_age = 0 /\ rx = <<>> /\ tx = <<>>
      /\ wire = <<>> /\ lost = FALSE
  BY DEF Init, C!Init
<1>2. conn = [c \in {Panel} |-> S!NewConn] /\ udp = "none" /\ status \in {-1, 0}
  BY DEF Init, S!Init
<1>3. Handler = S!NewConn
  BY <1>2 DEF Handler
<1>4. <<>> \in Seq(C!ServerCmds) /\ <<>> \in Seq(C!ClientCmds)
  OBVIOUS
<1>5. dev \in C!Device
  BY <1>1 DEF C!Device, C!Modes, C!Pids, C!Socks
<1>6. S!NewConn \in S!ConnType
  BY <1>4 DEF S!NewConn, S!ConnType
<1>7. Typed
  BY <1>1, <1>2, <1>4, <1>5, <1>6 DEF Typed, Endpoints
<1>8. Still
  BY <1>1, <1>2, <1>3 DEF Still, S!NewConn, Points
<1>9. ~Together
  BY <1>1 DEF Together
<1>. QED
  BY <1>7, <1>8, <1>9 DEF IInv

\* Every step keeps it: before the connection the panel is alone, on it the handler
\* runs, and after it nothing does.
LEMMA IInvStep == IInv /\ [Next]_vars => IInv'
<1> SUFFICES ASSUME IInv, [Next]_vars PROVE IInv'
  OBVIOUS
<1>1. CASE UNCHANGED vars
  <2>1. /\ dev' = dev /\ rx' = rx /\ tx' = tx /\ lost' = lost /\ wire' = wire
        /\ reconn_age' = reconn_age /\ keepalive_age' = keepalive_age /\ scroff_age' = scroff_age
        /\ conn' = conn /\ udp' = udp /\ status' = status
    BY <1>1 DEF vars, panel, server
  <2>2. Handler' = Handler /\ Pipe' = Pipe
    BY <2>1 DEF Handler, Pipe
  <2>3. Typed' /\ Still'
    BY <2>1, <2>2 DEF IInv, Typed, Still
  <2>4. Agreed => Agreed'
    BY <2>1, <2>2, QuietAgrees DEF Fetched, Going, Parting
  <2>. QED
    BY <2>1, <2>2, <2>3, <2>4 DEF IInv, Together
<1>2. CASE SocketReads
  BY <1>2, ReadKeeps
<1>3. CASE PanelRuns
  BY <1>3, PanelKeeps
<1>4. CASE Alive /\ ServerRuns
  <2>1. Handler.pc # "off"
    <3>1. Handler.pc = conn[Panel].pc
      BY DEF Handler
    <3>. QED
      BY <1>4, <3>1
      DEF ServerRuns, Greets, Shows, Accepts, Reports, Silently, S!Greet, S!Show, S!AcceptLate, S!Accept,
          S!OpenReturns, S!Loops, S!Poll, S!RegisterReturns, S!HangupReturns, S!HangupRaises,
          S!AwaitsHangup, S!NoData, S!ReadEof,
          S!ShowOffline, S!RequestRaises, S!OpenDoor, S!AcceptIdle, S!HangUp, S!Decline, S!Register,
          S!Reads, S!HasData, S!At
  <2>2. Talking
    BY <1>4, <2>1 DEF Alive, Talking
  <2>. QED
    BY <1>4, <2>2, ServerKeeps
<1>. QED
  BY <1>1, <1>2, <1>3, <1>4, VisitorKeeps, ConnectsKeeps, ToPanelKeeps, ToServerKeeps DEF Next

\* The invariant of the panel and the server together.
THEOREM Invariance == Spec => []IInv
<1>. QED
  BY IInvInit, IInvStep, PTL DEF Spec

\* What is in one of two queues is in both of them together.
LEMMA ElemJoined ==
  ASSUME NEW T, NEW p \in Seq(T), NEW q \in Seq(T), NEW y, Elem(y, p) \/ Elem(y, q)
  PROVE  Elem(y, p \o q)
<1>1. ASSUME NEW i \in DOMAIN p, p[i] = y PROVE Elem(y, p \o q)
  <2>1. i \in DOMAIN (p \o q) /\ (p \o q)[i] = y
    BY <1>1
  <2>. QED
    BY <2>1 DEF Elem
<1>2. ASSUME NEW i \in DOMAIN q, q[i] = y PROVE Elem(y, p \o q)
  <2>1. Len(p) + i \in DOMAIN (p \o q) /\ (p \o q)[Len(p) + i] = y
    BY <1>2
  <2>. QED
    BY <2>1 DEF Elem
<1>. QED
  BY <1>1, <1>2 DEF Elem

\* The line that will correct the panel is in its buffer or on the wire.
LEMMA EndsTold ==
  ASSUME NEW line, NEW rest, Ends(Pipe, line, rest)
  PROVE  ToldSoon(line)
BY DEF Ends, ToldSoon, Elem, Pipe

\* While they talk the invariant speaks of the panel and the handler.
LEMMA JoinedAgree ==
  ASSUME IInv, Joined
  PROVE  Agreed /\ Handler.prev \in {-1, 0, 1} /\ Handler.pc \in {"wait", "open", "poll"}
<1>1. Together /\ Handler.pc \in {"wait", "open", "poll"}
  BY DEF Joined, Together, S!Ended
<1>. QED
  BY <1>1, HandlerIs DEF IInv

\* The panel follows the handler's status, whatever the buffers hold and whatever was
\* pressed: its mode is one that status allows, the correcting line is in the pipe, or
\* it sent the visitor away.
THEOREM PanelFollowsServer == Spec => []PanelFollows
<1>1. IInv => PanelFollows
  <2> SUFFICES ASSUME IInv, Joined
               PROVE  /\ Handler.prev = -1 =>
                           dev.curr_mode \in {"NO_CONNECTION", "NO_INTERNET"} \/ ToldSoon("s0")
                      /\ Handler.prev = 0 =>
                           dev.curr_mode \in {"IDLE", "MANUAL_ACTIVE"} \/ ToldSoon("s1")
                      /\ Handler.prev = 1 =>
                           \/ dev.curr_mode \in RequestModes \cup {"MANUAL_ACTIVE"}
                           \/ ToldSoon("s2") \/ Dismissed
    BY DEF PanelFollows
  <2>1. Agreed /\ Handler.pc \in {"wait", "open", "poll"}
    BY JoinedAgree
  <2>2. Fetched => Dismissed
    <3>1. tx \in Seq(C!ClientCmds) /\ Handler.lines \in Seq(C!ClientCmds)
      BY HandlerIs DEF IInv, Typed
    <3>. QED
      BY <3>1, ElemJoined DEF Fetched, Dismissed
  <2>3. Going => Dismissed
    BY <2>1 DEF Going, Parting, Dismissed
  <2>. QED
    BY <2>1, <2>2, <2>3, EndsTold DEF Agreed, Offline, Idle, Called
<1>. QED
  BY <1>1, Invariance, PTL

\* A request that the panel shows is one the handler knows of, and an answered one has
\* its endpoint, or the line that ends it is in the pipe or about to be written.
THEOREM RequestsAreReal == Spec => []RequestIsReal
<1>1. IInv => RequestIsReal
  <2> SUFFICES ASSUME IInv, Joined, dev.curr_mode \in RequestModes
               PROVE  \/ ToldSoon("s1") \/ ToldSoon("s0")
                      \/ Handler.pc = "poll" /\ status # 1
                      \/ /\ Handler.prev = 1
                         /\ dev.curr_mode = "REQUEST_RESPONDING" => udp = "open"
    BY DEF RequestIsReal
  <2>1. Agreed /\ Handler.prev \in {-1, 0, 1} /\ Handler.pc \in {"wait", "open", "poll"}
    BY JoinedAgree
  <2>2. CASE Handler.prev # 1
    <3>1. Ends(Pipe, "s0", {}) \/ Ends(Pipe, "s1", {"v"})
      BY <2>1, <2>2 DEF Agreed, Offline, Idle, RequestModes
    <3>. QED
      BY <3>1, EndsTold
  <2>3. CASE Handler.prev = 1
    BY <2>1, <2>3 DEF Agreed, Answered, Parting
  <2>. QED
    BY <2>2, <2>3
<1>. QED
  BY <1>1, Invariance, PTL
-----------------------------------------------------------------------------
(* The panel and the server that are joined are the ones of the two modules. *)

\* A step of the session is a step of the panel as VicomClient has it, or leaves the
\* panel alone.
LEMMA PanelStep == IInv /\ [Next]_vars => [C!Next]_(C!vars)
<1> SUFFICES ASSUME IInv, [Next]_vars PROVE C!Next \/ UNCHANGED C!vars
  OBVIOUS
<1>1. UNCHANGED panel => UNCHANGED C!vars
  BY DEF panel, C!vars
<1>2. CASE UNCHANGED vars
  BY <1>1, <1>2 DEF vars, panel
<1>3. CASE SocketReads \/ PanelRuns \/ Connects \/ ToServer
  BY <1>3 DEF SocketReads, PanelRuns, Connects, ToServer, C!Next, C!MainLoop, C!Socket, C!Environment
<1>4. CASE ToPanel
  <2>1. wire # <<>> /\ C!ServerSends(Head(wire)) /\ wire \in Seq(C!ServerCmds)
    BY <1>4 DEF ToPanel, IInv, Typed
  <2>2. Head(wire) \in C!ServerCmds
    BY <2>1
  <2>. QED
    BY <2>1, <2>2 DEF C!Next, C!Environment
<1>5. CASE ServerRuns \/ Visitor
  <2>1. UNCHANGED panel
    BY <1>5 DEF ServerRuns, Visitor, Greets, Shows, Accepts, Reports, Silently, Writes
  <2>. QED
    BY <1>1, <2>1
<1>. QED
  BY <1>2, <1>3, <1>4, <1>5 DEF Next

\* It is a step of the server as VicomServer has it, or leaves the server alone.
LEMMA ServerStep == IInv /\ [Next]_vars => [S!Next]_(S!vars)
<1> SUFFICES ASSUME IInv, [Next]_vars PROVE S!Next \/ UNCHANGED S!vars
  OBVIOUS
<1>1. UNCHANGED server => UNCHANGED S!vars
  BY DEF server, S!vars
<1>2. CASE UNCHANGED vars
  BY <1>1, <1>2 DEF vars, server
<1>3. CASE SocketReads \/ PanelRuns \/ ToPanel
  BY <1>1, <1>3 DEF SocketReads, PanelRuns, ToPanel
<1>4. S!Runs(Panel) \/ S!Network(Panel) => S!Next
  BY DEF S!Next
<1>5. CASE ServerRuns
  BY <1>4, <1>5
  DEF ServerRuns, Greets, Shows, Accepts, Reports, Silently, S!Runs, S!Line
<1>6. CASE Visitor
  BY <1>6 DEF Visitor, S!Next
<1>7. CASE Connects
  BY <1>4, <1>7 DEF Connects, S!Network
<1>8. CASE ToServer
  <2>1. tx # <<>> /\ S!Arrives(Panel, Head(tx)) /\ tx \in Seq(C!ClientCmds)
    BY <1>8 DEF ToServer, IInv, Typed
  <2>2. Head(tx) \in C!ClientCmds
    BY <2>1
  <2>. QED
    BY <1>4, <2>1, <2>2 DEF S!Network
<1>. QED
  BY <1>2, <1>3, <1>5, <1>6, <1>7, <1>8 DEF Next

\* A session is a run of the client and a run of the server: what those modules show of
\* every run holds of both ends of it.
THEOREM SessionIsBoth == Spec => C!Spec /\ S!Spec
<1>1. Init => C!Init /\ S!Init
  BY DEF Init
<1>. QED
  BY <1>1, PanelStep, ServerStep, Invariance, PTL DEF Spec, C!Spec, S!Spec
=============================================================================
