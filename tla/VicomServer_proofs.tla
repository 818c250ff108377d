------------------------- MODULE VicomServer_proofs -------------------------
(***************************************************************************)
(* The invariants of VicomServer, for any number of connections.           *)
(*                                                                         *)
(* Every step changes the handler of one connection, which holds the loop  *)
(* or finds it free: HandlersFine, and on it ClaimKept for the steps that  *)
(* keep the streams and StreamsStopped for those that end them.            *)
(***************************************************************************)
EXTENDS VicomServer, TLAPS

Points == {"off"} \cup Running \cup Suspended \cup Ended

Fine(r) ==
  /\ r \in ConnType
  /\ Len(r.lines) <= MaxLines /\ r.ctr >= -KeepaliveLimit

\* Until it leaves its loop a handler has told the panel what it remembers, but for a
\* late accept: then the call is gone, and the report that comes next says so.
Told(r, s) ==
  r.pc \in {"off", "hello", "greet", "wait", "hangup", "decline", "open", "poll", "register"} =>
    \/ r.told = r.prev
    \/ /\ r.prev = 1
       /\ r.pc = "register" \/ (r.pc = "poll" /\ s # 1)

ToldAll == \A c \in Conns : Told(conn[c], status)

IInv == TypeOK /\ StreamsOwned /\ CallSoundHasCall /\ OneEndpoint /\ ToldAll

\* Nobody but c holds the loop.
Alone(c) == ~Busy \/ conn[c].pc \in Running
-----------------------------------------------------------------------------
(* The records a handler becomes. *)

\* A handler's record with another point of control is a handler's record.
LEMMA PointChanges ==
  ASSUME NEW r, Fine(r), NEW pc \in Points
  PROVE  LET q == [r EXCEPT !.pc = pc]
         IN Fine(q) /\ q.pc = pc /\ q.prev = r.prev /\ q.told = r.told
BY DEF Fine, ConnType, Points

\* What is left of a handler after its loop.
LEMMA OverGives ==
  ASSUME NEW r, r.prev \in {-1, 0, 1}, NEW pc \in Points
  PROVE  Fine(Over(r, pc)) /\ Over(r, pc).pc = pc /\ Over(r, pc).prev = r.prev
<1>1. <<>> \in Seq(Lines) /\ Len(<<>>) = 0
  OBVIOUS
<1>2. NewConn \in ConnType /\ NewConn.lines = <<>> /\ NewConn.ctr = 0
  BY <1>1 DEF NewConn, ConnType
<1>3. Over(r, pc) \in ConnType /\ Over(r, pc).lines = <<>> /\ Over(r, pc).ctr = 0
  BY <1>2 DEF Over, ConnType, Points
<1>4. Over(r, pc).pc = pc /\ Over(r, pc).prev = r.prev
  BY <1>2 DEF Over, ConnType
<1>. QED
  BY <1>1, <1>3, <1>4, ServerAssumption DEF Fine

\* The loop goes on waiting with the same status, leaves or dies.
LEMMA LoopGives ==
  ASSUME NEW r, Fine(r)
  PROVE  /\ Fine(Loop(r)) /\ Loop(r).prev = r.prev
         /\ Loop(r).pc \in {"wait", "leave", "dead"}
         /\ Loop(r).pc = "wait" => Loop(r).told = r.told
<1>1. {"wait", "leave", "dead"} \subseteq Points
  BY DEF Points, Running, Suspended, Ended
<1>2. r.prev \in {-1, 0, 1}
  BY DEF Fine, ConnType
<1>3. CASE Loop(r) = Over(r, "leave")
  BY <1>1, <1>2, <1>3, OverGives
<1>4. CASE Loop(r) = Over(r, "dead")
  BY <1>1, <1>2, <1>4, OverGives
<1>5. CASE Loop(r) = [r EXCEPT !.pc = "wait"]
  BY <1>1, <1>5, PointChanges
<1>. QED
  BY <1>3, <1>4, <1>5 DEF Loop

\* A reset connection ends the handler, else it goes on with the record it wrote for.
LEMMA WrittenGives ==
  ASSUME NEW c \in Conns, NEW r, Fine(r), Fine(conn[c])
  PROVE  LET q == Written(c, r)
         IN /\ Fine(q)
            /\ \/ q = r
               \/ q.pc = "dead" /\ q.prev = conn[c].prev
<1>1. conn[c].prev \in {-1, 0, 1} /\ "dead" \in Points
  BY DEF Fine, ConnType, Points, Ended
<1>. QED
  BY <1>1, OverGives DEF Written

\* A ping is counted, and the connection closed at the limit, before the loop goes on.
LEMMA RestGives ==
  ASSUME NEW c \in Conns, NEW r, Fine(r), Fine(conn[c]), NEW due \in BOOLEAN
  PROVE  LET q == Rest(c, r, due)
         IN /\ Fine(q) /\ q.prev \in {r.prev, conn[c].prev}
            /\ q.pc \in {"wait", "leave", "dead"}
            /\ q.pc = "wait" => q.told = r.told /\ q.prev = r.prev
<1>. DEFINE link == IF GivenUp(r.ctr) THEN "closed" ELSE r.link
            counted == [r EXCEPT !.ctr = Missed(r)]
            pinged == [counted EXCEPT !.link = link]
<1>1. /\ Fine(Loop(pinged)) /\ Loop(pinged).prev = r.prev
      /\ Loop(pinged).pc \in {"wait", "leave", "dead"}
      /\ Loop(pinged).pc = "wait" => Loop(pinged).told = r.told
  <2>1. pinged \in ConnType /\ pinged.lines = r.lines /\ pinged.prev = r.prev
        /\ pinged.told = r.told /\ pinged.ctr = r.ctr - 1
    <3>1. link \in {"up", "eof", "lost", "closed"}
      BY DEF Fine, ConnType
    <3>2. counted \in ConnType /\ counted.lines = r.lines /\ counted.prev = r.prev
          /\ counted.told = r.told /\ counted.ctr = r.ctr - 1
      BY SMTT(60) DEF Fine, ConnType, Missed
    <3>. HIDE DEF link, counted
    <3>. QED
      BY <3>1, <3>2 DEF ConnType
  <2>2. CASE GivenUp(r.ctr)
    <3>1. pinged.link = "closed"
      <4>1. counted \in ConnType
        BY SMTT(60) DEF Fine, ConnType, Missed
      <4>2. link = "closed"
        BY <2>2
      <4>. HIDE DEF counted, link
      <4>. QED
        BY <4>1, <4>2 DEF ConnType
    <3>. HIDE DEF pinged
    <3>2. Loop(pinged) = Over(pinged, "leave")
      BY <3>1 DEF Loop
    <3>3. pinged.prev \in {-1, 0, 1} /\ "leave" \in Points
      BY <2>1 DEF ConnType, Points, Running
    <3>. QED
      BY <2>1, <3>2, <3>3, OverGives
  <2>3. CASE ~GivenUp(r.ctr)
    <3>1. Fine(pinged)
      <4>1. r.ctr \in Int /\ Len(r.lines) <= MaxLines
        BY DEF Fine, ConnType
      <4>2. pinged.ctr >= -KeepaliveLimit
        BY <2>1, <2>3, <4>1, ServerAssumption DEF GivenUp
      <4>. QED
        BY <2>1, <4>1, <4>2 DEF Fine
    <3>. HIDE DEF pinged
    <3>. QED
      BY <2>1, <3>1, LoopGives
  <2>. QED
    BY <2>2, <2>3
<1>. HIDE DEF pinged
<1>2. CASE due
  <2>1. Rest(c, r, due) = Written(c, Loop(pinged))
    BY <1>2 DEF Rest, pinged
  <2>. QED
    BY <1>1, <2>1, WrittenGives
<1>3. CASE ~due
  BY <1>3, LoopGives DEF Rest
<1>. QED
  BY <1>2, <1>3

\* Reading a line takes it from the buffer.
LEMMA LineRead ==
  ASSUME NEW c \in Conns, Fine(conn[c]), conn[c].lines # <<>>, NEW pc \in Points
  PROVE  LET q == AfterLine(c, pc)
         IN /\ Fine(q) /\ q.pc = pc /\ q.prev = conn[c].prev /\ q.told = conn[c].told
            /\ q.ctr = conn[c].ctr
<1>1. conn[c].lines \in Seq(Lines) /\ Len(conn[c].lines) <= MaxLines
  BY DEF Fine, ConnType
<1>2. Tail(conn[c].lines) \in Seq(Lines) /\ Len(Tail(conn[c].lines)) <= MaxLines
  BY <1>1, ServerAssumption
<1>3. (Head(conn[c].lines) \in Commands) \in BOOLEAN
  OBVIOUS
<1>. QED
  BY <1>2, <1>3 DEF Fine, ConnType, AfterLine, Points
-----------------------------------------------------------------------------
(* What a step may do to the handler of c and to the streams. *)

\* A handler changes, alone, into a fine record that told what it remembers.
HandlerStep(c, new) ==
  /\ Becomes(c, new) /\ Fine(new)
  /\ Alone(c)
  /\ Told(new, status') /\ status' \in {-1, 0, 1}

\* A handler that keeps its claim on the streams.
KeepsClaim(c, new) ==
  /\ new.pc \notin {"off", "done"}
  /\ new.prev \in {conn[c].prev, 1}
  /\ new.pc = "open" => conn[c].pc = "open"

\* The types, and what all handlers told, survive any such change.
LEMMA HandlersFine ==
  ASSUME TypeOK, ToldAll, NEW c \in Conns, NEW new, HandlerStep(c, new)
  PROVE  /\ conn' \in [Conns -> ConnType]
         /\ \A d \in Conns : conn'[d] = IF d = c THEN new ELSE conn[d]
         /\ \A d \in Conns : Len(conn'[d].lines) <= MaxLines /\ conn'[d].ctr >= -KeepaliveLimit
         /\ \A d, e \in Conns :
              conn'[d].pc \in Running /\ conn'[e].pc \in Running => d = e
         /\ ToldAll'
<1>1. conn \in [Conns -> ConnType] /\ new \in ConnType
  BY DEF TypeOK, HandlerStep, Fine
<1>2. conn' = [conn EXCEPT ![c] = new]
  BY DEF HandlerStep, Becomes
<1>3. conn' \in [Conns -> ConnType]
  BY <1>1, <1>2
<1>4. \A d \in Conns : conn'[d] = IF d = c THEN new ELSE conn[d]
  BY <1>1, <1>2
<1>5. \A d \in Conns : Len(conn'[d].lines) <= MaxLines /\ conn'[d].ctr >= -KeepaliveLimit
  BY <1>4 DEF TypeOK, HandlerStep, Fine
<1>6. \A d \in Conns : d # c => conn[d].pc \notin Running
  BY DEF HandlerStep, Alone, Busy, TypeOK
<1>7. \A d, e \in Conns : conn'[d].pc \in Running /\ conn'[e].pc \in Running => d = e
  BY <1>4, <1>6
<1>8. ToldAll'
  <2>1. SUFFICES ASSUME NEW d \in Conns PROVE Told(conn'[d], status')
    BY DEF ToldAll
  <2>2. CASE d = c
    BY <1>4, <2>2 DEF HandlerStep
  <2>3. CASE d # c
    <3>1. Told(conn[d], status) /\ conn'[d] = conn[d] /\ conn[d].pc # "poll"
      BY <1>4, <1>6, <2>3 DEF ToldAll, Running
    <3>. QED
      BY <3>1 DEF Told
  <2>. QED
    BY <2>2, <2>3
<1>. QED
  BY <1>3, <1>4, <1>5, <1>7, <1>8

\* A handler that keeps its claim, while the streams stay.
LEMMA ClaimKept ==
  ASSUME IInv, NEW c \in Conns, NEW new, HandlerStep(c, new), KeepsClaim(c, new),
         UNCHANGED streams
  PROVE  IInv'
<1>1. /\ conn' \in [Conns -> ConnType]
      /\ \A d \in Conns : conn'[d] = IF d = c THEN new ELSE conn[d]
      /\ \A d \in Conns : Len(conn'[d].lines) <= MaxLines /\ conn'[d].ctr >= -KeepaliveLimit
      /\ \A d, e \in Conns : conn'[d].pc \in Running /\ conn'[e].pc \in Running => d = e
      /\ ToldAll'
  BY HandlersFine DEF IInv
<1>2. video' = video /\ dest' = dest /\ audio' = audio /\ udp' = udp
  BY DEF streams
<1>3. TypeOK'
  BY <1>1, <1>2 DEF IInv, TypeOK, HandlerStep
<1>4. \A d \in Conns : Holds(d) => Holds(d)'
  BY <1>1 DEF Holds, KeepsClaim
<1>5. StreamsOwned'
  BY <1>2, <1>4 DEF IInv, TypeOK, StreamsOwned
<1>6. CallSoundHasCall'
  BY <1>1, <1>2 DEF IInv, CallSoundHasCall, KeepsClaim
<1>7. OneEndpoint'
  BY <1>1, <1>2 DEF IInv, OneEndpoint, KeepsClaim
<1>. QED
  BY <1>1, <1>3, <1>5, <1>6, <1>7 DEF IInv

\* stop_proc: either no stream is left and the handler may become anything but "open", or
\* it raises and the handler keeps its claim.
LEMMA StreamsStopped ==
  ASSUME IInv, NEW c \in Conns, NEW new, HandlerStep(c, new), StopProc,
         new.pc # "open", StopProcRaises => KeepsClaim(c, new)
  PROVE  IInv'
<1>1. /\ conn' \in [Conns -> ConnType]
      /\ \A d \in Conns : conn'[d] = IF d = c THEN new ELSE conn[d]
      /\ \A d \in Conns : Len(conn'[d].lines) <= MaxLines /\ conn'[d].ctr >= -KeepaliveLimit
      /\ \A d, e \in Conns : conn'[d].pc \in Running /\ conn'[e].pc \in Running => d = e
      /\ ToldAll'
  BY HandlersFine DEF IInv
<1>2. TypeOK'
  BY <1>1 DEF IInv, TypeOK, HandlerStep, StopProc
<1>3. CASE ~StopProcRaises
  <2>1. video' = "none" /\ dest' = None /\ audio' = "none" /\ udp' = "none"
    BY <1>3 DEF StopProc, StopProcRaises
  <2>2. OneEndpoint'
    BY <1>1, <1>3 DEF IInv, OneEndpoint, StopProcRaises
  <2>. QED
    BY <1>1, <1>2, <2>1, <2>2 DEF IInv, StreamsOwned, CallSoundHasCall
<1>4. CASE StopProcRaises
  <2>1. \A d \in Conns : Holds(d) => Holds(d)'
    BY <1>1, <1>4 DEF Holds, KeepsClaim
  <2>2. (video' = video /\ dest' = dest) \/ (video' = "none" /\ dest' = None)
    BY DEF StopProc, IInv, TypeOK
  <2>3. audio' \in {audio, "none"} /\ udp' = udp
    BY <1>4 DEF StopProc
  <2>4. StreamsOwned'
    <3>1. video' # "none" <=> dest' # None
      BY <2>2 DEF IInv, StreamsOwned
    <3>2. video' # "none" => Holds(dest)' /\ dest' = dest
      BY <2>1, <2>2 DEF IInv, StreamsOwned, TypeOK
    <3>3. audio' # "none" \/ udp' # "none" => \E d \in Conns : Holds(d)'
      BY <2>1, <2>3 DEF IInv, StreamsOwned
    <3>. QED
      BY <3>1, <3>2, <3>3 DEF StreamsOwned, Holds
  <2>5. CallSoundHasCall'
    BY <1>1, <1>4, <2>3 DEF IInv, CallSoundHasCall, KeepsClaim
  <2>6. OneEndpoint'
    BY <1>1, <1>4, <2>3 DEF IInv, OneEndpoint, KeepsClaim
  <2>. QED
    BY <1>1, <1>2, <2>4, <2>5, <2>6 DEF IInv
<1>. QED
  BY <1>3, <1>4
-----------------------------------------------------------------------------
(* The actions. *)

\* What the invariant says of one handler.
LEMMA Current ==
  ASSUME IInv, NEW c \in Conns
  PROVE  /\ Fine(conn[c]) /\ Told(conn[c], status)
         /\ status \in {-1, 0, 1} /\ conn[c].prev \in {-1, 0, 1}
BY DEF IInv, TypeOK, ToldAll, Fine, ConnType

\* Who is at a point has the loop, or finds it free.
LEMMA AtAlone ==
  ASSUME NEW c \in Conns, NEW pc \in Running \cup Suspended, At(c, pc)
  PROVE  Alone(c) /\ conn[c].pc = pc
BY DEF At, Alone

\* Going to a point is becoming a record that differs in it.
LEMMA GoesGives ==
  ASSUME IInv, NEW c \in Conns, NEW pc \in Points, Goes(c, pc)
  PROVE  \E new : /\ Becomes(c, new) /\ Fine(new)
                  /\ new.pc = pc /\ new.prev = conn[c].prev /\ new.told = conn[c].told
<1>1. conn \in [Conns -> ConnType]
  BY DEF IInv, TypeOK
<1>. DEFINE new == [conn[c] EXCEPT !.pc = pc]
<1>2. Becomes(c, new)
  BY <1>1 DEF Goes, Becomes
<1>3. Fine(new) /\ new.pc = pc /\ new.prev = conn[c].prev /\ new.told = conn[c].told
  BY Current, PointChanges
<1>. QED
  BY <1>2, <1>3

\* Handlers that only move: into, within and out of stop_calls, and into register().
LEMMA Moves ==
  ASSUME IInv, NEW c \in Conns,
         Connect(c) \/ Leave(c) \/ HangupReturns(c) \/ Register(c)
  PROVE  IInv'
<1>. DEFINE Moved(pc) == /\ Alone(c) /\ Goes(c, pc)
                         /\ \/ pc \in {"hello", "greet"} /\ conn[c].pc \in {"off", "hello"}
                            \/ pc = "decline" /\ conn[c].pc = "hangup"
                            \/ pc \in {"bye", "finish"}
                            \/ pc = "register" /\ conn[c].pc = "poll"
<1>1. (\E pc \in Points : Moved(pc)) /\ UNCHANGED streams /\ status' \in {-1, 0, 1}
  <2>1. {"hello", "greet", "decline", "bye", "finish", "register"} \subseteq Points
    BY DEF Points, Running, Suspended
  <2>2. CASE Connect(c)
    BY <2>1, <2>2, Current DEF Connect, StopCalls, Alone
  <2>3. CASE Leave(c)
    BY <2>1, <2>3, Current, AtAlone DEF Leave, StopCalls, Running
  <2>4. CASE HangupReturns(c)
    BY <2>1, <2>4, Current, AtAlone DEF HangupReturns, Suspended
  <2>5. CASE Register(c)
    BY <2>1, <2>5, Current, AtAlone DEF Register, Running
  <2>. QED
    BY <2>2, <2>3, <2>4, <2>5
<1>2. PICK pc \in Points : Moved(pc)
  BY <1>1
<1>3. PICK new : /\ Becomes(c, new) /\ Fine(new)
                 /\ new.pc = pc /\ new.prev = conn[c].prev /\ new.told = conn[c].told
  BY <1>2, GoesGives
<1>4. Told(new, status') /\ KeepsClaim(c, new)
  BY <1>2, <1>3, Current DEF Told, KeepsClaim
<1>. QED
  BY <1>1, <1>2, <1>3, <1>4, ClaimKept DEF HandlerStep

\* stop_proc with what follows: the handler dies, or becomes a record that is fine.
LEMMA StopProcThenKeeps ==
  ASSUME IInv, NEW c \in Conns, NEW new, StopProcThen(c, new), Alone(c),
         Fine(new), Told(new, status'), status' \in {-1, 0, 1}, new.pc # "open"
  PROVE  IInv'
<1>1. CASE StopProcRaises
  <2>1. "dead" \in Points /\ conn[c].prev \in {-1, 0, 1}
    BY Current DEF Points, Ended
  <2>2. /\ Fine(Over(conn[c], "dead")) /\ Over(conn[c], "dead").pc = "dead"
        /\ Over(conn[c], "dead").prev = conn[c].prev
    BY <2>1, OverGives
  <2>3. HandlerStep(c, Over(conn[c], "dead")) /\ StopProc
    BY <1>1, <2>2 DEF HandlerStep, StopProcThen, Told
  <2>4. KeepsClaim(c, Over(conn[c], "dead"))
    BY <2>2 DEF KeepsClaim
  <2>. QED
    BY <2>2, <2>3, <2>4, StreamsStopped
<1>2. CASE ~StopProcRaises
  BY <1>2, StreamsStopped DEF HandlerStep, StopProcThen
<1>. QED
  BY <1>1, <1>2

\* A connection begins with stop_proc, and goes on waiting unless it is lost already.
LEMMA GreetKeeps ==
  ASSUME IInv, NEW c \in Conns, Greet(c)
  PROVE  IInv'
<1>1. Alone(c) /\ conn[c].pc = "greet" /\ status' = status
  BY AtAlone DEF Greet, Running
<1>. DEFINE new == Written(c, Loop(conn[c]))
<1>2. Fine(new) /\ new.pc \in {"wait", "leave", "dead"}
      /\ (new.pc = "wait" => new.told = conn[c].told /\ new.prev = conn[c].prev)
  BY Current, LoopGives, WrittenGives
<1>. HIDE DEF new
<1>3. Told(new, status')
  BY <1>1, <1>2, Current DEF Told
<1>4. StopProcThen(c, new)
  BY DEF Greet, new
<1>. QED
  BY <1>1, <1>2, <1>3, <1>4, Current, StopProcThenKeeps

\* The handler's last stop_proc.
LEMMA FinishKeeps ==
  ASSUME IInv, NEW c \in Conns, Finish(c)
  PROVE  IInv'
<1>1. Alone(c) /\ status' = status /\ "done" \in Points
  BY AtAlone DEF Finish, Running, Points, Ended
<1>2. Fine(Over(conn[c], "done")) /\ Over(conn[c], "done").pc = "done"
  BY <1>1, Current, OverGives
<1>3. Told(Over(conn[c], "done"), status')
  BY <1>2 DEF Told
<1>. QED
  BY <1>1, <1>2, <1>3, Current, StopProcThenKeeps DEF Finish

\* A call that is declined may be gone; the streams stop in any case.
LEMMA DeclineKeeps ==
  ASSUME IInv, NEW c \in Conns, Decline(c)
  PROVE  IInv'
<1>1. Alone(c) /\ conn[c].pc = "decline" /\ status' \in {-1, 0, 1} /\ "poll" \in Points
  BY Current, AtAlone DEF Decline, Running, Points
<1>. DEFINE new == [conn[c] EXCEPT !.pc = "poll"]
<1>2. Fine(new) /\ new.pc = "poll" /\ new.told = conn[c].told /\ new.prev = conn[c].prev
  BY <1>1, Current, PointChanges
<1>3. StopProcThen(c, new)
  BY DEF Decline
<1>. HIDE DEF new
<1>4. Told(new, status')
  BY <1>1, <1>2, Current DEF Told
<1>. QED
  BY <1>1, <1>2, <1>3, <1>4, StopProcThenKeeps

\* A handler in has_data: the loop is free, and what it told is what it remembers.
LEMMA Waiting ==
  ASSUME IInv, NEW c \in Conns, At(c, "wait")
  PROVE  /\ Alone(c) /\ Fine(conn[c]) /\ conn[c].told = conn[c].prev
         /\ {"poll", "hangup", "decline", "open", "dead"} \subseteq Points
BY Current, AtAlone DEF Suspended, Running, Ended, Points, Told

\* has_data ends without a line.
LEMMA NoLineKeeps ==
  ASSUME IInv, NEW c \in Conns, NoData(c) \/ DataLost(c) \/ ReadEof(c)
  PROVE  IInv'
<1>1. At(c, "wait") /\ UNCHANGED <<streams, status>>
  BY DEF NoData, DataLost, ReadEof, HasData
<1>2. \E new : /\ Becomes(c, new) /\ Fine(new) /\ new.pc \in {"poll", "dead"}
               /\ new.prev = conn[c].prev /\ (new.pc = "poll" => new.told = conn[c].told)
  <2>1. CASE NoData(c)
    <3>. DEFINE new == [conn[c] EXCEPT !.pc = "poll", !.woken = FALSE]
    <3>1. Fine(new) /\ new.pc = "poll" /\ new.prev = conn[c].prev /\ new.told = conn[c].told
      BY <1>1, Waiting DEF Fine, ConnType, Points
    <3>. QED
      BY <2>1, <3>1 DEF NoData
  <2>2. CASE DataLost(c)
    BY <1>1, <2>2, Waiting, Current, OverGives DEF DataLost
  <2>3. CASE ReadEof(c)
    <3>. DEFINE new == [conn[c] EXCEPT !.pc = "poll", !.woken = FALSE, !.nul = FALSE]
    <3>1. Fine(new) /\ new.pc = "poll" /\ new.prev = conn[c].prev /\ new.told = conn[c].told
      BY <1>1, Waiting DEF Fine, ConnType, Points
    <3>. QED
      BY <2>3, <3>1 DEF ReadEof
  <2>. QED
    BY <2>1, <2>2, <2>3
<1>3. PICK new : /\ Becomes(c, new) /\ Fine(new) /\ new.pc \in {"poll", "dead"}
                 /\ new.prev = conn[c].prev /\ (new.pc = "poll" => new.told = conn[c].told)
  BY <1>2
<1>4. Told(new, status') /\ KeepsClaim(c, new)
  BY <1>1, <1>3, Waiting DEF Told, KeepsClaim
<1>. QED
  BY <1>1, <1>3, <1>4, Waiting, Current, ClaimKept DEF HandlerStep

\* Lines that leave the streams alone.
QuietLine(c) ==
  \/ ShowOffline(c) \/ RequestRaises(c) \/ OpenDoor(c) \/ AcceptIdle(c) \/ AcceptLate(c)
  \/ HangUp(c) \/ Pong(c)

\* Such a line leaves the handler its claim and what it told, but for the late accept.
LEMMA QuietLineKeeps ==
  ASSUME IInv, NEW c \in Conns, QuietLine(c)
  PROVE  IInv'
<1>1. /\ At(c, "wait") /\ conn[c].lines # <<>>
      /\ UNCHANGED streams /\ status' \in {-1, 0, 1}
  BY Current DEF QuietLine, ShowOffline, RequestRaises, OpenDoor, AcceptIdle, AcceptLate, HangUp,
                 Pong, Reads, HasData
<1>2. \A pc \in Points :
        LET q == AfterLine(c, pc)
        IN /\ Fine(q) /\ q.pc = pc /\ q.prev = conn[c].prev /\ q.told = conn[c].told
           /\ q.ctr = conn[c].ctr
  BY <1>1, Waiting, LineRead
<1>3. \E new : /\ Becomes(c, new) /\ Fine(new) /\ new.pc \in {"poll", "hangup", "decline", "dead"}
               /\ new.prev = conn[c].prev
               /\ \/ new.pc = "dead" \/ new.told = conn[c].told
                  \/ new.pc = "poll" /\ new.prev = 1 /\ status' # 1
  <2>1. CASE ShowOffline(c) \/ OpenDoor(c) \/ AcceptIdle(c)
    BY <1>1, <1>2, <2>1, Waiting DEF ShowOffline, OpenDoor, AcceptIdle
  <2>2. CASE RequestRaises(c)
    BY <1>1, <2>2, Waiting, Current, OverGives DEF RequestRaises
  <2>3. CASE AcceptLate(c)
    <3>. DEFINE q == AfterLine(c, "poll")
                new == [q EXCEPT !.told = 0]
    <3>1. Fine(q) /\ q.pc = "poll" /\ q.prev = conn[c].prev
      BY <1>1, <1>2, Waiting
    <3>2. Becomes(c, new) /\ conn[c].prev = 1 /\ status # 1 /\ status' = status
      BY <2>3 DEF AcceptLate
    <3>. HIDE DEF q
    <3>3. Fine(new) /\ new.pc = "poll" /\ new.prev = conn[c].prev
      BY <3>1 DEF Fine, ConnType
    <3>. QED
      BY <3>2, <3>3
  <2>4. CASE HangUp(c)
    BY <1>1, <1>2, <2>4, Waiting DEF HangUp
  <2>5. CASE Pong(c)
    <3>. DEFINE q == AfterLine(c, "poll")
                new == [q EXCEPT !.ctr = Ponged(@)]
    <3>1. Fine(q) /\ q.pc = "poll" /\ q.prev = conn[c].prev /\ q.told = conn[c].told
      BY <1>1, <1>2, Waiting
    <3>2. Becomes(c, new)
      BY <2>5 DEF Pong
    <3>. HIDE DEF q
    <3>3. q.ctr \in Int
      BY <3>1 DEF Fine, ConnType
    <3>4. Ponged(q.ctr) \in Int /\ Ponged(q.ctr) >= -KeepaliveLimit
      BY <3>3, ServerAssumption DEF Ponged
    <3>5. Fine(new) /\ new.pc = "poll" /\ new.prev = conn[c].prev /\ new.told = conn[c].told
      BY <3>1, <3>4 DEF Fine, ConnType
    <3>. QED
      BY <3>2, <3>5
  <2>. QED
    BY <2>1, <2>2, <2>3, <2>4, <2>5 DEF QuietLine
<1>4. PICK new : /\ Becomes(c, new) /\ Fine(new)
                 /\ new.pc \in {"poll", "hangup", "decline", "dead"}
                 /\ new.prev = conn[c].prev
                 /\ \/ new.pc = "dead" \/ new.told = conn[c].told
                    \/ new.pc = "poll" /\ new.prev = 1 /\ status' # 1
  BY <1>3
<1>5. Told(new, status') /\ KeepsClaim(c, new)
  BY <1>1, <1>4, Waiting DEF Told, KeepsClaim
<1>. QED
  BY <1>1, <1>4, <1>5, Waiting, ClaimKept DEF HandlerStep

\* An exception out of stop_calls leaves the handler's claim as it is.
LEMMA HangupRaisesKeeps ==
  ASSUME IInv, NEW c \in Conns, HangupRaises(c)
  PROVE  IInv'
<1>. DEFINE new == Over(conn[c], "dead")
<1>1. Alone(c)
  BY AtAlone DEF HangupRaises, AwaitsHangup, Suspended
<1>2. "dead" \in Points
  BY DEF Points, Ended
<1>3. Fine(new) /\ new.pc = "dead" /\ new.prev = conn[c].prev
  BY <1>2, Current, OverGives
<1>4. Becomes(c, new) /\ UNCHANGED <<streams, status>>
  BY DEF HangupRaises
<1>. HIDE DEF new
<1>5. Told(new, status') /\ KeepsClaim(c, new) /\ status' \in {-1, 0, 1}
  BY <1>3, <1>4, Current DEF Told, KeepsClaim
<1>. QED
  BY <1>1, <1>3, <1>4, <1>5, ClaimKept DEF HandlerStep

\* A picture and a sound are started by a handler that is not offline, the ring tone by
\* one that knows of a call.
LEMMA ShowKeeps ==
  ASSUME IInv, NEW c \in Conns, Show(c)
  PROVE  IInv'
<1>. DEFINE new == AfterLine(c, "poll")
<1>1. At(c, "wait") /\ conn[c].lines # <<>> /\ conn[c].prev # -1 /\ status' = status
  BY DEF Show, Reads, HasData
<1>2. Fine(new) /\ new.pc = "poll" /\ new.prev = conn[c].prev /\ new.told = conn[c].told
  BY <1>1, Waiting, LineRead
<1>3. Becomes(c, new)
  BY DEF Show
<1>. HIDE DEF new
<1>4. HandlerStep(c, new)
  BY <1>1, <1>2, <1>3, Waiting, Current DEF HandlerStep, Told
<1>5. /\ conn' \in [Conns -> ConnType]
      /\ \A d \in Conns : conn'[d] = IF d = c THEN new ELSE conn[d]
      /\ \A d \in Conns : Len(conn'[d].lines) <= MaxLines /\ conn'[d].ctr >= -KeepaliveLimit
      /\ \A d, e \in Conns : conn'[d].pc \in Running /\ conn'[e].pc \in Running => d = e
      /\ ToldAll'
  BY <1>4, HandlersFine DEF IInv
<1>6. /\ \/ video' = video /\ dest' = dest
         \/ video = "none" /\ video' = "running" /\ dest' = c
      /\ audio' \in {audio, Sound(c)} /\ udp' = udp
  BY DEF Show
<1>7. Sound(c) \in {"ring", "loop"} /\ (Sound(c) = "ring" => conn[c].prev = 1)
  BY DEF Sound
<1>8. TypeOK'
  BY <1>1, <1>5, <1>6, <1>7 DEF IInv, TypeOK
<1>9. Holds(c)' /\ \A d \in Conns : Holds(d) => Holds(d)'
  BY <1>1, <1>2, <1>5 DEF Holds
<1>10. StreamsOwned'
  <2>1. video' # "none" <=> dest' # None
    BY <1>6, ServerAssumption DEF IInv, StreamsOwned
  <2>2. video' # "none" => Holds(dest)'
    <3>1. CASE video' = video /\ dest' = dest
      BY <1>9, <3>1 DEF IInv, StreamsOwned, TypeOK, Holds
    <3>2. CASE dest' = c
      BY <1>9, <3>2 DEF Holds
    <3>. QED
      BY <1>6, <3>1, <3>2
  <2>3. \E d \in Conns : Holds(d)'
    BY <1>9
  <2>. QED
    BY <2>1, <2>2, <2>3 DEF StreamsOwned
<1>11. CallSoundHasCall'
  BY <1>2, <1>5, <1>6, <1>7 DEF IInv, CallSoundHasCall
<1>12. OneEndpoint'
  BY <1>2, <1>5, <1>6 DEF IInv, OneEndpoint
<1>. QED
  BY <1>5, <1>8, <1>10, <1>11, <1>12 DEF IInv

\* Only a handler that knows of a call accepts, and it creates the endpoint only when
\* nobody else does.
LEMMA AcceptKeeps ==
  ASSUME IInv, NEW c \in Conns, Accept(c)
  PROVE  IInv'
<1>1. /\ At(c, "wait") /\ conn[c].lines # <<>> /\ conn[c].prev = 1 /\ status' = status
      /\ audio' = "loop" /\ video' = video /\ dest' = dest
  BY DEF Accept, Reads, HasData
<1>2. \E new : /\ Becomes(c, new) /\ Fine(new) /\ new.pc \in {"poll", "open", "dead"}
               /\ new.prev = 1 /\ (new.pc # "dead" => new.told = conn[c].told)
               /\ \/ new.pc = "poll" /\ udp' = udp
                  \/ udp = "none" /\ udp' = "pending"
  <2>1. Fine(AfterLine(c, "poll")) /\ Fine(AfterLine(c, "open")) /\ Fine(Over(conn[c], "dead"))
    BY <1>1, Waiting, Current, LineRead, OverGives
  <2>2. \A pc \in {"poll", "open"} :
          AfterLine(c, pc).pc = pc /\ AfterLine(c, pc).prev = 1
          /\ AfterLine(c, pc).told = conn[c].told
    BY <1>1, Waiting, LineRead
  <2>3. Over(conn[c], "dead").pc = "dead" /\ Over(conn[c], "dead").prev = 1
    BY <1>1, Waiting, Current, OverGives
  <2>. QED
    BY <2>1, <2>2, <2>3 DEF Accept, EndpointExists
<1>3. PICK new : /\ Becomes(c, new) /\ Fine(new) /\ new.pc \in {"poll", "open", "dead"}
                 /\ new.prev = 1 /\ (new.pc # "dead" => new.told = conn[c].told)
                 /\ \/ new.pc = "poll" /\ udp' = udp
                    \/ udp = "none" /\ udp' = "pending"
  BY <1>2
<1>4. HandlerStep(c, new)
  BY <1>1, <1>3, Waiting, Current DEF HandlerStep, Told
<1>5. /\ conn' \in [Conns -> ConnType]
      /\ \A d \in Conns : conn'[d] = IF d = c THEN new ELSE conn[d]
      /\ \A d \in Conns : Len(conn'[d].lines) <= MaxLines /\ conn'[d].ctr >= -KeepaliveLimit
      /\ \A d, e \in Conns : conn'[d].pc \in Running /\ conn'[e].pc \in Running => d = e
      /\ ToldAll'
  BY <1>4, HandlersFine DEF IInv
<1>6. TypeOK'
  BY <1>1, <1>3, <1>5 DEF IInv, TypeOK
<1>7. Holds(c)' /\ \A d \in Conns : Holds(d) => Holds(d)'
  BY <1>3, <1>5 DEF Holds
<1>8. StreamsOwned'
  BY <1>1, <1>7 DEF IInv, StreamsOwned, TypeOK
<1>9. CallSoundHasCall'
  BY <1>3, <1>5 DEF CallSoundHasCall
<1>10. OneEndpoint'
  BY <1>3, <1>5 DEF IInv, OneEndpoint
<1>. QED
  BY <1>5, <1>6, <1>8, <1>9, <1>10 DEF IInv

\* The endpoint was pending and is open; its creator knows of a call still.
LEMMA OpenReturnsKeeps ==
  ASSUME IInv, NEW c \in Conns, OpenReturns(c)
  PROVE  IInv'
<1>1. /\ Alone(c) /\ conn[c].pc = "open" /\ status' = status /\ udp' = "open"
      /\ video' = video /\ dest' = dest /\ audio' = audio /\ "poll" \in Points
  BY AtAlone DEF OpenReturns, Suspended, Points, Running
<1>. DEFINE polls == [conn[c] EXCEPT !.pc = "poll"]
            new == Written(c, polls)
<1>2. Fine(polls) /\ polls.pc = "poll" /\ polls.prev = conn[c].prev /\ polls.told = conn[c].told
  BY <1>1, Current, PointChanges
<1>. HIDE DEF polls
<1>3. /\ Fine(new) /\ new.pc \in {"poll", "dead"} /\ new.prev = conn[c].prev
      /\ (new.pc = "poll" => new.told = conn[c].told)
  BY <1>2, Current, WrittenGives
<1>4. Becomes(c, new)
  BY DEF OpenReturns, polls
<1>. HIDE DEF new
<1>5. HandlerStep(c, new)
  BY <1>1, <1>3, <1>4, Current DEF HandlerStep, Told
<1>6. /\ conn' \in [Conns -> ConnType]
      /\ \A d \in Conns : conn'[d] = IF d = c THEN new ELSE conn[d]
      /\ \A d \in Conns : Len(conn'[d].lines) <= MaxLines /\ conn'[d].ctr >= -KeepaliveLimit
      /\ \A d, e \in Conns : conn'[d].pc \in Running /\ conn'[e].pc \in Running => d = e
      /\ ToldAll'
  BY <1>5, HandlersFine DEF IInv
<1>7. TypeOK'
  BY <1>1, <1>6 DEF IInv, TypeOK
<1>8. udp = "pending" /\ \A d \in Conns : conn[d].pc = "open" => c = d
  BY <1>1 DEF IInv, OneEndpoint
<1>9. \A d \in Conns : Holds(d) => Holds(d)'
  BY <1>3, <1>6 DEF Holds
<1>10. StreamsOwned'
  <2>1. \E d \in Conns : Holds(d)'
    BY <1>8, <1>9 DEF IInv, StreamsOwned
  <2>. QED
    BY <1>1, <1>9, <2>1 DEF IInv, StreamsOwned, TypeOK
<1>11. CallSoundHasCall'
  BY <1>3, <1>6, <1>8 DEF IInv, CallSoundHasCall
<1>12. OneEndpoint'
  BY <1>3, <1>6, <1>8 DEF OneEndpoint
<1>. QED
  BY <1>6, <1>7, <1>10, <1>11, <1>12 DEF IInv

\* The status is compared, told and remembered, or the streams stop first.
LEMMA ReportKeeps ==
  ASSUME IInv, NEW c \in Conns, NEW due \in BOOLEAN,
         Poll(c, due) \/ RegisterReturns(c, due)
  PROVE  IInv'
<1>1. PICK s : /\ Report(c, s, due) /\ status' = s /\ s \in {-1, 0, 1} /\ Alone(c)
               /\ s = conn[c].prev => conn[c].told = conn[c].prev
  <2>1. CASE Poll(c, due)
    <3>1. Alone(c) /\ conn[c].pc = "poll" /\ status' = status /\ Report(c, status, due)
      BY <2>1, AtAlone DEF Poll, Running
    <3>. QED
      BY <3>1, Current DEF Told
  <2>2. CASE RegisterReturns(c, due)
    <3>1. Alone(c) /\ conn[c].pc = "register"
      BY <2>2, AtAlone DEF RegisterReturns, Suspended
    <3>2. \E s \in {-1, 0} : status' = s /\ Report(c, s, due)
      BY <2>2 DEF RegisterReturns
    <3>. QED
      BY <3>1, <3>2, Current DEF Told
  <2>. QED
    BY <2>1, <2>2
<1>. DEFINE told == [conn[c] EXCEPT !.told = s, !.prev = Known(c, s)]
            new == Written(c, Rest(c, told, due))
<1>2. Fine(told) /\ told.told = s /\ told.prev = s
  BY <1>1, Current DEF Fine, ConnType, Known
<1>3. CASE s = conn[c].prev
  <2>. DEFINE kept == Rest(c, conn[c], due)
  <2>1. /\ Fine(kept) /\ kept.prev = conn[c].prev /\ kept.pc \in {"wait", "leave", "dead"}
        /\ kept.pc = "wait" => kept.told = conn[c].told
    BY Current, RestGives
  <2>2. Becomes(c, kept) /\ UNCHANGED streams
    BY <1>1, <1>3 DEF Report
  <2>. HIDE DEF kept
  <2>3. HandlerStep(c, kept) /\ KeepsClaim(c, kept)
    BY <1>1, <1>3, <2>1, <2>2 DEF HandlerStep, KeepsClaim, Told
  <2>. QED
    BY <2>2, <2>3, ClaimKept
<1>4. CASE s # conn[c].prev
  <2>1. /\ Fine(new) /\ new.prev \in {s, conn[c].prev} /\ new.pc \in {"wait", "leave", "dead"}
        /\ new.pc = "wait" => new.told = new.prev
    <3>. DEFINE rest == Rest(c, told, due)
    <3>. HIDE DEF told
    <3>1. /\ Fine(rest) /\ rest.prev \in {s, conn[c].prev}
          /\ rest.pc \in {"wait", "leave", "dead"}
          /\ rest.pc = "wait" => rest.told = rest.prev
      BY <1>2, Current, RestGives
    <3>. HIDE DEF rest
    <3>2. LET q == Written(c, rest)
          IN Fine(q) /\ (q = rest \/ (q.pc = "dead" /\ q.prev = conn[c].prev))
      BY <3>1, Current, WrittenGives
    <3>. QED
      BY <3>1, <3>2 DEF rest
  <2>2. \/ s = 1 /\ Becomes(c, new) /\ UNCHANGED streams
        \/ s # 1 /\ StopProcThen(c, new)
    BY <1>1, <1>4 DEF Report
  <2>. HIDE DEF new
  <2>3. Told(new, status')
    BY <2>1 DEF Told
  <2>4. CASE s = 1
    BY <1>1, <2>1, <2>2, <2>3, <2>4, ClaimKept DEF HandlerStep, KeepsClaim
  <2>5. CASE s # 1
    BY <1>1, <2>1, <2>2, <2>3, <2>5, StopProcThenKeeps
  <2>. QED
    BY <2>4, <2>5
<1>. QED
  BY <1>3, <1>4

\* What the network does to a handler's reader leaves the handler where it is.
LEMMA NetworkKeeps ==
  ASSUME IInv, NEW c \in Conns, Network(c)
  PROVE  IInv'
<1>1. CASE Connect(c)
  BY <1>1, Moves
<1>2. CASE Shut(c) \/ Lose(c) \/ \E line \in Lines : Arrives(c, line)
  <2>1. Open(c) /\ UNCHANGED <<streams, status>>
    BY <1>2 DEF Shut, Lose, Arrives
  <2>2. \E r : /\ Woken(c, r) /\ Fine(r)
               /\ r.pc = conn[c].pc /\ r.prev = conn[c].prev /\ r.told = conn[c].told
    <3>1. Fine(conn[c])
      BY Current
    <3>2. CASE Shut(c)
      <4>. DEFINE r == [conn[c] EXCEPT !.link = "eof"]
      <4>1. Fine(r) /\ r.pc = conn[c].pc /\ r.prev = conn[c].prev /\ r.told = conn[c].told
        BY <3>1 DEF Fine, ConnType
      <4>. QED
        BY <3>2, <4>1 DEF Shut
    <3>3. CASE Lose(c)
      <4>. DEFINE empty == <<>>
                  r == [conn[c] EXCEPT !.link = "lost", !.lines = empty, !.nul = FALSE]
      <4>1. empty \in Seq(Lines) /\ Len(empty) = 0
        OBVIOUS
      <4>. HIDE DEF empty
      <4>2. conn[c] \in ConnType /\ conn[c].ctr >= -KeepaliveLimit
        BY <3>1 DEF Fine
      <4>3. r \in ConnType
        BY <4>1, <4>2 DEF ConnType
      <4>4. /\ r.pc = conn[c].pc /\ r.prev = conn[c].prev /\ r.told = conn[c].told
            /\ r.ctr = conn[c].ctr
        BY <4>2 DEF ConnType
      <4>5. r.lines = empty
        BY <4>2 DEF ConnType
      <4>6. Fine(r)
        <5>. HIDE DEF r
        <5>. QED
          BY <4>1, <4>2, <4>3, <4>4, <4>5, ServerAssumption DEF Fine
      <4>. QED
        BY <3>3, <4>4, <4>6 DEF Lose, empty
    <3>4. CASE \E line \in Lines : Arrives(c, line)
      <4>1. PICK line \in Lines : Arrives(c, line)
        BY <3>4
      <4>. DEFINE r == [conn[c] EXCEPT !.lines = Append(@, line)]
      <4>2. /\ Append(conn[c].lines, line) \in Seq(Lines)
            /\ Len(Append(conn[c].lines, line)) <= MaxLines
        BY <3>1, <4>1, ServerAssumption DEF Fine, ConnType, Arrives
      <4>3. Fine(r) /\ r.pc = conn[c].pc /\ r.prev = conn[c].prev /\ r.told = conn[c].told
        BY <3>1, <4>2 DEF Fine, ConnType
      <4>. QED
        BY <4>1, <4>3 DEF Arrives
    <3>. QED
      BY <1>2, <3>2, <3>3, <3>4
  <2>3. PICK r : /\ Woken(c, r) /\ Fine(r)
                 /\ r.pc = conn[c].pc /\ r.prev = conn[c].prev /\ r.told = conn[c].told
    BY <2>2
  <2>. DEFINE new == [r EXCEPT !.woken = (conn[c].pc = "wait")]
  <2>4. Becomes(c, new)
    BY <2>3 DEF Woken
  <2>5. Fine(new) /\ new.pc = conn[c].pc /\ new.prev = conn[c].prev /\ new.told = conn[c].told
    <3>1. (conn[c].pc = "wait") \in BOOLEAN
      OBVIOUS
    <3>. QED
      BY <2>3, <3>1 DEF Fine, ConnType
  <2>. HIDE DEF new
  <2>6. Told(new, status') /\ KeepsClaim(c, new) /\ Alone(c)
    BY <2>1, <2>5, Current DEF Told, KeepsClaim, Open, Alone
  <2>. QED
    BY <2>1, <2>4, <2>5, <2>6, Current, ClaimKept DEF HandlerStep
<1>. QED
  BY <1>1, <1>2 DEF Network

\* A call comes and goes while no handler is between reading the status and telling it.
LEMMA CallsKeep ==
  ASSUME IInv, CallComes \/ CallGoes
  PROVE  IInv'
<1>1. ~Busy /\ status' \in {0, 1} /\ UNCHANGED <<conn, video, dest, audio, udp>>
  BY DEF CallComes, CallGoes, streams
<1>2. TypeOK' /\ StreamsOwned' /\ CallSoundHasCall' /\ OneEndpoint'
  BY <1>1 DEF IInv, TypeOK, StreamsOwned, Holds, CallSoundHasCall, OneEndpoint
<1>3. ToldAll'
  BY <1>1 DEF IInv, ToldAll, Told, Busy, Running
<1>. QED
  BY <1>2, <1>3 DEF IInv

\* A restarted child is the same connection's.
LEMMA RestartKeeps ==
  ASSUME IInv, Restart
  PROVE  IInv'
<1>1. video # "none" /\ video' \in {"running", "reaped"} /\ UNCHANGED <<conn, dest, audio, udp, status>>
  BY DEF Restart
<1>. QED
  BY <1>1 DEF IInv, TypeOK, StreamsOwned, Holds, CallSoundHasCall, OneEndpoint, ToldAll, Told

\* Before the first connection there is nothing that could be owned.
LEMMA InitHolds == Init => IInv
<1>1. <<>> \in Seq(Lines) /\ Len(<<>>) = 0
  OBVIOUS
<1>2. Fine(NewConn) /\ NewConn.pc = "off" /\ NewConn.told = NewConn.prev
  BY <1>1, ServerAssumption DEF NewConn, Fine, ConnType
<1>. SUFFICES ASSUME Init PROVE IInv
  OBVIOUS
<1>3. conn \in [Conns -> ConnType] /\ \A c \in Conns : conn[c] = NewConn
  BY <1>2 DEF Init, Fine
<1>4. TypeOK
  BY <1>2, <1>3 DEF Init, TypeOK, Fine, Running
<1>5. StreamsOwned /\ CallSoundHasCall /\ OneEndpoint /\ ToldAll
  BY <1>2, <1>3 DEF Init, StreamsOwned, CallSoundHasCall, OneEndpoint, ToldAll, Told
<1>. QED
  BY <1>4, <1>5 DEF IInv

\* A handler that was called, whatever it does.
LEMMA RunsKeeps ==
  ASSUME IInv, NEW c \in Conns, Runs(c)
  PROVE  IInv'
<1>1. CASE HangupReturns(c) \/ Register(c) \/ Leave(c)
  BY <1>1, Moves
<1>2. CASE Greet(c)
  BY <1>2, GreetKeeps
<1>3. CASE Finish(c)
  BY <1>3, FinishKeeps
<1>4. CASE Decline(c)
  BY <1>4, DeclineKeeps
<1>5. CASE NoData(c) \/ DataLost(c) \/ ReadEof(c)
  BY <1>5, NoLineKeeps
<1>6. CASE QuietLine(c)
  BY <1>6, QuietLineKeeps
<1>7. CASE Show(c)
  BY <1>7, ShowKeeps
<1>8. CASE Accept(c)
  BY <1>8, AcceptKeeps
<1>9. CASE OpenReturns(c)
  BY <1>9, OpenReturnsKeeps
<1>10. CASE \E due \in BOOLEAN : Loops(c, due)
  BY <1>10, ReportKeeps DEF Loops
<1>11. CASE HangupRaises(c)
  BY <1>11, HangupRaisesKeeps
<1>. QED
  BY <1>1, <1>2, <1>3, <1>4, <1>5, <1>6, <1>7, <1>8, <1>9, <1>10, <1>11
  DEF Runs, Line, QuietLine
-----------------------------------------------------------------------------
(* The theorems. *)

\* The inductive invariant holds in every behaviour.
THEOREM Invariance == Spec => []IInv
<1>1. IInv /\ [Next]_vars => IInv'
  <2>. SUFFICES ASSUME IInv, [Next]_vars PROVE IInv'
    OBVIOUS
  <2>1. CASE \E c \in Conns : Runs(c) \/ Network(c)
    BY <2>1, RunsKeeps, NetworkKeeps
  <2>2. CASE CallComes \/ CallGoes
    BY <2>2, CallsKeep
  <2>3. CASE Restart
    BY <2>3, RestartKeeps
  <2>4. CASE UNCHANGED vars
    BY <2>4 DEF vars, IInv, TypeOK, StreamsOwned, Holds, CallSoundHasCall, OneEndpoint,
                ToldAll, Told
  <2>. QED
    BY <2>1, <2>2, <2>3, <2>4 DEF Next
<1>. QED
  BY <1>1, InitHolds, PTL DEF Spec

\* TypeOK: the reader's buffer keeps its bound, keepalive_ctr never falls below the limit,
\* and one handler at a time holds the loop.
THEOREM TypeCorrect == Spec => []TypeOK
BY Invariance, PTL DEF IInv

\* StreamsOwned: ffmpeg_v_proc_dest is a connection that was not cleaned up after, and
\* no child and no microphone endpoint outlives the last such connection.
THEOREM StreamsHaveOwner == Spec => []StreamsOwned
BY Invariance, PTL DEF IInv

\* CallSoundHasCall: the ring tone and the endpoint stop with the last handler that
\* knows of a call.
THEOREM SoundHasCall == Spec => []CallSoundHasCall
BY Invariance, PTL DEF IInv

\* OneEndpoint: create_datagram_endpoint never runs twice for port 8102.
THEOREM EndpointIsUnique == Spec => []OneEndpoint
BY Invariance, PTL DEF IInv

\* StatusAgreed: a handler that waits in has_data has written the status it remembers in
\* prev_status.  A late accept breaks that, and the loop repairs it before it waits.
THEOREM StatusToldIsKnown == Spec => []StatusAgreed
<1>1. IInv => StatusAgreed
  BY DEF IInv, ToldAll, Told, StatusAgreed
<1>. QED
  BY <1>1, Invariance, PTL
=============================================================================
