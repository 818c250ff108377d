-------------------------- MODULE RtpSession_proofs --------------------------
(***************************************************************************)
(* The invariants of RtpSession for any number of streams and frames.      *)
(***************************************************************************)
EXTENDS RtpSession, TLAPS

\* The lock is held in recv and around sendto, nowhere else.
LockHeld == /\ lock = "sender" <=> spc = "send"
            /\ lock = "receiver" <=> rpc = "blocked"

\* A receiver finds the socket blocking only behind the sender's lock or after an error.
BlockingExplained == sock = "blocking" /\ rpc # "off" => spc = "send" \/ failed

\* Without a socket there are no threads.
NoThreadsYet == sock = "none" => spc = "off" /\ rpc = "off" /\ amd = "off"

\* The sender that is past its first look holds the attached stream, or nothing stale
\* was sent since the attached one came.
HeldIsAttached == spc \in {"take", "lock", "send"} /\ held \notin {0, attached} => stale = 0

\* Once _stop got past close(), nothing opens the socket again.
ClosedForGood == stop \in {"joining", "done"} => ~running /\ sock = "closed"

\* A thread that has not ended may still add a frame.
RoomForTheLast == \A u \in Streams \ ended : queued[u] <= MaxQueued

IInv == /\ TypeOK /\ BlockedByFailure /\ StopIsWhole /\ OneStaleFrame
        /\ LockHeld /\ BlockingExplained /\ NoThreadsYet /\ HeldIsAttached
        /\ ClosedForGood /\ RoomForTheLast

\* A session begins without threads and with its socket closed.
LEMMA InitInvariant == Init => IInv
<1> SUFFICES ASSUME Init PROVE IInv
  OBVIOUS
<1>1. queued \in [Streams -> 0..(MaxQueued + 1)]
  BY SessionAssumption DEF Init
<1>2. attached \in 0..MaxStreams /\ held \in 0..attached
  BY SessionAssumption DEF Init
<1>3. TypeOK
  BY <1>1, <1>2 DEF Init, TypeOK
<1>4. RoomForTheLast
  BY SessionAssumption DEF Init, RoomForTheLast
<1> QED BY <1>3, <1>4 DEF Init, IInv, BlockedByFailure, StopIsWhole, ClosedForGood, OneStaleFrame,
          LockHeld, BlockingExplained, NoThreadsYet, HeldIsAttached

-----------------------------------------------------------------------------
(* The loop. *)

\* The start opens the socket of a session that was not stopped, or whose _stop raised.
LEMMA StartInvariant == IInv /\ Start => IInv'
BY DEF Start, IInv, TypeOK, BlockedByFailure, StopIsWhole, ClosedForGood, OneStaleFrame, LockHeld,
   BlockingExplained, NoThreadsYet, HeldIsAttached, RoomForTheLast, voice

\* A stop that closed the socket is final, and its end changes nothing that the threads
\* rely on.
LEMMA StopInvariant == IInv /\ (StopBegins \/ Joined) => IInv'
<1> SUFFICES ASSUME IInv, StopBegins \/ Joined PROVE IInv'
  OBVIOUS
<1>1. CASE StopBegins
  <2>1. TypeOK'
    <3>1. /\ running' \in BOOLEAN /\ sock' \in {"none", "closed"}
          /\ stop' \in {"joining", "raised"} /\ open' \subseteq open
      BY <1>1 DEF StopBegins
    <3>2. UNCHANGED <<failed, lock, spc, rpc, amd, attached, held, queued, ended, stale>>
      BY <1>1 DEF StopBegins, sender
    <3> QED BY <3>1, <3>2 DEF IInv, TypeOK
  <2>2. (/\ BlockedByFailure /\ StopIsWhole /\ ClosedForGood
         /\ LockHeld /\ BlockingExplained /\ NoThreadsYet)'
    BY <1>1 DEF StopBegins, IInv, BlockedByFailure, StopIsWhole, ClosedForGood, LockHeld,
       BlockingExplained, NoThreadsYet, sender
  <2>3. (OneStaleFrame /\ HeldIsAttached /\ RoomForTheLast)'
    BY <1>1 DEF StopBegins, IInv, OneStaleFrame, HeldIsAttached, RoomForTheLast, sender
  <2> QED BY <2>1, <2>2, <2>3 DEF IInv
<1>2. CASE Joined
  BY <1>2 DEF Joined, IInv, TypeOK, BlockedByFailure, StopIsWhole, ClosedForGood, OneStaleFrame,
     LockHeld, BlockingExplained, NoThreadsYet, HeldIsAttached, RoomForTheLast, sender, voice
<1> QED BY <1>1, <1>2

\* A new stream leaves the sender with at most the frame it is about to send.
LEMMA SetStreamInvariant ==
  ASSUME NEW u \in Streams, IInv, SetStream(u) PROVE IInv'
<1>1. TypeOK'
  BY SessionAssumption DEF SetStream, IInv, TypeOK, Streams
<1>2. (/\ BlockedByFailure /\ StopIsWhole /\ ClosedForGood
       /\ LockHeld /\ BlockingExplained /\ NoThreadsYet)'
  BY DEF SetStream, IInv, BlockedByFailure, StopIsWhole, ClosedForGood, LockHeld, BlockingExplained,
     NoThreadsYet
<1>3. (OneStaleFrame /\ HeldIsAttached /\ RoomForTheLast)'
  BY DEF SetStream, IInv, OneStaleFrame, HeldIsAttached, RoomForTheLast
<1> QED BY <1>1, <1>2, <1>3 DEF IInv
-----------------------------------------------------------------------------
(* The sender. *)

\* The sender lets the socket block only while it has the lock, or for good when sendto failed.
LEMMA SenderInvariant == IInv /\ Sender => IInv'
<1> SUFFICES ASSUME IInv, Sender PROVE IInv'
  OBVIOUS
<1>1. CASE SenderLooks
  BY <1>1, SessionAssumption DEF SenderLooks, StreamOf, IInv, TypeOK, BlockedByFailure,
     StopIsWhole, ClosedForGood, OneStaleFrame, LockHeld, BlockingExplained, NoThreadsYet,
     HeldIsAttached, RoomForTheLast, voice
<1>2. CASE SenderTakes
  <2>1. queued' \in [Streams -> 0..(MaxQueued + 1)]
    <3>1. CASE UNCHANGED queued
      BY <3>1 DEF IInv, TypeOK
    <3>2. CASE held # 0 /\ queued[held] > 0 /\ queued' = [queued EXCEPT ![held] = @ - 1]
      <4>1. held \in Streams
        BY <3>2, SessionAssumption DEF IInv, TypeOK, Streams
      <4>2. queued[held] - 1 \in 0..(MaxQueued + 1)
        BY <3>2, <4>1, SessionAssumption DEF IInv, TypeOK
      <4> QED BY <3>2, <4>1, <4>2 DEF IInv, TypeOK
    <3> QED BY <1>2, <3>1, <3>2 DEF SenderTakes
  <2>2. TypeOK'
    BY <1>2, <2>1 DEF SenderTakes, IInv, TypeOK
  <2>3. RoomForTheLast'
    BY <1>2, SessionAssumption DEF SenderTakes, IInv, TypeOK, RoomForTheLast
  <2> QED BY <1>2, <2>2, <2>3 DEF SenderTakes, IInv, BlockedByFailure, StopIsWhole, ClosedForGood,
             OneStaleFrame, LockHeld, BlockingExplained, NoThreadsYet, HeldIsAttached
<1>3. CASE SenderLocks
  BY <1>3 DEF SenderLocks, IInv, TypeOK, BlockedByFailure, StopIsWhole, ClosedForGood, OneStaleFrame,
     LockHeld, BlockingExplained, NoThreadsYet, HeldIsAttached, RoomForTheLast, voice
<1>4. CASE SenderSends
  <2>1. stale' \in {0, 1}
    <3>1. stale \in {0, 1}
      BY DEF IInv, TypeOK, OneStaleFrame
    <3>2. CASE held \in {0, attached}
      BY <1>4, <3>1, <3>2 DEF SenderSends
    <3>3. CASE held \notin {0, attached}
      BY <1>4, <3>3 DEF SenderSends, IInv, HeldIsAttached
    <3> QED BY <3>2, <3>3
  <2>2. TypeOK' /\ OneStaleFrame'
    <3>1. stale' \in Nat /\ stale' <= 1
      BY <2>1
    <3>2. UNCHANGED <<running, held, rpc, amd, stop, attached, queued, open, ended>>
      BY <1>4 DEF SenderSends, voice
    <3>3. /\ sock' = "nonblocking" /\ lock' = "free" /\ spc' = "top" /\ failed' = FALSE
      BY <1>4 DEF SenderSends
    <3> QED BY <3>1, <3>2, <3>3 DEF IInv, TypeOK, OneStaleFrame
  <2> QED BY <1>4, <2>2 DEF SenderSends, IInv, BlockedByFailure, StopIsWhole, ClosedForGood, LockHeld,
             BlockingExplained, NoThreadsYet, HeldIsAttached, RoomForTheLast, voice
<1>5. CASE SenderFails
  BY <1>5 DEF SenderFails, AfterError, IInv, TypeOK, BlockedByFailure, StopIsWhole, ClosedForGood,
     OneStaleFrame, LockHeld, BlockingExplained, NoThreadsYet, HeldIsAttached, RoomForTheLast, voice
<1> QED BY <1>1, <1>2, <1>3, <1>4, <1>5 DEF Sender
-----------------------------------------------------------------------------
(* The receiver, the detector and the streams. *)

\* The receiver meets a blocking socket only after such a failure.
LEMMA ReceiverInvariant == IInv /\ (Receiver \/ Datagram \/ AmdEnds) => IInv'
<1> SUFFICES ASSUME IInv, Receiver \/ Datagram \/ AmdEnds PROVE IInv'
  OBVIOUS
<1>1. CASE ReceiverLooks
  BY <1>1 DEF ReceiverLooks, IInv, TypeOK, BlockedByFailure, StopIsWhole, ClosedForGood, OneStaleFrame,
     LockHeld, BlockingExplained, NoThreadsYet, HeldIsAttached, RoomForTheLast, sender, voice
<1>2. CASE ReceiverPolls
  BY <1>2 DEF ReceiverPolls, MayReceive, IInv, TypeOK, BlockedByFailure, StopIsWhole, ClosedForGood,
     OneStaleFrame, LockHeld, BlockingExplained, NoThreadsYet, HeldIsAttached,
     RoomForTheLast, sender, voice
<1>3. CASE ReceiverParses
  BY <1>3 DEF ReceiverParses, IInv, TypeOK, BlockedByFailure, StopIsWhole, ClosedForGood, OneStaleFrame,
     LockHeld, BlockingExplained, NoThreadsYet, HeldIsAttached, RoomForTheLast, sender, voice
<1>4. CASE Datagram
  BY <1>4 DEF Datagram, IInv, TypeOK, BlockedByFailure, StopIsWhole, ClosedForGood, OneStaleFrame,
     LockHeld, BlockingExplained, NoThreadsYet, HeldIsAttached, RoomForTheLast, sender, voice
<1>5. CASE AmdEnds
  BY <1>5 DEF AmdEnds, IInv, TypeOK, BlockedByFailure, StopIsWhole, ClosedForGood, OneStaleFrame,
     LockHeld, BlockingExplained, NoThreadsYet, HeldIsAttached, RoomForTheLast, sender, voice
<1> QED BY <1>1, <1>2, <1>3, <1>4, <1>5 DEF Receiver

\* A stream's thread has room in its queue for the frame it has in hand.
LEMMA StreamInvariant ==
  ASSUME NEW u \in Streams, IInv, Speak(u) \/ StreamDone(u) \/ StreamEnds(u) PROVE IInv'
<1>1. TypeOK'
  <2>1. CASE Speak(u)
    <3>1. queued[u] + 1 \in 0..MaxQueued
      BY <2>1, SessionAssumption DEF Speak, IInv, TypeOK
    <3> QED BY <2>1, <3>1, SessionAssumption DEF Speak, IInv, TypeOK, sender
  <2>2. CASE StreamDone(u)
    BY <2>2 DEF StreamDone, IInv, TypeOK, sender
  <2>3. CASE StreamEnds(u)
    <3>1. \A last \in {0, 1} : queued[u] + last \in 0..(MaxQueued + 1)
      BY <2>3, SessionAssumption DEF StreamEnds, IInv, TypeOK, RoomForTheLast
    <3>2. queued' \in [Streams -> 0..(MaxQueued + 1)]
      BY <2>3, <3>1 DEF StreamEnds, IInv, TypeOK
    <3> QED BY <2>3, <3>2 DEF StreamEnds, IInv, TypeOK, sender
  <2> QED BY <2>1, <2>2, <2>3
<1>2. UNCHANGED <<running, sock, lock, sender, rpc, amd, stop, attached>>
  BY DEF Speak, StreamDone, StreamEnds
<1>3. RoomForTheLast'
  <2>1. CASE Speak(u)
    <3>1. queued[u] + 1 <= MaxQueued
      BY <2>1, SessionAssumption DEF Speak, IInv, TypeOK
    <3> QED BY <2>1, <3>1 DEF Speak, IInv, TypeOK, RoomForTheLast
  <2>2. CASE StreamDone(u)
    BY <2>2 DEF StreamDone, IInv, RoomForTheLast
  <2>3. CASE StreamEnds(u)
    BY <2>3 DEF StreamEnds, IInv, TypeOK, RoomForTheLast
  <2> QED BY <2>1, <2>2, <2>3
<1> QED BY <1>1, <1>2, <1>3 DEF IInv, BlockedByFailure, StopIsWhole, ClosedForGood, OneStaleFrame,
          LockHeld, BlockingExplained, NoThreadsYet, HeldIsAttached, sender
-----------------------------------------------------------------------------
\* Every step keeps the invariant.
LEMMA NextInvariant == IInv /\ [Next]_vars => IInv'
<1> SUFFICES ASSUME IInv, [Next]_vars PROVE IInv'
  OBVIOUS
<1>1. CASE UNCHANGED vars
  BY <1>1 DEF vars, IInv, TypeOK, BlockedByFailure, StopIsWhole, ClosedForGood, OneStaleFrame, LockHeld,
     BlockingExplained, NoThreadsYet, HeldIsAttached, RoomForTheLast
<1>2. CASE Next
  BY <1>2, StartInvariant, StopInvariant, SetStreamInvariant, SenderInvariant,
     ReceiverInvariant, StreamInvariant DEF Next
<1> QED BY <1>1, <1>2

\* The invariant holds in every reachable state.
THEOREM Invariance == Spec => []IInv
BY InitInvariant, NextInvariant, PTL DEF Spec

\* Every variable of the session keeps its type.
THEOREM TypeCorrect == Spec => []TypeOK
<1>1. IInv => TypeOK BY DEF IInv
<1> QED BY Invariance, <1>1, PTL

\* The receiver stays in recv only after an error of the sender.
THEOREM LockSuffices == Spec => []BlockedByFailure
<1>1. IInv => BlockedByFailure BY DEF IInv
<1> QED BY Invariance, <1>1, PTL

\* A _stop that returned ended the session for good, and one that raised did not touch it.
THEOREM StopWholeOrNot == Spec => []StopIsWhole
<1>1. IInv => StopIsWhole BY DEF IInv
<1> QED BY Invariance, <1>1, PTL

\* At most one frame of a replaced stream is sent.
THEOREM ReplacedAtOnce == Spec => []OneStaleFrame
<1>1. IInv => OneStaleFrame BY DEF IInv
<1> QED BY Invariance, <1>1, PTL
=============================================================================
