----------------------------- MODULE RtpSession -----------------------------
(***************************************************************************)
(* The RTP session of one call, RTPClient of                               *)
(* src/mainvicom_srv/CustomPySIP/rtp_handler.py: the sender, the receiver  *)
(* and the answering-machine detector are threads, _start, _stop and       *)
(* set_audio_stream run on the asyncio loop, and each CustomAudioStream    *)
(* has a thread that cuts what the panel speaks into frames.               *)
(*                                                                         *)
(* A step of a thread ends where another thread can tell the difference.   *)
(* The end marks of a stream are not modelled: taking one only closes a    *)
(* stream that is closed.  The session is seen after its creation, when    *)
(* the task that runs _start waits for its turn.                           *)
(***************************************************************************)
EXTENDS Naturals

CONSTANTS
  MaxStreams,  \* bound: streams of the call
  MaxQueued    \* bound: nobody speaks with more frames than this in the queue

ASSUME SessionAssumption == MaxStreams \in Nat /\ MaxQueued \in Nat

Streams == 1..MaxStreams

VARIABLES
  running,   \* is_running
  sock,      \* __rtp_socket: not there yet, open in one of the modes, or closed
  lock,      \* who holds _socket_lock
  spc, held, \* the sender, and the stream it read, 0 for None
  rpc,       \* the receiver
  amd,       \* the answering-machine detector
  stop,      \* how far _stop is; raised: AttributeError, there was no socket
  attached,  \* _audio_stream, 0 for None
  queued,    \* frames in each stream's input_q
  open,      \* streams whose byteFIFO runs
  ended,     \* streams whose recv thread ended
  failed,    \* the last sendto raised
  stale      \* frames of an earlier stream sent since the last set_audio_stream

vars == <<running, sock, lock, spc, held, rpc, amd, stop, attached, queued, open,
          ended, failed, stale>>
sender == <<spc, held, failed, stale>>
voice  == <<attached, queued, open, ended>>

Init ==
  /\ running = FALSE /\ sock = "none" /\ lock = "free"
  /\ spc = "off" /\ held = 0 /\ rpc = "off" /\ amd = "off" /\ stop = "no"
  /\ attached = 0 /\ queued = [u \in Streams |-> 0] /\ open = Streams /\ ended = {}
  /\ failed = FALSE /\ stale = 0
-----------------------------------------------------------------------------
(* The loop: _start, _stop and set_audio_stream. *)

Start ==
  /\ sock = "none"
  /\ running' = TRUE
  /\ \/ sock' = "nonblocking" /\ spc' = "top" /\ rpc' = "top" /\ amd' = "waiting"
     \/ sock' = "blocking" /\ UNCHANGED <<spc, rpc, amd>>   \* bind raises: no threads
  /\ UNCHANGED <<lock, held, stop, voice, failed, stale>>

\* Slips: the threads are joined before they are told; a session without a socket is
\* taken for one that needs no closing.
StopBeginsSlip ==
  /\ stop = "no" /\ stop' = "joining"
  /\ UNCHANGED <<running, sock, lock, sender, rpc, amd, voice>>
StopBeginsEarlySlip ==
  /\ stop = "no" /\ stop' = "joining"
  /\ running' = FALSE /\ sock' = (IF sock = "none" THEN "none" ELSE "closed")
  /\ open' = open \ {attached}
  /\ UNCHANGED <<lock, sender, rpc, amd, attached, queued, ended>>

\* The threads are told, the socket is closed under them, the stream ends.
StopBegins ==
  /\ stop = "no"
  /\ running' = FALSE
  /\ IF sock = "none"
     THEN stop' = "raised" /\ UNCHANGED <<sock, open>>
     ELSE stop' = "joining" /\ sock' = "closed" /\ open' = open \ {attached}
  /\ UNCHANGED <<lock, sender, rpc, amd, attached, queued, ended>>

Joined ==
  /\ stop = "joining" /\ {spc, rpc, amd} \subseteq {"off", "ended"}
  /\ stop' = "done"
  /\ UNCHANGED <<running, sock, lock, sender, rpc, amd, voice>>

\* The send_handler waits for one stream to finish before it sets the next.
SetStream(u) ==
  /\ u = attached + 1 /\ (attached # 0 => attached \in ended)
  /\ attached' = u /\ stale' = 0
  /\ open' = open \ {attached}
  /\ UNCHANGED <<running, sock, lock, spc, held, rpc, amd, stop, queued, ended, failed>>
-----------------------------------------------------------------------------
(* The sender. *)

\* Slip: a stream is finished before the next is looked for.
StreamOfSlip == IF held # 0 /\ queued[held] > 0 THEN held ELSE attached
StreamOf == attached

SenderLooks ==
  /\ spc = "top"
  /\ IF sock = "closed" THEN spc' = "ended" /\ UNCHANGED held
                        ELSE spc' = "take" /\ held' = StreamOf
  /\ UNCHANGED <<running, sock, lock, rpc, amd, stop, voice, failed, stale>>

\* A frame of the stream, silence without a stream, nothing while the stream has none.
SenderTakes ==
  /\ spc = "take"
  /\ \/ ~running /\ spc' = "ended" /\ UNCHANGED queued
     \/ running /\ held = 0 /\ spc' = "lock" /\ UNCHANGED queued
     \/ running /\ held # 0 /\ queued[held] = 0 /\ spc' = "top" /\ UNCHANGED queued
     \/ /\ running /\ held # 0 /\ queued[held] > 0 /\ spc' = "lock"
        /\ queued' = [queued EXCEPT ![held] = @ - 1]
  /\ UNCHANGED <<running, sock, lock, held, rpc, amd, stop, attached, open, ended,
                 failed, stale>>

\* setblocking raises on a closed socket, and the lock is let go.
SenderLocks ==
  /\ spc = "lock" /\ lock = "free"
  /\ IF sock = "closed" THEN spc' = "top" /\ UNCHANGED <<sock, lock>>
                        ELSE spc' = "send" /\ sock' = "blocking" /\ lock' = "sender"
  /\ UNCHANGED <<running, held, rpc, amd, stop, voice, failed, stale>>

SenderSends ==
  /\ spc = "send" /\ sock = "blocking"
  /\ sock' = "nonblocking" /\ lock' = "free" /\ spc' = "top" /\ failed' = FALSE
  /\ stale' = IF held \in {0, attached} THEN stale ELSE stale + 1
  /\ UNCHANGED <<running, held, rpc, amd, stop, voice>>

\* Slip: the error ends the thread.
AfterErrorSlip == "ended"
AfterError == "top"

\* sendto raises: the lock is let go and the socket keeps its mode.
SenderFails ==
  /\ spc = "send"
  /\ lock' = "free" /\ spc' = AfterError /\ failed' = TRUE
  /\ UNCHANGED <<running, sock, held, rpc, amd, stop, voice, stale>>
-----------------------------------------------------------------------------
(* The receiver and the detector. *)

ReceiverLooks ==
  /\ rpc = "top"
  /\ rpc' = IF running /\ sock # "closed" THEN "lock" ELSE "ended"
  /\ UNCHANGED <<running, sock, lock, sender, amd, stop, voice>>

\* Slip: recv is called without the lock.
MayReceiveSlip == lock # "receiver"
MayReceive == lock = "free"

\* A datagram, or nothing: EWOULDBLOCK, EBADF, or the thread stays in recv with the lock.
ReceiverPolls ==
  /\ rpc = "lock" /\ MayReceive
  /\ \/ sock # "closed" /\ rpc' = "parse" /\ UNCHANGED lock
     \/ sock # "blocking" /\ rpc' = "top" /\ UNCHANGED lock
     \/ sock = "blocking" /\ rpc' = "blocked" /\ lock' = "receiver"
  /\ UNCHANGED <<running, sock, sender, amd, stop, voice>>

\* close() does not wake a thread that is in recv, only a datagram does.
Datagram ==
  /\ rpc = "blocked"
  /\ rpc' = "parse" /\ lock' = "free"
  /\ UNCHANGED <<running, sock, sender, amd, stop, voice>>

\* A packet that completes a frame starts the detector; one that is no RTP ends the thread.
ReceiverParses ==
  /\ rpc = "parse"
  /\ \/ rpc' = "top" /\ UNCHANGED amd
     \/ rpc' = "top" /\ amd = "waiting" /\ amd' = "started"
     \/ rpc' = "ended" /\ UNCHANGED amd
  /\ UNCHANGED <<running, sock, lock, sender, stop, voice>>

\* A verdict, 100 ms without a frame, or the None of _stop.
AmdEnds ==
  /\ amd = "started" /\ amd' = "ended"
  /\ UNCHANGED <<running, sock, lock, sender, rpc, stop, voice>>
-----------------------------------------------------------------------------
(* The streams. *)

Speak(u) ==
  /\ u \in open /\ queued[u] < MaxQueued
  /\ queued' = [queued EXCEPT ![u] = @ + 1]
  /\ UNCHANGED <<running, sock, lock, sender, rpc, amd, stop, attached, open, ended>>

\* The interface or the send_handler calls stream_done.
StreamDone(u) ==
  /\ u \in open /\ open' = open \ {u}
  /\ UNCHANGED <<running, sock, lock, sender, rpc, amd, stop, attached, queued, ended>>

\* Slip: a pause of the panel ends the thread.
StreamEndsSlip(u) ==
  /\ u \in Streams \ ended /\ queued[u] = 0 /\ ended' = ended \cup {u}
  /\ UNCHANGED <<running, sock, lock, sender, rpc, amd, stop, attached, queued, open>>

\* The thread may have had a frame in hand.
StreamEnds(u) ==
  /\ u \in Streams \ (open \cup ended) /\ ended' = ended \cup {u}
  /\ \E last \in {0, 1} : queued' = [queued EXCEPT ![u] = @ + last]
  /\ UNCHANGED <<running, sock, lock, sender, rpc, amd, stop, attached, open>>
-----------------------------------------------------------------------------
Sender   == SenderLooks \/ SenderTakes \/ SenderLocks \/ SenderSends \/ SenderFails
Receiver == ReceiverLooks \/ ReceiverPolls \/ ReceiverParses

Next ==
  \/ Start \/ StopBegins \/ Joined
  \/ Sender \/ Receiver \/ Datagram \/ AmdEnds
  \/ \E u \in Streams : SetStream(u) \/ Speak(u) \/ StreamDone(u) \/ StreamEnds(u)

Spec == Init /\ [][Next]_vars

\* The loop turns and the threads run; both threads sleep without the lock, so neither
\* is kept from it for ever by the other.  Nobody has to send us anything.
FairSpec ==
  /\ Spec
  /\ WF_vars(Start) /\ WF_vars(Joined) /\ WF_vars(AmdEnds)
  /\ WF_vars(Sender) /\ WF_vars(Receiver) /\ SF_vars(SenderLocks) /\ SF_vars(ReceiverPolls)
  /\ \A u \in Streams : WF_vars(StreamEnds(u))
-----------------------------------------------------------------------------
(* Properties. *)

TypeOK ==
  /\ running \in BOOLEAN /\ failed \in BOOLEAN
  /\ sock \in {"none", "nonblocking", "blocking", "closed"}
  /\ lock \in {"free", "sender", "receiver"}
  /\ spc \in {"off", "top", "take", "lock", "send", "ended"}
  /\ rpc \in {"off", "top", "lock", "blocked", "parse", "ended"}
  /\ amd \in {"off", "waiting", "started", "ended"}
  /\ stop \in {"no", "joining", "done", "raised"}
  /\ attached \in 0..MaxStreams /\ held \in 0..attached
  /\ queued \in [Streams -> 0..(MaxQueued + 1)]
  /\ open \subseteq Streams /\ ended \subseteq Streams \ open
  /\ stale \in Nat

\* The receiver polls although the sender makes the socket they share block for the time
\* of a sendto: it stays in recv, with the lock, only when the last sendto raised.
BlockedByFailure == rpc = "blocked" => failed

\* _stop works wholly or not at all, wherever it falls among the steps of _start and of the
\* threads.  One that returned leaves no thread, the lock free and the socket closed, and
\* nothing that is still to run brings them back; one that raised leaves a session that is
\* yet to start, or that runs with an open socket as if nobody had stopped it.  DomruCall
\* takes every session that was hung up for one of these two.
StopIsWhole ==
  /\ stop = "done" => /\ ~running /\ sock = "closed" /\ lock = "free"
                      /\ {spc, rpc, amd} \subseteq {"off", "ended"}
  /\ stop = "raised" => \/ sock = "none" /\ {spc, rpc, amd} = {"off"}
                        \/ running /\ sock # "closed"

\* When the loop replaces the stream under the sender, one frame of the earlier stream
\* at most is sent after it.
OneStaleFrame == stale <= 1

\* The two things a session may wait for without end: a voice that was never heard, and
\* a datagram.
Unheard == amd = "waiting"
Deaf == rpc = "blocked"

\* What is spoken into the attached stream is tried to be sent, unless the stream is
\* replaced, the session is stopped, or the receiver keeps the lock.
SpokenIsSent ==
  \A u \in Streams :
    attached = u /\ queued[u] > 0 /\ spc # "off" ~>
      (spc = "send" /\ held = u) \/ attached # u \/ stop # "no" \/ []Deaf

\* A session that is told to stop ends, unless the detector still waits for the visitor's
\* voice, or the receiver for a datagram.
ThreadsEnd == stop = "joining" ~> stop = "done" \/ []Unheard \/ []Deaf

\* The comment before the joins, "finally wait for threads to close".
ThreadsClose == stop = "joining" ~> stop = "done"
=============================================================================
