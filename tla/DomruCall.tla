----------------------------- MODULE DomruCall -----------------------------
(***************************************************************************)
(* Incoming calls: the interface src/mainvicom_srv/mainvicom_domru.py on   *)
(* top of the SIP library src/mainvicom_srv/CustomPySIP.                   *)
(*                                                                         *)
(* Everything runs on one asyncio loop, so an action is what a coroutine   *)
(* does between two suspensions.  The coroutines are the receive task (one *)
(* SIP message at a time), one delayed task and one send_handler per       *)
(* SipCall, and the connection handlers that call the interface.  Sending  *)
(* a SIP message first loops it through every handler of the SipCore; it   *)
(* suspends (SipClient.message_handler sleeps 1 ms) when its To names us:  *)
(* our answers to an INVITE and our own BYE do, the 200 to a BYE or a      *)
(* CANCEL does not.                                                        *)
(***************************************************************************)
EXTENDS Integers, Sequences

CONSTANTS
  MaxCalls,    \* bound: SipCall objects ever created
  Ids,         \* Call-IDs the network uses
  Callers,     \* coroutines that call the interface: the connection handlers
  MaxClients,  \* bound: SipClients ever created by register()
  MaxUplinks   \* bound: CustomAudioStreams ever created by accept_call()

ASSUME DomruAssumption ==
  /\ MaxCalls \in Nat /\ MaxUplinks \in Nat
  /\ MaxClients \in Nat \ {0}
  /\ 0 \notin Ids

Calls == 1..MaxCalls
Uplinks == 1..MaxUplinks

VARIABLES
  call,        \* the SipCall objects, in the order of their creation
  made,        \* how many there are
  current,     \* current_call, 0 for -1
  status,      \* sip_status
  uplink,      \* current_uplink, 0 for -1
  rcv,         \* the receive task; "dead" after an exception: nothing is received any more
  api,         \* the interface call each caller is suspended in
  clients,     \* SipClients whose message_handler is on the SipCore
  registered,  \* those whose registered event is set
  listening,   \* how often handle_incoming_call is registered on each SipClient
  audio,       \* each call's CallHandler and the stream of its RTP session
  streams,     \* CustomAudioStreams created
  open,        \* those whose byteFIFO is running
  finished     \* those whose recv thread ended and set stream_done_future

vars == <<call, made, current, status, uplink, rcv, api, clients, registered,
          listening, audio, streams, open, finished>>
slot    == <<current, status, uplink>>
account == <<clients, registered, listening>>
sound   == <<streams, open, finished>>

\* A SipCall: task is its delayed task, response its call_response_future, rtp its
\* session ("created" until the task that runs _start had its turn), stop how far its
\* one effective stop() got ("raised": it was left by an exception).
CallType ==
  [id: Ids \cup {0},
   state: {"INITIALIZING", "RINGING", "DIALING", "ANSWERED", "ENDED", "BUSY"},
   dialogue: {"PREDIALOG", "CONFIRMED", "TERMINATED"},
   response: {"none", "pending", "ACCEPT", "REJECT", "BUSY", "cancelled", "timeout"},
   task: {"none", "waiting", "accepting", "refusing", "done"},
   hooked: BOOLEAN,   \* has custom_on_call_answered and custom_on_call_hanged
   rtp: {"none", "created", "running", "closing", "stopped"},
   stray: BOOLEAN,    \* an earlier session of the call was replaced, and nobody has it
   stop: {"no", "bye", "join", "done", "raised"},
   on: 0..MaxCalls,   \* the call whose stop() its looped-back BYE is in, 0 for none
   behind: 0..MaxClients,  \* the SipClients whose handlers come before the call's
   past: 0..MaxClients]    \* those whose handlers its 200 has passed

NoCall == [id |-> 0, state |-> "INITIALIZING", dialogue |-> "PREDIALOG",
           response |-> "none", task |-> "none", hooked |-> FALSE,
           rtp |-> "none", stray |-> FALSE, stop |-> "no", on |-> 0,
           behind |-> 0, past |-> 0]

Begun   == {"created", "running"}       \* a session that was not closed
HungUp  == {"join", "done", "raised"}    \* a call whose callbacks of stop() have run

AudioType ==
  [handler: {"off", "loop", "waiting", "ended"}, queue: Seq(Uplinks),
   held: Uplinks \cup {0}, previous: Uplinks \cup {0}, stream: Uplinks \cup {0}]

NoAudio == [handler |-> "off", queue |-> <<>>, held |-> 0, previous |-> 0, stream |-> 0]

Idle == [at |-> "idle", id |-> 0, next |-> 0, on |-> 0, heard |-> 0, behind |-> 0, past |-> 0]
Message(at, id) == [Idle EXCEPT !.at = at, !.id = id, !.next = 1]
Free == [at |-> "idle", call |-> 0]

\* After init_main: one SipClient, registered or not.
Init ==
  /\ call = [c \in Calls |-> NoCall] /\ made = 0
  /\ current = 0 /\ uplink = 0
  /\ rcv = Idle
  /\ api = [h \in Callers |-> Free]
  /\ clients = 1 /\ listening = [k \in 1..MaxClients |-> IF k = 1 THEN 1 ELSE 0]
  /\ \/ registered = {1} /\ status = 0
     \/ registered = {}  /\ status = -1
  /\ audio = [c \in Calls |-> NoAudio]
  /\ streams = 0 /\ open = {} /\ finished = {}
-----------------------------------------------------------------------------
(* SipCall.stop, shared by everybody who ends a call. *)

\* The SipCalls that share c's Call-ID hear what c sends.
Same(c) == {d \in 1..made : call[d].id = call[c].id}

\* A BYE and its 200 went through the handlers of the calls in S.
ByeHeard(S) ==
  [d \in Calls |-> IF d \in S THEN [call[d] EXCEPT !.state = "ENDED",
                                                    !.dialogue = "TERMINATED"]
                              ELSE call[d]]

\* Slip: any call's hangup frees the slot.
ClearsSlip(calls, c) == current # 0

\* custom_on_call_hanged is registered only on calls that took the slot.
Clears(calls, c) == calls[c].hooked /\ current # 0

\* Slips: the status, or the stream, survives the call.
FreesSlotUplinkSlip == current' = 0 /\ status' = 0 /\ UNCHANGED uplink
FreesSlotSlip == current' = 0 /\ uplink' = 0 /\ UNCHANGED status

FreesSlot == current' = 0 /\ uplink' = 0 /\ status' = 0

\* The session of the call is told to stop and its threads are joined; one whose _start
\* had no turn yet has no socket to close: _stop raises, and nobody stops it later.
LetGo(c) ==
  CASE c.rtp = "running" -> [c EXCEPT !.stop = "join", !.rtp = "closing"]
    [] c.rtp = "created" -> [c EXCEPT !.stop = "raised"]
    [] OTHER -> [c EXCEPT !.stop = "done"]

\* stop() from the hanged_up callbacks on, in the call table calls.
HangUp(calls, c) ==
  /\ call' = [calls EXCEPT ![c] = LetGo(calls[c])]
  /\ IF Clears(calls, c) THEN FreesSlot ELSE UNCHANGED slot
  /\ open' = open \ ((IF Clears(calls, c) THEN {uplink} ELSE {})
                     \cup (IF calls[c].rtp = "running" THEN {audio[c].stream} ELSE {}))

\* stop(): nothing the second time; in a confirmed dialogue the BYE comes first.
Stop(calls, c) ==
  CASE calls[c].stop # "no" -> call' = calls /\ UNCHANGED <<slot, open>>
    [] calls[c].stop = "no" /\ calls[c].dialogue = "CONFIRMED" ->
         call' = [calls EXCEPT ![c].stop = "bye"] /\ UNCHANGED <<slot, open>>
    [] OTHER -> HangUp(calls, c)

\* Our BYE, looped back, is taken for the peer's by every call of its Call-ID: c goes
\* on once they have stopped, one after the other.
ByeGoesOn(c) ==
  /\ call[c].stop = "bye"
  /\ call[c].on # 0 => call[call[c].on].stop = "done"

ByeStopsAnother(c, d) ==
  /\ ByeGoesOn(c)
  /\ d \in Same(c) /\ call[d].stop = "no"
  /\ HangUp([ByeHeard(Same(c)) EXCEPT ![c].on = d], d)
  /\ UNCHANGED <<made, rcv, api, account, audio, streams, finished>>

ByeSent(c) ==
  /\ ByeGoesOn(c)
  /\ \A d \in Same(c) : call[d].stop # "no"
  /\ HangUp([ByeHeard(Same(c)) EXCEPT ![c].on = 0], c)
  /\ UNCHANGED <<made, rcv, api, account, audio, streams, finished>>

\* What the stop() of another call raises leaves the stop() of c too.
ByeRaises(c) ==
  /\ call[c].stop = "bye" /\ call[c].on # 0 /\ call[call[c].on].stop = "raised"
  /\ call' = [call EXCEPT ![c].stop = "raised"]
  /\ UNCHANGED <<made, slot, rcv, api, account, audio, sound>>

SessionJoined(c) ==
  /\ call[c].stop = "join"
  /\ call' = [call EXCEPT ![c] = [@ EXCEPT !.stop = "done", !.rtp = "stopped"]]
  /\ UNCHANGED <<made, slot, rcv, api, account, audio, sound>>

\* _start has its turn, also after _stop raised: the session runs.
SessionStarts(c) ==
  /\ call[c].rtp = "created"
  /\ call' = [call EXCEPT ![c].rtp = "running"]
  /\ UNCHANGED <<made, slot, rcv, api, account, audio, sound>>
-----------------------------------------------------------------------------
(* The delayed task of a call: what becomes of its INVITE. *)

\* Slip: a timeout is only logged.
OutcomeSlip(response) ==
  CASE response = "ACCEPT" -> "accepting"
    [] response \in {"cancelled", "timeout"} -> "done"
    [] OTHER -> "refusing"

\* Slip: whatever was answered is taken for ACCEPT.
OutcomeAcceptSlip(response) == IF response = "cancelled" THEN "done" ELSE "accepting"

\* What the task does about a response: CANCEL's -1 is the only one without a reply.
Outcome(response) ==
  CASE response = "ACCEPT" -> "accepting"
    [] response = "cancelled" -> "done"
    [] OTHER -> "refusing"

\* wait_for gives up after 30 s and cancels the future.
AnswerTimeout(c) ==
  /\ call[c].task = "waiting" /\ call[c].response = "pending"
  /\ call' = [call EXCEPT ![c] = [@ EXCEPT !.response = "timeout", !.task = Outcome("timeout")]]
  /\ UNCHANGED <<made, slot, rcv, api, account, audio, sound>>

\* The future is set: the reply is being sent.
Respond(c) ==
  /\ call[c].task = "waiting" /\ call[c].response \notin {"none", "pending"}
  /\ call' = [call EXCEPT ![c].task = Outcome(call[c].response)]
  /\ UNCHANGED <<made, slot, rcv, api, account, audio, sound>>

\* c's 200 to the INVITE passes the next SipClient's handler, which sleeps, and then
\* those of the calls that were made before the SipClient after it.
Confirmed(c) ==
  [d \in Calls |-> IF /\ d \in Same(c) /\ call[d].dialogue = "PREDIALOG"
                      /\ call[d].behind = call[c].past + 1
                   THEN [call[d] EXCEPT !.dialogue = "CONFIRMED"] ELSE call[d]]

OkPasses(c) ==
  /\ call[c].task = "accepting" /\ call[c].past + 1 < clients
  /\ call' = [Confirmed(c) EXCEPT ![c].past = @ + 1]
  /\ UNCHANGED <<made, slot, rcv, api, account, audio, sound>>

OkSent(c) == call[c].task = "accepting" /\ call[c].past + 1 = clients

\* Slip: the session goes to the call that was answered.
StartsForSlip(c) == IF call[c].hooked /\ current # 0 THEN c ELSE 0

\* The callback makes a session for the current call, whichever that is.
StartsFor(c) == IF call[c].hooked THEN current ELSE 0

\* update_call_state(ANSWERED): a session that the current call had is replaced, and
\* with it the stream attached there; the send_handler starts.
Answered(c) ==
  /\ OkSent(c)
  /\ LET answered == [Confirmed(c) EXCEPT ![c].task = "done", ![c].state = "ANSWERED"]
         handled  == [audio EXCEPT ![c].handler = "loop"]
         d == StartsFor(c)
     IN IF d = 0 THEN call' = answered /\ audio' = handled
        ELSE /\ call' = [answered EXCEPT ![d].rtp = "created",
                                         ![d].stray = @ \/ call[d].rtp # "none"]
             /\ audio' = [handled EXCEPT ![d].stream = 0]
  /\ UNCHANGED <<made, slot, rcv, api, account, sound>>

\* No codec in common: RTPClient raises and the task dies in the callback.
AnsweredWithoutCodec(c) ==
  /\ OkSent(c) /\ call[c].hooked /\ current # 0
  /\ call' = [Confirmed(c) EXCEPT ![c].task = "done"]
  /\ UNCHANGED <<made, slot, rcv, api, account, audio, sound>>

\* 603 or 486 sent.
Refused(c) ==
  /\ call[c].task = "refusing"
  /\ LET over == IF call[c].response = "REJECT" THEN "ENDED" ELSE "BUSY"
     IN Stop([call EXCEPT ![c] = [@ EXCEPT !.task = "done", !.state = over]], c)
  /\ UNCHANGED <<made, rcv, api, account, audio, streams, finished>>
-----------------------------------------------------------------------------
(* The receive task. *)

\* Room for a SipCall of each of n SipClients that the INVITE has yet to reach.
Fits(n) == rcv.at \in {"invite", "created", "trying"} => made + n + 1 - rcv.next <= MaxCalls

\* An INVITE, perhaps a retransmission: every SipClient makes a SipCall of it.
Invite(id) ==
  /\ rcv = Idle /\ registered # {}
  /\ made + clients <= MaxCalls
  /\ rcv' = Message("invite", id)
  /\ UNCHANGED <<call, made, slot, api, account, audio, sound>>

\* The next SipClient makes its SipCall, which gets the handle_incoming_calls registered
\* there so far.
Creates ==
  /\ rcv.at = "invite" /\ rcv.next <= clients
  /\ rcv' = [rcv EXCEPT !.at = "created", !.heard = listening[rcv.next],
                        !.behind = clients, !.past = 0]
  /\ UNCHANGED <<call, made, slot, api, account, audio, sound>>

\* The 100 Trying loops back, past one SipClient after the other: an earlier call of that
\* Call-ID goes to DIALING, from any state but RINGING.
Trying ==
  /\ rcv.at = "created"
  /\ call' = [c \in Calls |->
                IF /\ call[c].id = rcv.id /\ call[c].state # "RINGING"
                   /\ call[c].behind = rcv.past + 1
                THEN [call[c] EXCEPT !.state = "DIALING"] ELSE call[c]]
  /\ rcv' = [rcv EXCEPT !.at = IF rcv.past + 1 < clients THEN "created" ELSE "trying",
                        !.past = @ + 1]
  /\ UNCHANGED <<made, slot, api, account, audio, sound>>

\* Slip: the slot is not looked at.
TakesSlotSlip == TRUE
TakesSlot == current = 0

\* The new call rings.  The first handle_incoming_call takes the slot for it or marks
\* it busy; a second one registered on the same SipClient marks it busy.
Ring ==
  /\ rcv.at = "trying"
  /\ made' = made + 1
  /\ LET takes == rcv.heard > 0 /\ TakesSlot
     IN /\ call' = [call EXCEPT ![made'] =
             [NoCall EXCEPT !.id = rcv.id, !.state = "RINGING", !.task = "waiting",
                            !.response = IF rcv.heard = 0 \/ (takes /\ rcv.heard = 1)
                                         THEN "pending" ELSE "BUSY",
                            !.hooked = takes, !.behind = rcv.behind]]
        /\ IF takes THEN current' = made' /\ status' = 1
                    ELSE UNCHANGED <<current, status>>
  /\ rcv' = [Message("invite", rcv.id) EXCEPT !.next = rcv.next + 1]
  /\ UNCHANGED <<uplink, api, account, audio, sound>>

\* A CANCEL is for every call that still waits for its answer, whatever its Call-ID.
Cancel ==
  /\ rcv = Idle /\ made > 0
  /\ rcv' = Message("cancel", 0)
  /\ UNCHANGED <<call, made, slot, api, account, audio, sound>>

\* The peer hangs up a call that it began.
Bye(id) ==
  /\ rcv = Idle
  /\ \E c \in 1..made : call[c].id = id
  /\ rcv' = Message("bye", id)
  /\ UNCHANGED <<call, made, slot, api, account, audio, sound>>

\* Those a BYE or a CANCEL is meant for, and the call table once its 200 has been heard.
Concerns(c) == IF rcv.at = "bye" THEN call[c].id = rcv.id ELSE call[c].response = "pending"
AfterOk(c) ==
  IF rcv.at = "bye" THEN ByeHeard(Same(c)) ELSE [call EXCEPT ![c].response = "cancelled"]

\* It visits them one after the other, each waiting for the one before to stop.
Visits(c) ==
  /\ rcv.at \in {"bye", "cancel"}
  /\ c \in rcv.next..made /\ Concerns(c)
  /\ \A d \in rcv.next..(c - 1) : ~Concerns(d)
  /\ rcv.on # 0 => call[rcv.on].stop = "done"

Reaches(c) ==
  /\ Visits(c)
  /\ Stop(AfterOk(c), c)
  /\ rcv' = [rcv EXCEPT !.next = c + 1, !.on = IF call[c].stop = "no" THEN c ELSE 0]
  /\ UNCHANGED <<made, api, account, audio, streams, finished>>

\* What stop() raises ends the receive task, and no other is ever started.
ReceiverDies ==
  /\ rcv.at \in {"bye", "cancel"} /\ rcv.on # 0 /\ call[rcv.on].stop = "raised"
  /\ rcv' = [Idle EXCEPT !.at = "dead"]
  /\ UNCHANGED <<call, made, slot, api, account, audio, sound>>

MessageDone ==
  /\ \/ rcv.at = "invite" /\ rcv.next > clients
     \/ /\ rcv.at \in {"bye", "cancel"} /\ \A c \in rcv.next..made : ~Concerns(c)
        /\ rcv.on # 0 => call[rcv.on].stop = "done"
  /\ rcv' = Idle
  /\ UNCHANGED <<call, made, slot, api, account, audio, sound>>
-----------------------------------------------------------------------------
(* The interface, called by the connection handlers. *)

\* stop_calls hangs up a call that has a session; a ringing one is left alone.
StopCalls(h) ==
  /\ api[h] = Free
  /\ status = 1 /\ current # 0 /\ call[current].rtp # "none"
  /\ IF call[current].stop = "no"
     THEN /\ Stop(call, current)
          /\ api' = [api EXCEPT ![h] = [at |-> "hangup", call |-> current]]
     ELSE status' = 0 /\ UNCHANGED <<call, current, uplink, open, api>>
  /\ UNCHANGED <<made, rcv, account, audio, streams, finished>>

HangupReturns(h) ==
  /\ api[h].at = "hangup" /\ call[api[h].call].stop = "done"
  /\ status' = 0
  /\ api' = [api EXCEPT ![h] = Free]
  /\ UNCHANGED <<call, made, current, uplink, rcv, account, audio, sound>>

\* The exception ends the connection handler, and another may call in its place.
HangupRaises(h) ==
  /\ api[h].at = "hangup" /\ call[api[h].call].stop = "raised"
  /\ api' = [api EXCEPT ![h] = Free]
  /\ UNCHANGED <<call, made, slot, rcv, account, audio, sound>>

\* Slip: the answer is taken whatever the future holds.
AnswerableSlip(c) == call[c].state = "RINGING"

Answerable(c) == call[c].state = "RINGING" /\ call[c].response = "pending"

AcceptCall(h) ==
  /\ api[h] = Free
  /\ status = 1 /\ current # 0
  /\ streams < MaxUplinks
  /\ call' = IF Answerable(current)
             THEN [call EXCEPT ![current].response = "ACCEPT"] ELSE call
  /\ streams' = streams + 1 /\ open' = open \cup {streams'} /\ uplink' = streams'
  /\ audio' = [audio EXCEPT ![current].queue = Append(@, streams')]
  /\ UNCHANGED <<made, current, status, rcv, api, account, finished>>

DeclineCall(h) ==
  /\ api[h] = Free
  /\ status = 1 /\ current # 0
  /\ call' = IF Answerable(current)
             THEN [call EXCEPT ![current].response = "REJECT"] ELSE call
  /\ status' = 0
  /\ UNCHANGED <<made, current, uplink, rcv, api, account, audio, sound>>

\* is_call_requested while the newest SipClient is not registered: another one.
Register(h) ==
  /\ api[h] = Free
  /\ clients \notin registered
  /\ clients < MaxClients /\ Fits(clients + 1)
  /\ clients' = clients + 1
  /\ api' = [api EXCEPT ![h] = [at |-> "register", call |-> 0]]
  /\ UNCHANGED <<call, made, slot, rcv, registered, listening, audio, sound>>

\* The registered event is set, or 4 s are over; handle_incoming_call goes to the
\* newest SipClient, which may be another caller's.
RegisterReturns(h) ==
  /\ api[h].at = "register"
  /\ status' = IF clients \in registered THEN 0 ELSE -1
  /\ listening' = [listening EXCEPT ![clients] = @ + 1]
  /\ api' = [api EXCEPT ![h] = Free]
  /\ UNCHANGED <<call, made, current, uplink, rcv, clients, registered, audio, sound>>

\* A SipClient got its socket and sent REGISTER.
ClientUp(k) ==
  /\ k \in 1..clients /\ k \notin registered
  /\ registered' = registered \cup {k}
  /\ UNCHANGED <<call, made, slot, rcv, api, clients, listening, audio, sound>>
-----------------------------------------------------------------------------
(* CallHandler.send_handler, and the recv threads of the streams. *)

Attached(a, u) == [a EXCEPT !.handler = "loop", !.stream = u, !.previous = u, !.held = 0]

\* The next stream of the queue; it waits for the one before it to finish.
TakeStream(c) ==
  /\ audio[c].handler = "loop" /\ audio[c].queue # <<>>
  /\ call[c].state = "ANSWERED" /\ call[c].rtp # "none"
  /\ LET u == Head(audio[c].queue)
         a == [audio[c] EXCEPT !.queue = Tail(@)]
     IN IF audio[c].previous = 0
        THEN audio' = [audio EXCEPT ![c] = Attached(a, u)]
        ELSE audio' = [audio EXCEPT ![c] = [a EXCEPT !.handler = "waiting", !.held = u]]
  /\ UNCHANGED <<call, made, slot, rcv, api, account, sound>>

AttachStream(c) ==
  /\ audio[c].handler = "waiting" /\ audio[c].previous \in finished
  /\ audio' = [audio EXCEPT ![c] = Attached(@, audio[c].held)]
  /\ open' = open \ {audio[c].stream}
  /\ UNCHANGED <<call, made, slot, rcv, api, account, streams, finished>>

\* Slip: a call that ended busy is not looked for.
OverSlip(c) == call[c].state = "BUSY"
Over(c) == call[c].state \in {"ENDED", "BUSY"}

HandlerEnds(c) ==
  /\ audio[c].handler = "loop" /\ Over(c)
  /\ audio' = [audio EXCEPT ![c].handler = "ended", ![c].queue = <<>>]
  /\ open' = open \ ({audio[c].queue[i] : i \in DOMAIN audio[c].queue}
                     \cup {audio[c].previous})
  /\ UNCHANGED <<call, made, slot, rcv, api, account, streams, finished>>

\* Slip: a pause of the panel ends the thread.
StreamThreadEndsSlip(u) ==
  /\ u \in 1..streams /\ u \notin finished
  /\ finished' = finished \cup {u}
  /\ UNCHANGED <<call, made, slot, rcv, api, account, audio, streams, open>>

StreamThreadEnds(u) ==
  /\ u \in 1..streams /\ u \notin open /\ u \notin finished
  /\ finished' = finished \cup {u}
  /\ UNCHANGED <<call, made, slot, rcv, api, account, audio, streams, open>>
-----------------------------------------------------------------------------
Stopping(c) ==
  \/ (\E d \in Calls : ByeStopsAnother(c, d)) \/ ByeSent(c) \/ ByeRaises(c)
  \/ SessionJoined(c) \/ SessionStarts(c)

Delayed(c) ==
  \/ AnswerTimeout(c) \/ Respond(c) \/ OkPasses(c) \/ Answered(c)
  \/ AnsweredWithoutCodec(c) \/ Refused(c)

Receiving ==
  \/ Creates \/ Trying \/ Ring \/ ReceiverDies \/ MessageDone
  \/ \E c \in Calls : Reaches(c)
Network   == Cancel \/ \E id \in Ids : Invite(id) \/ Bye(id)

Requests(h) == StopCalls(h) \/ AcceptCall(h) \/ DeclineCall(h) \/ Register(h)
Returns(h)  == HangupReturns(h) \/ HangupRaises(h) \/ RegisterReturns(h)

Sending(c) == TakeStream(c) \/ AttachStream(c) \/ HandlerEnds(c)

Next ==
  \/ Receiving \/ Network
  \/ \E c \in Calls : Stopping(c) \/ Delayed(c) \/ Sending(c)
  \/ \E h \in Callers : Requests(h) \/ Returns(h)
  \/ \E u \in Uplinks : StreamThreadEnds(u)
  \/ \E k \in 1..MaxClients : ClientUp(k)

Spec == Init /\ [][Next]_vars

\* The loop runs every ready coroutine, timers expire, threads run.  SessionJoined is
\* left out: the threads of a session may never end (RtpSession).
FairSpec ==
  /\ Spec
  /\ WF_vars(Receiving)
  /\ \A c \in Calls : /\ WF_vars((\E d \in Calls : ByeStopsAnother(c, d)) \/ ByeSent(c))
                      /\ WF_vars(ByeRaises(c)) /\ WF_vars(SessionStarts(c))
                      /\ WF_vars(Delayed(c)) /\ WF_vars(Sending(c))
  /\ \A h \in Callers : WF_vars(Returns(h))
  /\ \A u \in Uplinks : WF_vars(StreamThreadEnds(u))
-----------------------------------------------------------------------------
(* Properties. *)

TypeOK ==
  /\ call \in [Calls -> CallType] /\ made \in 0..MaxCalls
  /\ current \in 0..made /\ status \in {-1, 0, 1}
  /\ uplink \in 0..streams
  /\ rcv \in [at: {"idle", "invite", "created", "trying", "bye", "cancel", "dead"},
              id: Ids \cup {0}, next: Nat, on: 0..made, heard: Nat,
              behind: 0..clients, past: 0..clients]
  /\ rcv.at \in {"created", "trying"} => rcv.next \in 1..clients
  /\ rcv.at = "created" => rcv.past < clients
  /\ rcv.at = "invite" => rcv.next \in 1..(clients + 1)
  /\ Fits(clients)
  /\ api \in [Callers -> [at: {"idle", "hangup", "register"}, call: 0..made]]
  /\ clients \in 1..MaxClients /\ registered \subseteq 1..clients
  /\ listening \in [1..MaxClients -> Nat]
  /\ audio \in [Calls -> AudioType]
  /\ \A c \in Calls : audio[c].handler = "waiting" <=> audio[c].held # 0
  /\ streams \in 0..MaxUplinks
  /\ open \subseteq 1..streams /\ finished \subseteq (1..streams) \ open

\* The slot belongs to exactly one call: current_call is the call that took it and
\* was not hung up since; a hangup, a CANCEL meant for somebody else or a late stop()
\* never frees the slot of another call nor leaves a dead call in it.
SlotMatchesCall ==
  \A c \in Calls : (current = c) <=> (call[c].hooked /\ call[c].stop \in {"no", "bye"})

\* A ringing status stands for a call: sip_status is never left at 1 by a call that
\* ended while a handler was suspended, so the panel is not told of a visitor who
\* is gone.
StatusHasCall == status = 1 => current # 0

\* One conversation at a time: a session that was not closed is the current call's, and
\* that of a call that was hung up is being joined until stop() returns.  A session goes
\* on behind the interface's back in two ways only: _start had not had its turn when the
\* call was hung up, and that stop() was left by the exception; or the answer of another
\* call, one that was over by then, came late and replaced it.
NoStrayCall ==
  \A c \in Calls :
    /\ call[c].rtp \in Begun => c = current \/ call[c].stop = "raised"
    /\ call[c].rtp = "closing" <=> call[c].stop = "join"
    /\ call[c].rtp = "stopped" => call[c].stop = "done"
    /\ call[c].stop = "raised" =>
         \/ call[c].rtp \in Begun
         \/ call[c].on # 0 /\ call[call[c].on].stop = "raised"
    /\ call[c].stray =>
         \E d \in Calls \ {c} : /\ call[d].task = "done" /\ call[d].response = "ACCEPT"
                               /\ call[d].hooked /\ call[d].stop \in HungUp

\* A session is started only because a call that held the slot was accepted: that call,
\* or, when it was hung up while it was being answered and the next visitor has the
\* slot, one that is over (the callback starts the session of whatever call is current
\* by then).
SessionWasAccepted ==
  \A c \in Calls : call[c].rtp # "none" =>
    \E d \in Calls : /\ call[d].response = "ACCEPT" /\ call[d].hooked
                     /\ d = c \/ call[d].stop \in HungUp

\* The microphone belongs to the call that is current: current_uplink is queued, held or
\* attached there until its send_handler ends, through hangups and new calls, unless the
\* session it was attached to was replaced.
MicrophoneInCall ==
  uplink # 0 =>
    /\ current # 0
    /\ \/ audio[current].handler = "ended" \/ call[current].stray
       \/ uplink \in {audio[current].stream, audio[current].held}
       \/ \E i \in DOMAIN audio[current].queue : audio[current].queue[i] = uplink

\* An answer counts once: acceptance, refusal, timeout and CANCEL race, and whichever
\* came first is never replaced; a call that gave up its slot gets no session any more
\* and never gets the slot back.
AnswerIsFinal ==
  [][\A c \in Calls :
       /\ call[c].response \notin {"none", "pending"} =>
            call'[c].response = call[c].response
       /\ call[c].stop \in HungUp =>
            /\ call'[c].rtp \in Begun => call[c].rtp \in Begun
            /\ current' = c => current = c]_vars

\* What the users of the interface see of all this is one slot: every step is a visitor
\* taking it, the conversation beginning, or both ending at once.
Slot == INSTANCE CallSlot WITH
  Visitors <- Calls,
  holder <- current,
  past <- {c \in Calls : call[c].hooked /\ call[c].stop \in HungUp},
  talking <- current # 0 /\ call[current].rtp # "none"

OneVisitorAtATime == Slot!Spec

\* A visitor never blocks the intercom: the slot is freed again, unless the call was
\* answered and lasts.
SlotFreed ==
  \A c \in Calls : current = c ~> \/ current # c
                                  \/ call[c].dialogue = "CONFIRMED" /\ call[c].stop = "no"

\* Whoever hangs up waits for nothing but the threads of the session, and a call that
\* was hung up sends no more audio: its send_handler ends even when it was waiting for
\* an earlier stream.  Three kinds of call keep theirs: one that was hung up before its
\* answer was out and looks ANSWERED from then on, one that a late copy of its INVITE
\* made look like a call being set up, and one whose session, with the stream in it,
\* was replaced.
HangupEnds ==
  /\ \A h \in Callers : api[h].at = "hangup" ~>
       api[h].at # "hangup" \/ []\E c \in Calls : c = api[h].call /\ call[c].stop = "join"
  /\ \A c \in Calls :
       []~(call[c].stop \in HungUp /\ call[c].state = "ANSWERED") =>
         (call[c].stop = "done" /\ audio[c].handler # "off" ~>
            audio[c].handler = "ended" \/ call[c].state = "DIALING" \/ call[c].stray)
=============================================================================
