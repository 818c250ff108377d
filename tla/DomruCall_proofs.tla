-------------------------- MODULE DomruCall_proofs --------------------------
(***************************************************************************)
(* Proofs about incoming calls, for every number of calls, callers, SIP    *)
(* clients and streams: who owns the slot, and that answers are final.     *)
(***************************************************************************)
EXTENDS DomruCall, TLAPS

\* Nothing is known of a SipCall before it is made.
Unborn == \A c \in Calls : c > made => call[c] = NoCall

\* A send_handler runs only after its call's delayed task.
Started == \A c \in Calls : audio[c].handler # "off" => call[c].task = "done"

\* A call is being answered only after it was accepted.
Agreed == \A c \in Calls : call[c].task = "accepting" => call[c].response = "ACCEPT"

\* The message being handled has a Call-ID.
Addressed == rcv.at \in {"invite", "created", "trying", "bye"} => rcv.id \in Ids

\* A session is that of the current call, or goes with the stop() of its call.
Owned ==
  \A c \in Calls :
    /\ call[c].rtp \in Begun => c = current \/ call[c].stop = "raised"
    /\ call[c].rtp = "closing" <=> call[c].stop = "join"
    /\ call[c].rtp = "stopped" => call[c].stop = "done"

\* Whom a stop() waits for, and why one may raise; that of the call in the slot never
\* waits for a call that had a session, so nothing raises before it frees the slot.
Waits ==
  \A c \in Calls :
    /\ call[c].stop = "no" => call[c].on = 0
    /\ call[c].stop = "raised" =>
         call[c].rtp \in Begun \/ (call[c].on # 0 /\ call[call[c].on].stop = "raised")
    /\ call[c].stop = "bye" /\ call[c].hooked /\ call[c].on # 0 =>
         call[call[c].on].stop = "done"

\* The inductive invariant about the slot: the types, whose the slot and the sessions
\* are, and what they need: that a new SipCall has no past and that each call is
\* answered once.
IInv ==
  /\ TypeOK /\ SlotMatchesCall /\ StatusHasCall /\ Owned /\ Waits
  /\ Unborn /\ Started /\ Agreed /\ Addressed

\* The counters and the sets they bound.
LEMMA Counts ==
  ASSUME TypeOK
  PROVE  /\ made \in 0..MaxCalls /\ made \in Nat /\ MaxCalls \in Nat
         /\ current \in 0..made /\ status \in {-1, 0, 1} /\ uplink \in 0..streams
         /\ clients \in 1..MaxClients /\ clients \in Nat /\ MaxClients \in Nat
         /\ streams \in 0..MaxUplinks /\ streams \in Nat /\ MaxUplinks \in Nat
         /\ open \subseteq 1..streams /\ finished \subseteq (1..streams) \ open
         /\ registered \subseteq 1..clients
         /\ Calls = 1..MaxCalls /\ Uplinks = 1..MaxUplinks
<1>1. /\ made \in 0..MaxCalls /\ current \in 0..made /\ status \in {-1, 0, 1}
      /\ uplink \in 0..streams /\ clients \in 1..MaxClients /\ streams \in 0..MaxUplinks
      /\ open \subseteq 1..streams /\ finished \subseteq (1..streams) \ open
      /\ registered \subseteq 1..clients
  BY DEF TypeOK
<1>2. MaxCalls \in Nat /\ MaxClients \in Nat /\ MaxUplinks \in Nat
  BY DomruAssumption
<1>3. Calls = 1..MaxCalls /\ Uplinks = 1..MaxUplinks
  BY DEF Calls, Uplinks
<1> QED
  BY <1>1, <1>2, <1>3

\* The fields of a call that the slot depends on.
Alike(calls) ==
  /\ calls \in [Calls -> CallType]
  /\ \A d \in Calls : /\ calls[d].hooked = call[d].hooked
                      /\ calls[d].stop = call[d].stop
                      /\ calls[d].rtp = call[d].rtp
                      /\ calls[d].stray = call[d].stray

\* No stop() goes on to another call.
SameOn(calls) == \A d \in Calls : calls[d].on = call[d].on

\* A step that changes none of them, nor the slot, keeps the slot's invariants.
LEMMA AlikeKeeps ==
  ASSUME IInv, Alike(call'), current' = current
  PROVE  SlotMatchesCall' /\ Owned' /\ (SameOn(call') => Waits')
<1>1. SlotMatchesCall' /\ Owned'
  BY DEF IInv, Alike, SlotMatchesCall, Owned
<1>2. ASSUME SameOn(call') PROVE Waits'
  <2>1. \A d \in Calls : call[d].on # 0 => call[d].on \in Calls
    <3>1. \A k \in CallType : k.on \in 0..MaxCalls
      BY DEF CallType
    <3> QED
      BY <3>1, DomruAssumption DEF IInv, TypeOK, Calls
  <2> QED
    BY <1>2, <2>1 DEF IInv, Alike, SameOn, Waits
<1> QED
  BY <1>1, <1>2

\* What a hangup does to the call table and the slot, whichever of the calls it ends.
Gives(calls, c) ==
  /\ call' \in [Calls -> CallType]
  /\ \A d \in Calls : d # c => call'[d] = calls[d]
  /\ \A d \in Calls : /\ call'[d].id = calls[d].id
                      /\ call'[d].response = calls[d].response
                      /\ call'[d].task = calls[d].task
                      /\ call'[d].on = calls[d].on
                      /\ call'[d].stray = call[d].stray
                      /\ call'[d].hooked = call[d].hooked
                      /\ call[d].stop \in HungUp => call'[d].stop = call[d].stop
                      /\ call'[d].stop = "no" => call[d].stop = "no"
                      /\ call[d].stop = "raised" => call'[d].rtp = call[d].rtp
                      /\ call'[d].rtp \in Begun => call'[d].rtp = call[d].rtp
                      /\ call'[d].rtp = "none" <=> call[d].rtp = "none"
  /\ call'[c].stop = "raised" => call'[c].rtp \in Begun \/ call[c].stop = "raised"
  /\ call[c].rtp = "none" => call'[c].stop \in {call[c].stop, "bye", "done"}
  /\ current' \in {0, current} /\ uplink' \in {0, uplink}
  /\ status' \in {0, status} /\ open' \in SUBSET open
  /\ SlotMatchesCall' /\ StatusHasCall' /\ Owned'

\* A call whose stop() went on.
LEMMA StopType ==
  ASSUME NEW k \in CallType, NEW x \in {"no", "bye", "join", "done", "raised"}
  PROVE  [k EXCEPT !.stop = x] \in CallType
  BY DEF CallType

\* A call whose session went on.
LEMMA RtpType ==
  ASSUME NEW k \in CallType, NEW x \in {"none", "created", "running", "closing", "stopped"}
  PROVE  [k EXCEPT !.rtp = x] \in CallType
  BY DEF CallType

\* A call of which both did.
LEMMA StopRtpType ==
  ASSUME NEW k \in CallType, NEW y \in {"no", "bye", "join", "done", "raised"},
         NEW x \in {"none", "created", "running", "closing", "stopped"}
  PROVE  [k EXCEPT !.stop = y, !.rtp = x] \in CallType
<1> DEFINE q == [k EXCEPT !.stop = y]
<1>1. q \in CallType
  BY StopType
<1>2. [k EXCEPT !.stop = y, !.rtp = x] = [q EXCEPT !.rtp = x]
  OBVIOUS
<1> HIDE DEF q
<1>3. [q EXCEPT !.rtp = x] \in CallType
  BY <1>1, RtpType
<1> QED
  BY <1>2, <1>3

\* How a hangup leaves a call and its session.
LEMMA LetGoType ==
  ASSUME NEW k \in CallType
  PROVE  /\ LetGo(k) \in CallType
         /\ LetGo(k).id = k.id /\ LetGo(k).response = k.response
         /\ LetGo(k).task = k.task /\ LetGo(k).hooked = k.hooked
         /\ LetGo(k).on = k.on /\ LetGo(k).stray = k.stray
         /\ LetGo(k).stop = CASE k.rtp = "running" -> "join"
                              [] k.rtp = "created" -> "raised"
                              [] OTHER -> "done"
         /\ LetGo(k).rtp = IF k.rtp = "running" THEN "closing" ELSE k.rtp
<1>1. CASE k.rtp = "running"
  <2> DEFINE r == [k EXCEPT !.stop = "join", !.rtp = "closing"]
  <2>1. LetGo(k) = r
    BY <1>1 DEF LetGo
  <2>2. /\ r.id = k.id /\ r.response = k.response /\ r.task = k.task
        /\ r.hooked = k.hooked /\ r.on = k.on /\ r.stray = k.stray
        /\ r.stop = "join" /\ r.rtp = "closing"
    BY DEF CallType
  <2>3. r \in CallType
    BY StopRtpType
  <2> HIDE DEF r
  <2> QED
    BY <1>1, <2>1, <2>2, <2>3
<1>2. ASSUME NEW s \in {"raised", "done"}
      PROVE  LET r == [k EXCEPT !.stop = s] IN
             /\ r \in CallType /\ r.id = k.id /\ r.response = k.response
             /\ r.task = k.task /\ r.hooked = k.hooked /\ r.on = k.on
             /\ r.stray = k.stray /\ r.stop = s /\ r.rtp = k.rtp
  BY DEF CallType
<1>3. CASE k.rtp = "created"
  BY <1>2, <1>3 DEF LetGo
<1>4. CASE k.rtp # "running" /\ k.rtp # "created"
  BY <1>2, <1>4 DEF LetGo
<1> QED
  BY <1>1, <1>3, <1>4

\* HangUp frees the slot exactly when the call that ends owns it.
LEMMA HangUpGives ==
  ASSUME IInv, NEW calls, Alike(calls), NEW c \in Calls,
         calls[c].stop \in {"no", "bye"}, HangUp(calls, c)
  PROVE  Gives(calls, c)
<1>1. /\ call[c].rtp \in {"none", "created", "running"} /\ call[c].stop \in {"no", "bye"}
      /\ calls[c] \in CallType
  BY DEF IInv, Alike, Owned, TypeOK, CallType
<1>2. /\ LetGo(calls[c]) \in CallType
      /\ LetGo(calls[c]).id = calls[c].id
      /\ LetGo(calls[c]).response = calls[c].response
      /\ LetGo(calls[c]).task = calls[c].task
      /\ LetGo(calls[c]).hooked = call[c].hooked
      /\ LetGo(calls[c]).on = calls[c].on
      /\ LetGo(calls[c]).stray = call[c].stray
      /\ LetGo(calls[c]).stop = CASE call[c].rtp = "running" -> "join"
                                  [] call[c].rtp = "created" -> "raised"
                                  [] OTHER -> "done"
      /\ LetGo(calls[c]).rtp = IF call[c].rtp = "running" THEN "closing" ELSE call[c].rtp
  BY <1>1, LetGoType DEF Alike
<1>c. /\ call' \in [Calls -> CallType]
      /\ \A d \in Calls : call'[d] = IF d = c THEN LetGo(calls[c]) ELSE calls[d]
  BY <1>2 DEF HangUp, Alike
<1>3. IF call[c].hooked
      THEN current = c /\ current' = 0 /\ uplink' = 0 /\ status' = 0
      ELSE current # c /\ current' = current /\ uplink' = uplink /\ status' = status
  BY <1>1 DEF IInv, SlotMatchesCall, HangUp, Clears, FreesSlot, slot, Alike, Calls
<1>4. open' \in SUBSET open
  BY DEF HangUp
<1>s. /\ call'[c].stop \in HungUp
      /\ call'[c].stop = "join" <=> call[c].rtp = "running"
      /\ call'[c].stop = "raised" <=> call[c].rtp = "created"
      /\ call'[c].stop = "done" <=> call[c].rtp = "none"
      /\ call'[c].hooked = call[c].hooked /\ call'[c].stray = call[c].stray
      /\ call'[c].rtp = IF call[c].rtp = "running" THEN "closing" ELSE call[c].rtp
  BY <1>1, <1>2, <1>c DEF HungUp
<1>d. \A d \in Calls : d # c => /\ call'[d].stop = call[d].stop /\ call'[d].rtp = call[d].rtp
                                /\ call'[d].hooked = call[d].hooked
                                /\ call'[d].stray = call[d].stray
  BY <1>c DEF Alike
<1>5. SlotMatchesCall'
  BY <1>1, <1>s, <1>d, <1>3 DEF IInv, SlotMatchesCall, Calls, HungUp
<1>6. Owned'
  <2>1. ASSUME NEW d \in Calls, d # c, call[d].rtp \in Begun
        PROVE  d = current' \/ call'[d].stop = "raised"
    BY <1>3, <1>d, <2>1 DEF IInv, Owned
  <2>2. call'[c].rtp \in Begun => call'[c].stop = "raised"
    BY <1>1, <1>s DEF Begun
  <2>3. (call'[c].rtp = "closing" <=> call'[c].stop = "join") /\ call'[c].rtp # "stopped"
    BY <1>1, <1>s
  <2> QED
    BY <1>d, <2>1, <2>2, <2>3 DEF IInv, Owned
<1>7. StatusHasCall'
  BY <1>3 DEF IInv, StatusHasCall
<1>8. \A d \in Calls : /\ call[d].stop \in HungUp => call'[d].stop = call[d].stop
                       /\ call'[d].stop = "no" => call[d].stop = "no"
                       /\ call[d].stop = "raised" => call'[d].rtp = call[d].rtp
                       /\ call'[d].rtp \in Begun => call'[d].rtp = call[d].rtp
                       /\ call'[d].rtp = "none" <=> call[d].rtp = "none"
  BY <1>1, <1>s, <1>d DEF HungUp, Begun
<1>9. \A d \in Calls : /\ call'[d].id = calls[d].id
                       /\ call'[d].response = calls[d].response
                       /\ call'[d].task = calls[d].task
                       /\ call'[d].on = calls[d].on
  BY <1>2, <1>c
<1>10. call'[c].stop = "raised" => call'[c].rtp \in Begun
  BY <1>s DEF Begun
<1> QED
  BY <1>c, <1>s, <1>d, <1>3, <1>4, <1>5, <1>6, <1>7, <1>8, <1>9, <1>10 DEF Gives

\* stop() does nothing, sends the BYE first, or hangs up.
LEMMA StopGives ==
  ASSUME IInv, NEW calls, Alike(calls), NEW c \in Calls, Stop(calls, c)
  PROVE  Gives(calls, c)
<1>1. CASE calls[c].stop # "no"
  <2>1. call' = calls /\ UNCHANGED <<slot, open>>
    BY <1>1 DEF Stop
  <2>2. Alike(call')
    BY <2>1
  <2>3. SlotMatchesCall' /\ Owned' /\ StatusHasCall'
    BY <2>1, <2>2, AlikeKeeps DEF slot, IInv, StatusHasCall
  <2> QED
    BY <2>1, <2>3 DEF Gives, Alike, slot
<1>2. CASE calls[c].stop = "no" /\ calls[c].dialogue = "CONFIRMED"
  <2>1. call' = [calls EXCEPT ![c].stop = "bye"] /\ UNCHANGED <<slot, open>>
    BY <1>2 DEF Stop
  <2>a. ASSUME NEW k \in CallType
        PROVE  LET r == [k EXCEPT !.stop = "bye"] IN
               /\ r \in CallType /\ r.id = k.id /\ r.response = k.response
               /\ r.task = k.task /\ r.hooked = k.hooked /\ r.on = k.on
               /\ r.stray = k.stray /\ r.stop = "bye" /\ r.rtp = k.rtp
    BY DEF CallType
  <2>2. /\ call' \in [Calls -> CallType]
        /\ \A d \in Calls : /\ d # c => call'[d] = calls[d]
                            /\ call'[d].id = calls[d].id
                            /\ call'[d].response = calls[d].response
                            /\ call'[d].task = calls[d].task
                            /\ call'[d].on = calls[d].on
                            /\ call'[d].stray = call[d].stray
                            /\ call'[d].hooked = call[d].hooked
                            /\ call'[d].rtp = call[d].rtp
                            /\ call'[d].stop = IF d = c THEN "bye" ELSE call[d].stop
    BY <2>1, <2>a DEF Alike
  <2>3. call[c].stop = "no"
    BY <1>2 DEF Alike
  <2>4. SlotMatchesCall' /\ Owned' /\ StatusHasCall'
    BY <2>1, <2>2, <2>3 DEF IInv, SlotMatchesCall, Owned, StatusHasCall, slot
  <2> QED
    BY <2>1, <2>2, <2>3, <2>4 DEF Gives, slot, HungUp
<1>3. CASE ~(calls[c].stop # "no") /\ ~(calls[c].stop = "no" /\ calls[c].dialogue = "CONFIRMED")
  <2>1. HangUp(calls, c)
    BY <1>3 DEF Stop
  <2> QED
    BY <1>3, <2>1, HangUpGives
<1> QED
  BY <1>1, <1>2, <1>3

\* A BYE that was heard changes no field the slot depends on.
LEMMA ByeHeardAlike ==
  ASSUME TypeOK, NEW S \in SUBSET Calls
  PROVE  /\ Alike(ByeHeard(S)) /\ SameOn(ByeHeard(S))
         /\ \A d \in Calls : /\ ByeHeard(S)[d].id = call[d].id
                             /\ ByeHeard(S)[d].response = call[d].response
                             /\ ByeHeard(S)[d].task = call[d].task
                             /\ d \notin S => ByeHeard(S)[d] = call[d]
<1>1. ASSUME NEW k \in CallType, NEW r,
             r = [k EXCEPT !.state = "ENDED", !.dialogue = "TERMINATED"]
      PROVE  /\ r \in CallType /\ r.id = k.id /\ r.response = k.response
             /\ r.task = k.task /\ r.hooked = k.hooked /\ r.on = k.on
             /\ r.stray = k.stray /\ r.stop = k.stop /\ r.rtp = k.rtp
  <2>1. r \in CallType
    BY <1>1, ZenonT(60) DEF CallType
  <2> QED
    BY <1>1, <2>1 DEF CallType
<1>2. ASSUME NEW d \in Calls
      PROVE  LET r == ByeHeard(S)[d] IN
             /\ r \in CallType /\ r.id = call[d].id /\ r.response = call[d].response
             /\ r.task = call[d].task /\ r.hooked = call[d].hooked
             /\ r.on = call[d].on /\ r.stray = call[d].stray
             /\ r.stop = call[d].stop /\ r.rtp = call[d].rtp
             /\ d \notin S => r = call[d]
  <2>0. call[d] \in CallType
    BY DEF TypeOK
  <2>1. CASE d \in S
    <3> DEFINE r == ByeHeard(S)[d]
               k == call[d]
    <3>1. k \in CallType /\ r = [k EXCEPT !.state = "ENDED", !.dialogue = "TERMINATED"]
      BY <2>0, <2>1 DEF ByeHeard
    <3> HIDE DEF r, k
    <3>2. /\ r \in CallType /\ r.id = k.id /\ r.response = k.response
          /\ r.task = k.task /\ r.hooked = k.hooked /\ r.on = k.on
          /\ r.stray = k.stray /\ r.stop = k.stop /\ r.rtp = k.rtp
      BY <1>1, <3>1
    <3> QED
      BY <2>1, <3>2 DEF r, k
  <2>2. CASE d \notin S
    BY <2>0, <2>2 DEF ByeHeard
  <2> QED
    BY <2>1, <2>2
<1>3. ByeHeard(S) \in [Calls -> CallType]
  <2>1. ByeHeard(S) = [d \in Calls |-> ByeHeard(S)[d]]
    BY DEF ByeHeard
  <2> QED
    BY <1>2, <2>1
<1> QED
  BY <1>2, <1>3 DEF Alike, SameOn
-----------------------------------------------------------------------------
\* What AnswerIsFinal says of one step.
AnswerStep ==
  \A c \in Calls :
    /\ call[c].response \notin {"none", "pending"} => call'[c].response = call[c].response
    /\ call[c].stop \in HungUp =>
         /\ call'[c].rtp \in Begun => call[c].rtp \in Begun
         /\ current' = c => current = c

\* An accepted call that has its hooks was answered in this step.
AnswerGiven ==
  \E d \in Calls : call[d].task = "accepting" /\ call[d].hooked /\ call'[d].task = "done"

\* What one step may do to the calls and the slot: hooks, sessions, answers and ends
\* last, only the call that takes the free slot gets its hooks, and a session starts or
\* is replaced in the call that has the slot, by the answer to a call that had it.
SlotStep ==
  \A c \in Calls :
    /\ call[c].hooked => call'[c].hooked
    /\ call[c].stop \in HungUp => call'[c].stop \in HungUp
    /\ call[c].rtp # "none" => call'[c].rtp # "none"
    /\ call[c].stray => call'[c].stray
    /\ call[c].task = "done" => call'[c].task = "done"
    /\ call'[c].hooked /\ ~call[c].hooked =>
         current = 0 /\ current' = c /\ call'[c].rtp = "none"
    /\ call[c].rtp = "none" /\ call'[c].rtp # "none" => current = c /\ AnswerGiven
    /\ call'[c].stray /\ ~call[c].stray =>
         call[c].rtp # "none" /\ current = c /\ AnswerGiven

CallStep == AnswerStep /\ SlotStep

\* The part of the invariant that ending a call touches.
CallPart ==
  /\ call \in [Calls -> CallType] /\ made \in 0..MaxCalls
  /\ current \in 0..made /\ status \in {-1, 0, 1}
  /\ uplink \in 0..streams /\ open \subseteq 1..streams
  /\ finished \subseteq (1..streams) \ open
  /\ \A c \in Calls : audio[c].handler = "waiting" <=> audio[c].held # 0
  /\ SlotMatchesCall /\ StatusHasCall /\ Owned /\ Waits /\ Unborn /\ Started
  /\ Agreed

\* The table calls differs from call in nothing the slot depends on: tasks that are
\* done stay done, answers stay given, and no call is made.
Heard(calls) ==
  /\ Alike(calls)
  /\ \A d \in Calls :
       /\ d > made => calls[d] = call[d]
       /\ call[d].task = "done" => calls[d].task = "done"
       /\ call[d].response \notin {"none", "pending"} =>
            calls[d].response = call[d].response
       /\ calls[d].task = "accepting" => calls[d].response = "ACCEPT"

\* A BYE that the calls of one Call-ID heard.
LEMMA SameHearBye ==
  ASSUME IInv, NEW c \in Calls
  PROVE  Heard(ByeHeard(Same(c))) /\ SameOn(ByeHeard(Same(c)))
<1> DEFINE calls == ByeHeard(Same(c))
<1>1. Same(c) \in SUBSET Calls /\ \A d \in Calls : d > made => d \notin Same(c)
  <2>1. made \in 0..MaxCalls
    BY DEF IInv, TypeOK
  <2> QED
    BY <2>1, DomruAssumption DEF Same, Calls
<1>2. TypeOK
  BY DEF IInv
<1>3. /\ Alike(calls) /\ SameOn(calls)
      /\ \A d \in Calls : /\ calls[d].response = call[d].response
                          /\ calls[d].task = call[d].task
                          /\ d \notin Same(c) => calls[d] = call[d]
  BY <1>1, <1>2, ByeHeardAlike
<1>4. \A d \in Calls : call[d].task = "accepting" => call[d].response = "ACCEPT"
  BY DEF IInv, Agreed
<1> HIDE DEF calls
<1>5. Heard(calls)
  BY <1>1, <1>3, <1>4 DEF Heard
<1> QED
  BY <1>3, <1>5 DEF calls

\* A BYE goes on to another call, or to none.  That of the call in the slot goes on to
\* one that is over at once.
OnKept(calls) ==
  \A b \in Calls :
    \/ calls[b].on = call[b].on
    \/ /\ call[b].stop = "bye"
       /\ call[b].hooked /\ calls[b].on # 0 => call'[calls[b].on].stop = "done"

\* Whom the calls wait for and a call is.
LEMMA FieldTypes ==
  ASSUME NEW k \in CallType
  PROVE  /\ k.on # 0 => k.on \in Calls
         /\ k.stop \in {"no", "bye"} \/ k.stop \in HungUp
         /\ k.rtp \in {"none", "created", "running", "closing", "stopped"}
<1>1. /\ k.on \in 0..MaxCalls /\ k.stop \in {"no", "bye", "join", "done", "raised"}
      /\ k.rtp \in {"none", "created", "running", "closing", "stopped"}
  BY DEF CallType
<1> QED
  BY <1>1, DomruAssumption DEF Calls, HungUp

\* Ending one of the calls that exist keeps the invariant and no answer is replaced.
LEMMA GivesKeeps ==
  ASSUME IInv, NEW calls, Heard(calls), NEW c \in Calls, c <= made, Gives(calls, c),
         OnKept(calls), UNCHANGED <<made, audio, streams, finished>>
  PROVE  CallPart' /\ CallStep
<1>1. /\ current' \in 0..made' /\ status' \in {-1, 0, 1}
      /\ uplink' \in 0..streams' /\ open' \subseteq 1..streams'
      /\ finished' \subseteq (1..streams') \ open'
      /\ made' \in 0..MaxCalls
      /\ \A d \in Calls : audio'[d].handler = "waiting" <=> audio'[d].held # 0
  BY DEF IInv, TypeOK, Gives
<1>2. Unborn'
  <2>1. ASSUME NEW d \in Calls, d > made PROVE call'[d] = NoCall
    <3>1. d # c
      BY <2>1, DomruAssumption DEF IInv, TypeOK, Calls
    <3> QED
      BY <2>1, <3>1 DEF IInv, Unborn, Gives, Heard
  <2> QED
    BY <2>1 DEF Unborn
<1>3. Started'
  BY DEF IInv, Started, Gives, Heard
<1>a. Agreed'
  BY DEF Agreed, Gives, Heard
<1>w. Waits'
  <2>1. \A d \in Calls : /\ call[d].on # 0 => call[d].on \in Calls
                         /\ call[d].stop \in {"no", "bye"} \/ call[d].stop \in HungUp
    BY FieldTypes DEF IInv, TypeOK
  <2>2. \A d \in Calls : /\ call'[d].on = calls[d].on /\ call'[d].hooked = call[d].hooked
                         /\ call[d].stop \in HungUp => call'[d].stop = call[d].stop
                         /\ call'[d].stop = "no" => call[d].stop = "no"
                         /\ call[d].stop = "raised" => call'[d].rtp = call[d].rtp
                         /\ d # c => call'[d].stop = call[d].stop
    BY DEF Gives, Heard, Alike
  <2>3. call'[c].stop = "raised" => call'[c].rtp \in Begun \/ call[c].stop = "raised"
    BY DEF Gives
  <2>4. ASSUME NEW d \in Calls, call'[d].stop = "no" PROVE call'[d].on = 0
    BY <2>2, <2>4 DEF IInv, Waits, OnKept
  <2>5. ASSUME NEW d \in Calls, call'[d].stop = "raised", call'[d].rtp \notin Begun
        PROVE  call'[d].on # 0 /\ call'[call'[d].on].stop = "raised"
    <3>1. call[d].stop = "raised" /\ call[d].rtp \notin Begun
      BY <2>2, <2>3, <2>5
    <3>2. call[d].on # 0 /\ call[call[d].on].stop = "raised"
      BY <3>1 DEF IInv, Waits
    <3>3. call'[d].on = call[d].on
      BY <2>2, <3>1 DEF OnKept
    <3> QED
      BY <2>1, <2>2, <3>2, <3>3 DEF HungUp
  <2>6. ASSUME NEW d \in Calls, call'[d].stop = "bye", call'[d].hooked, call'[d].on # 0
        PROVE  call'[call'[d].on].stop = "done"
    <3>1. call[d].stop \in {"no", "bye"} /\ call[d].hooked
      BY <2>1, <2>2, <2>6 DEF HungUp
    <3>2. CASE calls[d].on = call[d].on
      <4>1. call[d].stop = "bye" /\ call[d].on # 0
        BY <2>2, <2>6, <3>1, <3>2 DEF IInv, Waits
      <4>2. call[call[d].on].stop = "done"
        BY <3>1, <4>1 DEF IInv, Waits
      <4> QED
        BY <2>1, <2>2, <3>2, <4>1, <4>2 DEF HungUp
    <3>3. CASE calls[d].on # call[d].on
      BY <2>2, <2>6, <3>1, <3>3 DEF OnKept
    <3> QED
      BY <3>2, <3>3
  <2> QED
    BY <2>4, <2>5, <2>6 DEF Waits
<1>4. CallStep
  <2>1. AnswerStep
    BY DEF AnswerStep, Gives, Heard, Calls
  <2>2. SlotStep
    BY DEF SlotStep, Gives, Heard, Calls
  <2> QED
    BY <2>1, <2>2 DEF CallStep
<1> QED
  BY <1>1, <1>2, <1>3, <1>a, <1>w, <1>4 DEF CallPart, Gives

\* A step of the message handlers, tasks and callers that touches only the calls.
Aside ==
  UNCHANGED <<made, account, audio, streams, finished>>

\* CallPart is the part of the invariant that such a step has to restore.
LEMMA AsideKeeps ==
  ASSUME IInv, CallPart', Aside, UNCHANGED <<rcv, api>>
  PROVE  IInv'
  BY DEF IInv, CallPart, Aside, TypeOK, account, Addressed, Fits

\* A BYE that was heard by the calls of one Call-ID leaves the slot with its owner.
LEMMA HeardKeeps ==
  ASSUME IInv, Heard(call'), SameOn(call'),
         UNCHANGED <<made, slot, audio, streams, open, finished>>
  PROVE  CallPart' /\ CallStep
<1>1. SlotMatchesCall' /\ Owned' /\ Waits'
  BY AlikeKeeps DEF Heard, slot
<1>2. /\ current' \in 0..made' /\ status' \in {-1, 0, 1}
      /\ uplink' \in 0..streams' /\ open' \subseteq 1..streams'
      /\ finished' \subseteq (1..streams') \ open'
      /\ made' \in 0..MaxCalls
      /\ \A d \in Calls : audio'[d].handler = "waiting" <=> audio'[d].held # 0
      /\ call' \in [Calls -> CallType] /\ StatusHasCall'
  BY DEF IInv, TypeOK, Heard, Alike, slot, StatusHasCall
<1>3. Unborn' /\ Started' /\ Agreed'
  BY DEF IInv, Unborn, Started, Agreed, Heard
<1>4. CallStep
  BY DEF CallStep, AnswerStep, SlotStep, Heard, Alike, slot
<1> QED
  BY <1>1, <1>2, <1>3, <1>4 DEF CallPart

\* The session of a call starts, ends or is left, and with it how far stop() got.
SessionSteps(c, stop, rtp) ==
  /\ call' \in [Calls -> CallType]
  /\ \A d \in Calls : /\ d # c => call'[d] = call[d]
                      /\ call'[d].response = call[d].response
                      /\ call'[d].task = call[d].task
                      /\ call'[d].hooked = call[d].hooked
                      /\ call'[d].stray = call[d].stray
                      /\ call'[d].on = call[d].on
  /\ call'[c].stop = stop /\ call'[c].rtp = rtp
  /\ UNCHANGED <<made, slot, rcv, api, account, audio, sound>>

\* The table after such a step.
LEMMA SessionTable ==
  ASSUME IInv, NEW c \in Calls,
         NEW s \in {"no", "bye", "join", "done", "raised"},
         NEW x \in {"none", "created", "running", "closing", "stopped"},
         NEW r, call' = [call EXCEPT ![c] = r],
         \/ r = [call[c] EXCEPT !.stop = s, !.rtp = x]
         \/ r = [call[c] EXCEPT !.stop = s] /\ x = call[c].rtp
         \/ r = [call[c] EXCEPT !.rtp = x] /\ s = call[c].stop,
         UNCHANGED <<made, slot, rcv, api, account, audio, sound>>
  PROVE  SessionSteps(c, s, x)
<1>1. call[c] \in CallType /\ call \in [Calls -> CallType]
  BY DEF IInv, TypeOK
<1>2. /\ r \in CallType /\ r.response = call[c].response /\ r.task = call[c].task
      /\ r.hooked = call[c].hooked /\ r.stray = call[c].stray /\ r.on = call[c].on
      /\ r.stop = s /\ r.rtp = x
  <2> DEFINE k == call[c]
  <2>1. k \in CallType
    BY <1>1
  <2>2. \/ r = [k EXCEPT !.stop = s, !.rtp = x]
        \/ r = [k EXCEPT !.stop = s] /\ x = k.rtp
        \/ r = [k EXCEPT !.rtp = x] /\ s = k.stop
    OBVIOUS
  <2> HIDE DEF k
  <2>3. /\ r \in CallType /\ r.response = k.response /\ r.task = k.task
        /\ r.hooked = k.hooked /\ r.stray = k.stray /\ r.on = k.on
        /\ r.stop = s /\ r.rtp = x
    <3>1. CASE r = [k EXCEPT !.stop = s, !.rtp = x]
      <4>1. r \in CallType
        BY <2>1, <3>1, StopRtpType
      <4> QED
        BY <2>1, <3>1, <4>1 DEF CallType
    <3>2. CASE r = [k EXCEPT !.stop = s] /\ x = k.rtp
      BY <2>1, <3>2 DEF CallType
    <3>3. CASE r = [k EXCEPT !.rtp = x] /\ s = k.stop
      BY <2>1, <3>3 DEF CallType
    <3> QED
      BY <2>2, <3>1, <3>2, <3>3
  <2> QED
    BY <2>3 DEF k
<1> QED
  BY <1>1, <1>2 DEF SessionSteps

\* A session that starts, a join that ends and an exception that leaves stop() keep the
\* invariant.
LEMMA SessionKeeps ==
  ASSUME IInv, NEW c \in Calls,
         \/ SessionSteps(c, call[c].stop, "running") /\ call[c].rtp = "created"
         \/ SessionSteps(c, "done", "stopped") /\ call[c].stop = "join"
         \/ /\ SessionSteps(c, "raised", call[c].rtp) /\ call[c].stop = "bye"
            /\ call[c].on # 0 /\ call[call[c].on].stop = "raised"
  PROVE  IInv' /\ CallStep
<1> USE DEF IInv
<1>1. /\ call' \in [Calls -> CallType]
      /\ \A d \in Calls : /\ d # c => call'[d] = call[d]
                          /\ call'[d].response = call[d].response
                          /\ call'[d].task = call[d].task
                          /\ call'[d].hooked = call[d].hooked
                          /\ call'[d].stray = call[d].stray
                          /\ call'[d].on = call[d].on
      /\ UNCHANGED <<made, slot, rcv, api, account, audio, sound>>
  BY DEF SessionSteps
<1>2. \/ /\ call'[c].stop = call[c].stop /\ call'[c].rtp = "running"
         /\ call[c].rtp = "created"
      \/ /\ call'[c].stop = "done" /\ call'[c].rtp = "stopped"
         /\ call[c].stop = "join" /\ call[c].rtp = "closing"
      \/ /\ call'[c].stop = "raised" /\ call'[c].rtp = call[c].rtp
         /\ call[c].stop = "bye" /\ ~call[c].hooked
         /\ call[c].on # 0 /\ call[call[c].on].stop = "raised"
  BY DEF SessionSteps, Owned, Waits
<1>t. /\ call[c].stop \in {"no", "bye"} \/ call[c].stop \in HungUp
      /\ call[c].rtp \in {"none", "created", "running", "closing", "stopped"}
      /\ \A d \in Calls : call[d].on # 0 => call[d].on \in Calls
  BY FieldTypes DEF TypeOK
<1>3. c <= made
  <2>1. call[c].stop # "no" \/ call[c].rtp = "created"
    BY <1>2
  <2> QED
    BY <2>1, DomruAssumption DEF Unborn, NoCall, TypeOK, Calls
<1>4. SlotMatchesCall'
  BY <1>1, <1>2 DEF SlotMatchesCall, slot
<1>5. Owned'
  BY <1>1, <1>2 DEF Owned, slot, Begun
<1>6. Waits'
  <2>1. ASSUME NEW d \in Calls, call[d].stop \in {"raised", "done"}
        PROVE  call'[d].stop = call[d].stop
    BY <1>1, <1>2, <2>1
  <2>2. ASSUME NEW d \in Calls, call[d].rtp \in Begun, call[d].stop = "raised"
        PROVE  call'[d].rtp \in Begun
    BY <1>1, <1>2, <2>2 DEF Begun
  <2>3. ASSUME NEW d \in Calls, call'[d].stop = "no" PROVE call'[d].on = 0
    BY <1>1, <1>2, <2>3 DEF Waits
  <2>4. ASSUME NEW d \in Calls, call'[d].stop = "raised", call'[d].rtp \notin Begun
        PROVE  call'[d].on # 0 /\ call'[call'[d].on].stop = "raised"
    <3>1. call[d].on # 0 /\ call[call[d].on].stop = "raised"
      <4>1. CASE call[d].stop = "raised"
        BY <2>2, <2>4, <4>1 DEF Waits
      <4>2. CASE call[d].stop # "raised"
        BY <1>1, <1>2, <2>4, <4>2
      <4> QED
        BY <4>1, <4>2
    <3> QED
      BY <1>1, <1>t, <2>1, <3>1
  <2>5. ASSUME NEW d \in Calls, call'[d].stop = "bye", call'[d].hooked, call'[d].on # 0
        PROVE  call'[call'[d].on].stop = "done"
    <3>1. call[d].stop = "bye" /\ call[d].hooked /\ call[d].on # 0
      BY <1>1, <1>2, <2>5
    <3>2. call[call[d].on].stop = "done"
      BY <3>1 DEF Waits
    <3> QED
      BY <1>1, <1>t, <2>1, <3>1, <3>2
  <2> QED
    BY <2>3, <2>4, <2>5 DEF Waits
<1>7. Unborn'
  BY <1>1, <1>3, Counts DEF Unborn
<1>8. Started' /\ StatusHasCall' /\ Agreed'
  BY <1>1 DEF Started, Agreed, StatusHasCall, slot
<1>9. CallPart'
  BY <1>1, <1>4, <1>5, <1>6, <1>7, <1>8 DEF CallPart, TypeOK, slot, sound
<1>10. CallStep
  <2>1. AnswerStep
    BY <1>1, <1>2 DEF AnswerStep, slot, Begun
  <2>2. SlotStep
    BY <1>1, <1>2 DEF SlotStep, slot, HungUp
  <2> QED
    BY <2>1, <2>2 DEF CallStep
<1> QED
  BY <1>1, <1>9, <1>10, AsideKeeps DEF Aside, sound

\* A call whose BYE goes on.
LEMMA OnType ==
  ASSUME NEW k \in CallType, NEW d \in 0..MaxCalls, NEW r, r = [k EXCEPT !.on = d]
  PROVE  /\ r \in CallType /\ r.id = k.id /\ r.response = k.response /\ r.task = k.task
         /\ r.hooked = k.hooked /\ r.stray = k.stray /\ r.on = d
         /\ r.stop = k.stop /\ r.rtp = k.rtp
  BY DEF CallType

\* Each step of stop(), the looped-back BYE and the join included, keeps the invariant.
LEMMA StoppingStep ==
  ASSUME IInv, NEW c \in Calls, Stopping(c)
  PROVE  IInv' /\ CallStep
<1> USE DEF IInv
<1>0. call \in [Calls -> CallType] /\ call[c] \in CallType
  BY DEF TypeOK
<1>2. Same(c) \in SUBSET Calls /\ \A d \in Same(c) : d <= made
  BY DomruAssumption DEF Same, TypeOK, Calls
<1>3. Heard(ByeHeard(Same(c))) /\ SameOn(ByeHeard(Same(c)))
  BY SameHearBye
<1>a. ASSUME NEW d \in 0..MaxCalls, call[c].stop = "bye"
      PROVE  LET calls == [ByeHeard(Same(c)) EXCEPT ![c].on = d] IN
             /\ c <= made
             /\ Heard(calls) /\ calls[c].on = d
             /\ \A b \in Calls : b # c => calls[b].on = call[b].on
  <2> DEFINE k == ByeHeard(Same(c))[c]
             r == [k EXCEPT !.on = d]
             calls == [ByeHeard(Same(c)) EXCEPT ![c] = r]
  <2>1. k \in CallType /\ ByeHeard(Same(c)) \in [Calls -> CallType]
    BY <1>3 DEF Heard, Alike
  <2>2. /\ r \in CallType /\ r.id = k.id /\ r.response = k.response /\ r.task = k.task
        /\ r.hooked = k.hooked /\ r.stray = k.stray /\ r.on = d
        /\ r.stop = k.stop /\ r.rtp = k.rtp
    BY <2>1, OnType
  <2>3. calls = [ByeHeard(Same(c)) EXCEPT ![c].on = d]
    OBVIOUS
  <2> HIDE DEF r
  <2>4. c <= made /\ \A b \in Calls : b > made => b # c
    BY <1>a, DomruAssumption DEF Unborn, NoCall, TypeOK, Calls
  <2>5. \A b \in Calls : calls[b] = IF b = c THEN r ELSE ByeHeard(Same(c))[b]
    BY <2>1
  <2>6. calls \in [Calls -> CallType]
    BY <2>1, <2>2
  <2> HIDE DEF calls
  <2>7. Heard(calls)
    BY <1>3, <2>2, <2>4, <2>5, <2>6 DEF Heard, Alike
  <2> QED
    BY <1>3, <2>2, <2>3, <2>4, <2>5, <2>7 DEF SameOn
<1>4. ASSUME NEW d \in Calls, ByeStopsAnother(c, d) PROVE IInv' /\ CallStep
  <2> DEFINE calls == [ByeHeard(Same(c)) EXCEPT ![c].on = d]
  <2>1. /\ call[c].stop = "bye" /\ call[d].stop = "no" /\ d \in Same(c)
        /\ HangUp(calls, d) /\ UNCHANGED <<made, rcv, api, account, audio, streams, finished>>
    BY <1>4 DEF ByeStopsAnother, ByeGoesOn
  <2>2. /\ d <= made /\ Heard(calls) /\ calls[c].on = d
        /\ \A b \in Calls : b # c => calls[b].on = call[b].on
    BY <1>2, <1>a, <2>1, DomruAssumption DEF Calls
  <2> HIDE DEF calls
  <2>3. Gives(calls, d)
    BY <2>1, <2>2, HangUpGives DEF Heard, Alike
  <2>4. OnKept(calls)
    <3>1. ASSUME call[c].hooked PROVE call'[d].stop = "done"
      <4>1. current = c /\ d # c
        BY <2>1, <3>1 DEF SlotMatchesCall
      <4>2. call[d].rtp \notin Begun /\ call[d].rtp # "closing" /\ call[d].rtp # "stopped"
        BY <2>1, <4>1 DEF Owned
      <4>3. call[d].rtp = "none"
        BY <4>2, <1>0, FieldTypes DEF Begun
      <4>4. calls[d].rtp = "none" /\ calls[d] \in CallType /\ calls \in [Calls -> CallType]
        BY <2>2, <4>3 DEF Heard, Alike
      <4>5. call'[d] = LetGo(calls[d])
        BY <2>1, <4>4 DEF HangUp
      <4>6. LetGo(calls[d]).stop = CASE calls[d].rtp = "running" -> "join"
                                     [] calls[d].rtp = "created" -> "raised"
                                     [] OTHER -> "done"
        BY <4>4, LetGoType
      <4> QED
        BY <4>4, <4>5, <4>6
    <3> QED
      BY <2>1, <2>2, <3>1 DEF OnKept
  <2>5. CallPart' /\ CallStep
    BY <2>1, <2>2, <2>3, <2>4, GivesKeeps
  <2> QED
    BY <2>1, <2>5, AsideKeeps DEF Aside
<1>5. CASE ByeSent(c)
  <2> DEFINE calls == [ByeHeard(Same(c)) EXCEPT ![c].on = 0]
  <2>1. /\ call[c].stop = "bye" /\ HangUp(calls, c)
        /\ UNCHANGED <<made, rcv, api, account, audio, streams, finished>>
    BY <1>5 DEF ByeSent, ByeGoesOn
  <2>2. /\ c <= made /\ Heard(calls) /\ calls[c].on = 0
        /\ \A b \in Calls : b # c => calls[b].on = call[b].on
    <3>1. 0 \in 0..MaxCalls
      BY DomruAssumption
    <3> QED
      BY <1>a, <2>1, <3>1
  <2> HIDE DEF calls
  <2>3. Gives(calls, c)
    BY <2>1, <2>2, HangUpGives DEF Heard, Alike
  <2>4. OnKept(calls)
    BY <2>1, <2>2 DEF OnKept
  <2>5. CallPart' /\ CallStep
    BY <2>1, <2>2, <2>3, <2>4, GivesKeeps
  <2> QED
    BY <2>1, <2>5, AsideKeeps DEF Aside
<1>6. CASE SessionJoined(c)
  <2>1. SessionSteps(c, "done", "stopped")
    BY <1>6, SessionTable DEF SessionJoined
  <2> QED
    BY <1>6, <2>1, SessionKeeps DEF SessionJoined
<1>7. CASE SessionStarts(c)
  <2> DEFINE r == [call[c] EXCEPT !.rtp = "running"]
  <2>1. call' = [call EXCEPT ![c] = r] /\ call[c].rtp = "created"
    BY <1>7 DEF SessionStarts
  <2>2. call[c].stop \in {"no", "bye", "join", "done", "raised"}
    BY <1>0 DEF CallType
  <2>3. SessionSteps(c, call[c].stop, "running")
    BY <1>7, <2>1, <2>2, SessionTable DEF SessionStarts
  <2> QED
    BY <2>1, <2>3, SessionKeeps
<1>8. CASE ByeRaises(c)
  <2> DEFINE r == [call[c] EXCEPT !.stop = "raised"]
  <2>1. /\ call' = [call EXCEPT ![c] = r] /\ call[c].stop = "bye"
        /\ call[c].on # 0 /\ call[call[c].on].stop = "raised"
    BY <1>8 DEF ByeRaises
  <2>2. call[c].rtp \in {"none", "created", "running", "closing", "stopped"}
    BY <1>0, FieldTypes
  <2>3. SessionSteps(c, "raised", call[c].rtp)
    BY <1>8, <2>1, <2>2, SessionTable DEF ByeRaises
  <2> QED
    BY <2>1, <2>3, SessionKeeps
<1> QED
  BY <1>4, <1>5, <1>6, <1>7, <1>8 DEF Stopping
-----------------------------------------------------------------------------
\* A call that differs from another only in what the slot does not depend on.
Like(r, k) ==
  /\ r \in CallType /\ r.hooked = k.hooked /\ r.stop = k.stop /\ r.rtp = k.rtp
  /\ r.stray = k.stray /\ r.on = k.on

\* A call whose delayed task went on or ended.
LEMMA TaskType ==
  ASSUME NEW k \in CallType, NEW o \in {"accepting", "refusing", "done"},
         NEW r, r = [k EXCEPT !.task = o]
  PROVE  Like(r, k) /\ r.response = k.response /\ r.task = o
  BY DEF CallType, Like

\* A call whose 200 or refusal was sent.
LEMMA RepliedType ==
  ASSUME NEW k \in CallType, NEW s \in {"ANSWERED", "ENDED", "BUSY"},
         NEW r, r = [k EXCEPT !.task = "done", !.state = s]
  PROVE  Like(r, k) /\ r.response = k.response /\ r.task = "done"
<1>1. r \in CallType
  BY ZenonT(60) DEF CallType
<1> QED
  BY <1>1 DEF CallType, Like

\* A call whose 200 passed one SipClient more.
LEMMA PastType ==
  ASSUME NEW k \in CallType, NEW n \in 0..MaxClients, NEW r, r = [k EXCEPT !.past = n]
  PROVE  Like(r, k) /\ r.response = k.response /\ r.task = k.task
  BY DEF CallType, Like

\* The 200 to the INVITE confirms calls and changes nothing else.
LEMMA ConfirmedType ==
  ASSUME TypeOK, NEW c \in Calls
  PROVE  /\ Confirmed(c) \in [Calls -> CallType]
         /\ \A d \in Calls : /\ Like(Confirmed(c)[d], call[d])
                             /\ Confirmed(c)[d].response = call[d].response
                             /\ Confirmed(c)[d].task = call[d].task
                             /\ Confirmed(c)[d].past = call[d].past
                             /\ d \notin Same(c) => Confirmed(c)[d] = call[d]
<1>1. ASSUME NEW k \in CallType, NEW r, r = [k EXCEPT !.dialogue = "CONFIRMED"]
      PROVE  Like(r, k) /\ r.response = k.response /\ r.task = k.task /\ r.past = k.past
  BY <1>1 DEF CallType, Like
<1>2. ASSUME NEW k \in CallType PROVE Like(k, k)
  BY DEF Like
<1>3. call \in [Calls -> CallType]
  BY DEF TypeOK
<1>4. ASSUME NEW d \in Calls
      PROVE  /\ Like(Confirmed(c)[d], call[d])
             /\ Confirmed(c)[d].response = call[d].response
             /\ Confirmed(c)[d].task = call[d].task
             /\ Confirmed(c)[d].past = call[d].past
             /\ d \notin Same(c) => Confirmed(c)[d] = call[d]
  <2>1. \/ Confirmed(c)[d] = call[d]
        \/ Confirmed(c)[d] = [call[d] EXCEPT !.dialogue = "CONFIRMED"] /\ d \in Same(c)
    BY DEF Confirmed
  <2> QED
    BY <1>1, <1>2, <1>3, <2>1
<1>5. Confirmed(c) = [d \in Calls |-> Confirmed(c)[d]]
  BY DEF Confirmed
<1>6. \A d \in Calls : Confirmed(c)[d] \in CallType
  BY <1>4 DEF Like
<1> QED
  BY <1>4, <1>5, <1>6

\* The table in which one of the calls that exist was replaced by one like it.
LEMMA ReplacedHeard ==
  ASSUME IInv, NEW c \in Calls, c <= made, NEW r, NEW calls \in [Calls -> CallType],
         \A d \in Calls : /\ Like(calls[d], call[d])
                          /\ calls[d].response = call[d].response
                          /\ calls[d].task = call[d].task
                          /\ d > made => calls[d] = call[d],
         Like(r, calls[c]),
         call[c].task = "done" => r.task = "done",
         call[c].response \notin {"none", "pending"} => r.response = call[c].response,
         r.task = "accepting" => r.response = "ACCEPT"
  PROVE  Heard([calls EXCEPT ![c] = r]) /\ SameOn([calls EXCEPT ![c] = r])
<1> DEFINE t == [calls EXCEPT ![c] = r]
<1>1. \A d \in Calls : t[d] = IF d = c THEN r ELSE calls[d]
  OBVIOUS
<1>2. t \in [Calls -> CallType]
  BY DEF Like
<1> HIDE DEF t
<1>3. \A d \in Calls : Like(t[d], call[d])
  BY <1>1 DEF Like
<1>4. Alike(t) /\ SameOn(t)
  BY <1>2, <1>3 DEF Alike, SameOn, Like
<1>5. ASSUME NEW d \in Calls
      PROVE  /\ d > made => t[d] = call[d]
             /\ call[d].task = "done" => t[d].task = "done"
             /\ call[d].response \notin {"none", "pending"} => t[d].response = call[d].response
             /\ t[d].task = "accepting" => t[d].response = "ACCEPT"
  <2>1. CASE d = c
    <3>1. ~(d > made)
      BY <2>1, DomruAssumption DEF IInv, TypeOK, Calls
    <3> QED
      BY <1>1, <2>1, <3>1
  <2>2. CASE d # c
    BY <1>1, <2>2 DEF IInv, Agreed
  <2> QED
    BY <2>1, <2>2
<1>6. Heard(t)
  BY <1>4, <1>5 DEF Heard
<1> QED
  BY <1>4, <1>6 DEF t

\* The answer of a call keeps the invariant, whoever's session it starts.
LEMMA AnsweredStep ==
  ASSUME IInv, NEW c \in Calls, Answered(c)
  PROVE  IInv' /\ CallStep
<1> USE DEF IInv
<1> DEFINE answered == [Confirmed(c) EXCEPT ![c].task = "done", ![c].state = "ANSWERED"]
           handled == [audio EXCEPT ![c].handler = "loop"]
           d == StartsFor(c)
           fresh == [answered[d] EXCEPT !.rtp = "created", !.stray = @ \/ call[d].rtp # "none"]
<1>1. /\ call[c].task = "accepting"
      /\ UNCHANGED <<made, slot, rcv, api, account, sound>>
      /\ call \in [Calls -> CallType] /\ audio \in [Calls -> AudioType]
      /\ made \in 0..MaxCalls /\ current \in 0..made
  BY DEF Answered, OkSent, TypeOK
<1>2. c <= made
  BY <1>1, DomruAssumption DEF Unborn, NoCall, TypeOK, Calls
<1>3. d = 0 \/ (d = current /\ d \in Calls /\ call[c].hooked /\ call[d].hooked
                /\ call[d].stop \in {"no", "bye"} /\ d <= made)
  BY <1>1, DomruAssumption DEF StartsFor, SlotMatchesCall, Calls
<1>4. /\ d = 0 => call' = answered /\ audio' = handled
      /\ d # 0 => /\ call' = [answered EXCEPT ![d] = fresh]
                  /\ audio' = [handled EXCEPT ![d].stream = 0]
  <2>1. CASE d = 0
    BY <2>1 DEF Answered
  <2>2. CASE d # 0
    <3>1. call' = [answered EXCEPT ![d].rtp = "created",
                                   ![d].stray = @ \/ call[d].rtp # "none"]
          /\ audio' = [handled EXCEPT ![d].stream = 0]
      BY <2>2 DEF Answered
    <3>2. [answered EXCEPT ![d].rtp = "created", ![d].stray = @ \/ call[d].rtp # "none"]
          = [answered EXCEPT ![d] = fresh]
      OBVIOUS
    <3> QED
      BY <2>2, <3>1, <3>2
  <2> QED
    BY <2>1, <2>2
<1>5. /\ answered \in [Calls -> CallType]
      /\ \A b \in Calls : /\ Like(answered[b], call[b])
                          /\ answered[b].response = call[b].response
                          /\ answered[b].task = IF b = c THEN "done" ELSE call[b].task
                          /\ b > made => answered[b] = call[b]
  <2> DEFINE k == Confirmed(c)[c]
             r == [k EXCEPT !.task = "done", !.state = "ANSWERED"]
  <2>1. answered = [Confirmed(c) EXCEPT ![c] = r]
    OBVIOUS
  <2>2. k \in CallType /\ Like(k, call[c]) /\ k.response = call[c].response
    BY ConfirmedType
  <2>3. Like(r, k) /\ r.response = k.response /\ r.task = "done"
    BY <2>2, RepliedType
  <2> HIDE DEF r, k, answered
  <2>4. Like(r, call[c])
    BY <2>2, <2>3 DEF Like
  <2>5. \A b \in Calls : answered[b] = IF b = c THEN r ELSE Confirmed(c)[b]
    BY <2>1, ConfirmedType
  <2>6. answered \in [Calls -> CallType]
    BY <2>1, <2>3, ConfirmedType DEF Like
  <2>7. \A b \in Calls : b > made => b # c /\ b \notin Same(c)
    BY <1>1, <1>2, DomruAssumption DEF Same, Calls
  <2> QED
    BY <2>2, <2>3, <2>4, <2>5, <2>6, <2>7, ConfirmedType
<1> HIDE DEF answered
<1>6. d # 0 =>
        /\ fresh \in CallType /\ fresh.response = call[d].response
        /\ fresh.task = answered[d].task
        /\ fresh.hooked = call[d].hooked /\ fresh.stop = call[d].stop
        /\ fresh.on = call[d].on /\ fresh.rtp = "created"
        /\ fresh.stray = (call[d].stray \/ call[d].rtp # "none")
  <2> SUFFICES ASSUME d # 0
               PROVE  /\ fresh \in CallType /\ fresh.response = call[d].response
                      /\ fresh.task = answered[d].task
                      /\ fresh.hooked = call[d].hooked /\ fresh.stop = call[d].stop
                      /\ fresh.on = call[d].on /\ fresh.rtp = "created"
                      /\ fresh.stray = (call[d].stray \/ call[d].rtp # "none")
    OBVIOUS
  <2> DEFINE k == answered[d]
             b == k.stray \/ call[d].rtp # "none"
  <2>1. /\ k \in CallType /\ k.response = call[d].response /\ k.hooked = call[d].hooked
        /\ k.stop = call[d].stop /\ k.on = call[d].on /\ k.stray = call[d].stray
    BY <1>3, <1>5 DEF Like
  <2>2. b \in BOOLEAN
    OBVIOUS
  <2>3. fresh = [k EXCEPT !.rtp = "created", !.stray = b]
    OBVIOUS
  <2> HIDE DEF k, b, fresh
  <2>4. /\ fresh \in CallType /\ fresh.response = k.response /\ fresh.task = k.task
        /\ fresh.hooked = k.hooked /\ fresh.stop = k.stop /\ fresh.on = k.on
        /\ fresh.rtp = "created" /\ fresh.stray = b
    <3>1. fresh \in CallType
      BY <2>1, <2>2, <2>3, ZenonT(60) DEF CallType
    <3> QED
      BY <2>1, <2>2, <2>3, <3>1 DEF CallType
  <2>5. k.task = answered[d].task /\ b = (k.stray \/ call[d].rtp # "none")
    BY DEF k, b
  <2>6. fresh.stray = (call[d].stray \/ call[d].rtp # "none")
    BY <2>1, <2>4, <2>5
  <2> QED
    BY <2>1, <2>4, <2>5, <2>6
<1> HIDE DEF fresh, d
<1>7. /\ call' \in [Calls -> CallType]
      /\ \A b \in Calls :
           /\ call'[b].response = call[b].response
           /\ call'[b].task = IF b = c THEN "done" ELSE call[b].task
           /\ call'[b].hooked = call[b].hooked /\ call'[b].stop = call[b].stop
           /\ call'[b].on = call[b].on
           /\ call'[b].rtp = IF b = d THEN "created" ELSE call[b].rtp
           /\ call[b].stray => call'[b].stray
           /\ call'[b].stray /\ ~call[b].stray => b = d /\ call[b].rtp # "none"
           /\ b > made => call'[b] = call[b]
  <2>1. CASE d = 0
    <3>1. \A b \in Calls : b # d
      BY <2>1, DomruAssumption DEF Calls
    <3> QED
      BY <1>4, <1>5, <2>1, <3>1 DEF Like
  <2>2. CASE d # 0
    <3>1. \A b \in Calls : call'[b] = IF b = d THEN fresh ELSE answered[b]
      BY <1>3, <1>4, <1>5, <2>2
    <3>2. call' \in [Calls -> CallType]
      BY <1>3, <1>4, <1>5, <1>6, <2>2
    <3>3. \A b \in Calls : b > made => b # d
      BY <1>1, <1>3, <2>2, DomruAssumption DEF Calls
    <3>4. ASSUME NEW b \in Calls
          PROVE  /\ call'[b].response = call[b].response
                 /\ call'[b].task = IF b = c THEN "done" ELSE call[b].task
                 /\ call'[b].hooked = call[b].hooked /\ call'[b].stop = call[b].stop
                 /\ call'[b].on = call[b].on
                 /\ call'[b].rtp = IF b = d THEN "created" ELSE call[b].rtp
                 /\ call[b].stray => call'[b].stray
                 /\ call'[b].stray /\ ~call[b].stray => b = d /\ call[b].rtp # "none"
                 /\ b > made => call'[b] = call[b]
      <4>1. CASE b = d
        BY <1>5, <1>6, <2>2, <3>1, <3>3, <4>1
      <4>2. CASE b # d
        BY <1>5, <3>1, <4>2 DEF Like
      <4> QED
        BY <4>1, <4>2
    <3> QED
      BY <3>2, <3>4
  <2> QED
    BY <2>1, <2>2
<1>8. SlotMatchesCall'
  BY <1>1, <1>7 DEF SlotMatchesCall, slot
<1>e. \A b \in Calls : b = d => b = current /\ call[b].stop \in {"no", "bye"}
  <2>1. \A b \in Calls : b # 0
    BY DomruAssumption DEF Calls
  <2> QED
    BY <1>3, <2>1
<1>9. Owned'
  BY <1>1, <1>7, <1>e DEF Owned, slot, Begun
<1>10. Waits'
  <2>1. \A b \in Calls : call[b].on # 0 => call[b].on \in Calls
    BY <1>1, FieldTypes
  <2>2. ASSUME NEW b \in Calls, call[b].stop = "raised" PROVE call'[b].rtp = call[b].rtp
    BY <1>1, <1>3, <1>7, <2>2, DomruAssumption DEF Calls
  <2> QED
    BY <1>7, <2>1, <2>2 DEF Waits
<1>11. Unborn'
  BY <1>1, <1>7 DEF Unborn
<1>12. audio[c].handler = "off"
  BY <1>1 DEF Started, TypeOK, AudioType
<1>13. /\ audio' \in [Calls -> AudioType]
       /\ \A b \in Calls : /\ audio'[b].handler = IF b = c THEN "loop" ELSE audio[b].handler
                           /\ audio'[b].held = audio[b].held
  <2> DEFINE a == [audio[c] EXCEPT !.handler = "loop"]
  <2>1. a \in AudioType /\ a.handler = "loop" /\ a.held = audio[c].held
    BY <1>1 DEF AudioType
  <2>2. handled = [audio EXCEPT ![c] = a]
    OBVIOUS
  <2> HIDE DEF a, handled
  <2>3. /\ handled \in [Calls -> AudioType]
        /\ \A b \in Calls : /\ handled[b].handler = IF b = c THEN "loop" ELSE audio[b].handler
                            /\ handled[b].held = audio[b].held
    BY <1>1, <2>1, <2>2
  <2>4. CASE d = 0
    BY <1>4, <2>3, <2>4
  <2>5. CASE d # 0
    <3> DEFINE e == [handled[d] EXCEPT !.stream = 0]
    <3>1. handled[d] \in AudioType /\ d \in Calls
      BY <1>3, <2>3, <2>5
    <3>2. e \in AudioType /\ e.handler = handled[d].handler /\ e.held = handled[d].held
      BY <3>1 DEF AudioType
    <3>3. audio' = [handled EXCEPT ![d] = e]
      BY <1>4, <2>5
    <3> HIDE DEF e
    <3> QED
      BY <2>3, <3>1, <3>2, <3>3
  <2> QED
    BY <2>4, <2>5
<1>14. \A b \in Calls : audio'[b].handler = "waiting" <=> audio'[b].held # 0
  BY <1>12, <1>13 DEF TypeOK
<1>15. Started' /\ Agreed' /\ StatusHasCall'
  BY <1>1, <1>7, <1>13 DEF Started, Agreed, StatusHasCall, slot
<1>16. CallStep
  <2>1. AnswerStep
    BY <1>1, <1>7, <1>e DEF AnswerStep, slot, HungUp
  <2>2. \A b \in Calls : b = d => b = current /\ AnswerGiven
    <3>1. \A b \in Calls : b # 0
      BY DomruAssumption DEF Calls
    <3> QED
      BY <1>1, <1>3, <1>7, <3>1 DEF AnswerGiven
  <2>3. SlotStep
    BY <1>1, <1>7, <2>2 DEF SlotStep, slot
  <2> QED
    BY <2>1, <2>3 DEF CallStep
<1>17. TypeOK'
  BY <1>1, <1>7, <1>13, <1>14 DEF TypeOK, account, sound, slot, Fits
<1> QED
  BY <1>1, <1>8, <1>9, <1>10, <1>11, <1>15, <1>16, <1>17 DEF Addressed

\* Each step of a delayed task keeps the invariant: answers, refusals and timeouts.
LEMMA DelayedStep ==
  ASSUME IInv, NEW c \in Calls, Delayed(c)
  PROVE  IInv' /\ CallStep
<1> USE DEF IInv
<1>1. call[c].task \in {"waiting", "accepting", "refusing"}
  BY DEF Delayed, AnswerTimeout, Respond, OkPasses, Answered, AnsweredWithoutCodec, OkSent,
         Refused
<1>2. c <= made
  BY <1>1, DomruAssumption DEF Unborn, NoCall, TypeOK, Calls
<1>3. /\ call \in [Calls -> CallType] /\ call[c] \in CallType
      /\ \A d \in Calls : Like(call[d], call[d])
  BY DEF TypeOK, Like
<1>5. \A x : Outcome(x) \in {"accepting", "refusing", "done"}
  BY DEF Outcome
<1>b. /\ Confirmed(c) \in [Calls -> CallType]
      /\ \A d \in Calls : /\ Like(Confirmed(c)[d], call[d])
                          /\ Confirmed(c)[d].response = call[d].response
                          /\ Confirmed(c)[d].task = call[d].task
                          /\ d > made => Confirmed(c)[d] = call[d]
  <2>1. \A d \in Calls : d > made => d \notin Same(c)
    BY DomruAssumption DEF Same, TypeOK, Calls
  <2> QED
    BY <2>1, ConfirmedType
<1>6. CASE AnswerTimeout(c)
  <2> DEFINE o == Outcome("timeout")
             r == [call[c] EXCEPT !.response = "timeout", !.task = o]
  <2>o. o \in {"accepting", "refusing", "done"} /\ o # "accepting"
    BY <1>5 DEF Outcome
  <2>2. call' = [call EXCEPT ![c] = r] /\ call[c].response = "pending"
    BY <1>6 DEF AnswerTimeout
  <2> HIDE DEF o
  <2>1. Like(r, call[c]) /\ r.task = o
    <3> DEFINE k == call[c]
    <3>1. r = [k EXCEPT !.response = "timeout", !.task = o] /\ k \in CallType
      BY <1>3
    <3> HIDE DEF r, k
    <3>2. r \in CallType
      BY <2>o, <3>1, ZenonT(60) DEF CallType
    <3>3. Like(r, k) /\ r.task = o
      BY <2>o, <3>1, <3>2 DEF CallType, Like
    <3> QED
      BY <3>3 DEF k
  <2>a. r.task # "accepting"
    BY <2>o, <2>1
  <2> HIDE DEF r
  <2>3. Heard(call') /\ SameOn(call')
    BY <1>1, <1>2, <1>3, <2>1, <2>2, <2>a, ReplacedHeard
  <2>4. CallPart' /\ CallStep
    BY <1>6, <2>3, HeardKeeps DEF AnswerTimeout, sound
  <2> QED
    BY <1>6, <2>4, AsideKeeps DEF AnswerTimeout, Aside, sound
<1>7. CASE Respond(c)
  <2> DEFINE o == Outcome(call[c].response)
             r == [call[c] EXCEPT !.task = o]
  <2>2. call' = [call EXCEPT ![c] = r]
    BY <1>7 DEF Respond
  <2>b. call[c].response \in {"none", "pending", "ACCEPT", "REJECT", "BUSY", "cancelled", "timeout"}
    BY <1>3 DEF CallType
  <2>o. /\ o \in {"accepting", "refusing", "done"}
        /\ o = "accepting" => call[c].response = "ACCEPT"
    BY <1>5, <2>b DEF Outcome
  <2> HIDE DEF o
  <2>1. Like(r, call[c]) /\ r.response = call[c].response /\ r.task = o
    BY <1>3, <2>o, TaskType
  <2>a. r.task = "accepting" => r.response = "ACCEPT"
    BY <2>1, <2>o
  <2> HIDE DEF r
  <2>3. Heard(call') /\ SameOn(call')
    BY <1>1, <1>2, <1>3, <2>1, <2>2, <2>a, ReplacedHeard
  <2>4. CallPart' /\ CallStep
    BY <1>7, <2>3, HeardKeeps DEF Respond, sound
  <2> QED
    BY <1>7, <2>4, AsideKeeps DEF Respond, Aside, sound
<1>8. CASE AnsweredWithoutCodec(c)
  <2> DEFINE r == [Confirmed(c)[c] EXCEPT !.task = "done"]
  <2>1. Like(r, Confirmed(c)[c]) /\ r.response = Confirmed(c)[c].response /\ r.task = "done"
    BY <1>b, TaskType
  <2>2. call' = [Confirmed(c) EXCEPT ![c] = r]
    BY <1>8 DEF AnsweredWithoutCodec
  <2> HIDE DEF r
  <2>3. r.response = call[c].response
    BY <1>b, <2>1
  <2>4. Heard(call') /\ SameOn(call')
    BY <1>2, <1>b, <2>1, <2>2, <2>3, ReplacedHeard
  <2>5. CallPart' /\ CallStep
    BY <1>8, <2>4, HeardKeeps DEF AnsweredWithoutCodec, sound
  <2> QED
    BY <1>8, <2>5, AsideKeeps DEF AnsweredWithoutCodec, Aside, sound
<1>c. CASE OkPasses(c)
  <2> DEFINE k == Confirmed(c)[c]
             r == [k EXCEPT !.past = @ + 1]
  <2>1. /\ call' = [Confirmed(c) EXCEPT ![c] = r] /\ call[c].task = "accepting"
        /\ call[c].past + 1 < clients
    BY <1>c DEF OkPasses
  <2>2. k \in CallType /\ k.past = call[c].past /\ call[c].past \in 0..MaxClients
    <3>1. call[c].past \in 0..MaxClients
      BY <1>3 DEF CallType
    <3> QED
      BY <3>1, ConfirmedType
  <2>3. k.past + 1 \in 0..MaxClients
    <3>1. clients \in 1..MaxClients
      BY DEF TypeOK
    <3> HIDE DEF k
    <3> QED
      BY <2>1, <2>2, <3>1, DomruAssumption
  <2>4. Like(r, k) /\ r.response = k.response /\ r.task = k.task
    <3> HIDE DEF k
    <3> QED
      BY <2>2, <2>3, PastType
  <2> HIDE DEF r
  <2>5. r.response = call[c].response /\ r.task = call[c].task
    BY <1>b, <2>4
  <2>6. r.response = "ACCEPT"
    BY <2>1, <2>5 DEF Agreed
  <2>7. Heard(call') /\ SameOn(call')
    BY <1>2, <1>b, <2>1, <2>4, <2>5, <2>6, ReplacedHeard
  <2>8. CallPart' /\ CallStep
    BY <1>c, <2>7, HeardKeeps DEF OkPasses, sound
  <2> QED
    BY <1>c, <2>8, AsideKeeps DEF OkPasses, Aside, sound
<1>9. CASE Refused(c)
  <2> DEFINE over == IF call[c].response = "REJECT" THEN "ENDED" ELSE "BUSY"
             r == [call[c] EXCEPT !.task = "done", !.state = over]
             calls == [call EXCEPT ![c] = r]
  <2>1. Like(r, call[c]) /\ r.response = call[c].response /\ r.task = "done"
    <3>1. over \in {"ANSWERED", "ENDED", "BUSY"}
      OBVIOUS
    <3> HIDE DEF over
    <3> QED
      BY <1>3, <3>1, RepliedType, ZenonT(60)
  <2>2. Stop(calls, c)
    BY <1>9 DEF Refused
  <2> HIDE DEF r
  <2>3. Heard(calls) /\ SameOn(calls)
    BY <1>2, <1>3, <2>1, ReplacedHeard
  <2> HIDE DEF calls
  <2>4. Gives(calls, c)
    BY <2>2, <2>3, StopGives DEF Heard
  <2>5. CallPart' /\ CallStep
    BY <1>2, <1>9, <2>3, <2>4, GivesKeeps DEF Refused, OnKept, SameOn
  <2> QED
    BY <1>9, <2>5, AsideKeeps DEF Refused, Aside
<1> QED
  BY <1>6, <1>7, <1>8, <1>9, <1>c, AnsweredStep DEF Delayed
-----------------------------------------------------------------------------
\* A call that a late 100 Trying moved to DIALING.
LEMMA DialingType ==
  ASSUME NEW k \in CallType, NEW r, r = [k EXCEPT !.state = "DIALING"]
  PROVE  Like(r, k) /\ r.response = k.response /\ r.task = k.task
  BY DEF CallType, Like

\* A call whose answer was set.
LEMMA ResponseType ==
  ASSUME NEW k \in CallType, NEW x \in {"ACCEPT", "REJECT", "cancelled"},
         NEW r, r = [k EXCEPT !.response = x]
  PROVE  Like(r, k) /\ r.response = x /\ r.task = k.task
  BY DEF CallType, Like

\* Setting an answer that was still pending.
LEMMA AnsweringHeard ==
  ASSUME IInv, NEW c \in Calls, call[c].response = "pending",
         NEW x \in {"ACCEPT", "REJECT", "cancelled"}
  PROVE  /\ c <= made
         /\ Heard([call EXCEPT ![c].response = x]) /\ SameOn([call EXCEPT ![c].response = x])
<1> DEFINE r == [call[c] EXCEPT !.response = x]
<1>1. /\ call \in [Calls -> CallType] /\ call[c] \in CallType
      /\ \A d \in Calls : Like(call[d], call[d])
  BY DEF IInv, TypeOK, Like
<1>2. Like(r, call[c]) /\ r.response = x /\ r.task = call[c].task
  BY <1>1, ResponseType
<1> HIDE DEF r
<1>3. c <= made
  BY DomruAssumption DEF IInv, Unborn, NoCall, TypeOK, Calls
<1>4. call[c].task # "accepting"
  BY DEF IInv, Agreed
<1>5. [call EXCEPT ![c].response = x] = [call EXCEPT ![c] = r]
  BY DEF r
<1>6. Heard([call EXCEPT ![c] = r]) /\ SameOn([call EXCEPT ![c] = r])
  BY <1>1, <1>2, <1>3, <1>4, ReplacedHeard
<1> QED
  BY <1>3, <1>5, <1>6

\* What the receive task may hold while there are n calls and k SipClients.
RcvType(n, k) ==
  [at: {"idle", "invite", "created", "trying", "bye", "cancel", "dead"},
   id: Ids \cup {0}, next: Nat, on: 0..n, heard: Nat, behind: 0..k, past: 0..k]

\* A step of the receive task that keeps CallPart and holds a message within bounds
\* keeps the invariant.
LEMMA RcvKeeps ==
  ASSUME IInv, CallPart', UNCHANGED <<made, api, account, audio, streams, finished>>,
         rcv' \in RcvType(made, clients),
         rcv'.at \in {"created", "trying"} => rcv'.next \in 1..clients,
         rcv'.at = "created" => rcv'.past < clients,
         rcv'.at = "invite" => rcv'.next \in 1..(clients + 1),
         rcv'.at \in {"invite", "created", "trying"} =>
           made + clients + 1 - rcv'.next <= MaxCalls,
         rcv'.at \in {"invite", "created", "trying", "bye"} => rcv'.id \in Ids
  PROVE  IInv'
<1>1. TypeOK'
  BY DEF IInv, CallPart, TypeOK, account, Fits, RcvType
<1> QED
  BY <1>1 DEF IInv, CallPart, Addressed

\* Nothing changes but the message that is handled.
LEMMA SameHeard ==
  ASSUME IInv, UNCHANGED <<call, made, slot, audio, streams, open, finished>>
  PROVE  CallPart' /\ CallStep
<1>1. Heard(call') /\ SameOn(call')
  BY DEF IInv, Heard, SameOn, Alike, Agreed, TypeOK
<1> QED
  BY <1>1, HeardKeeps

\* A BYE or a CANCEL that visits a call keeps the invariant, whether it ends it or not.
LEMMA ReachesStep ==
  ASSUME IInv, NEW c \in Calls, Reaches(c)
  PROVE  IInv' /\ CallStep
<1> USE DEF IInv
<1> DEFINE j == IF call[c].stop = "no" THEN c ELSE 0
<1>1. /\ c <= made /\ rcv.at \in {"bye", "cancel"} /\ Concerns(c)
      /\ UNCHANGED <<made, api, account, audio, streams, finished>>
      /\ rcv' = [rcv EXCEPT !.next = c + 1, !.on = j]
  <2>1. c \in rcv.next..made
    BY DEF Reaches, Visits
  <2> QED
    BY <2>1, DomruAssumption DEF Reaches, Visits, TypeOK, Calls
<1>2. /\ rcv' \in RcvType(made, clients) /\ rcv'.at = rcv.at /\ rcv'.id = rcv.id
  <2>1. rcv \in RcvType(made, clients) /\ c + 1 \in Nat /\ j \in 0..made
    <3>1. rcv \in RcvType(made, clients)
      BY DEF TypeOK, RcvType
    <3> QED
      BY <1>1, <3>1, Counts
  <2> HIDE DEF j
  <2> QED
    BY <1>1, <2>1 DEF RcvType
<1> HIDE DEF j
<1>3. CallPart' /\ CallStep
  <2>1. Stop(AfterOk(c), c)
    BY DEF Reaches
  <2>2. Heard(AfterOk(c)) /\ SameOn(AfterOk(c))
    <3>1. CASE rcv.at = "bye"
      <4>1. Heard(ByeHeard(Same(c))) /\ SameOn(ByeHeard(Same(c)))
        BY SameHearBye
      <4> QED
        BY <3>1, <4>1 DEF AfterOk
    <3>2. CASE rcv.at # "bye"
      <4>1. call[c].response = "pending"
        BY <1>1, <3>2 DEF Concerns
      <4> QED
        BY <3>2, <4>1, AnsweringHeard DEF AfterOk
    <3> QED
      BY <3>1, <3>2
  <2>3. Gives(AfterOk(c), c)
    BY <2>1, <2>2, StopGives DEF Heard
  <2>4. OnKept(AfterOk(c))
    BY <2>2 DEF OnKept, SameOn
  <2> QED
    BY <1>1, <2>2, <2>3, <2>4, GivesKeeps
<1>4. IInv'
  BY <1>1, <1>2, <1>3, RcvKeeps DEF Addressed
<1> QED
  BY <1>3, <1>4

\* A new SipCall takes the free slot or leaves it alone.
LEMMA RingStep ==
  ASSUME IInv, Ring
  PROVE  IInv' /\ CallStep
<1> USE DEF IInv
<1> DEFINE takes == rcv.heard > 0 /\ TakesSlot
           answer == IF rcv.heard = 0 \/ (takes /\ rcv.heard = 1) THEN "pending" ELSE "BUSY"
           new == [NoCall EXCEPT !.id = rcv.id, !.state = "RINGING", !.task = "waiting",
                                 !.response = answer, !.hooked = takes, !.behind = rcv.behind]
<1>1. /\ rcv.at = "trying" /\ made' = made + 1
      /\ call' = [call EXCEPT ![made'] = new]
      /\ IF takes THEN current' = made' /\ status' = 1 ELSE UNCHANGED <<current, status>>
      /\ rcv' = [Message("invite", rcv.id) EXCEPT !.next = rcv.next + 1]
      /\ UNCHANGED <<uplink, api, account, audio, sound>>
  BY DEF Ring
<1>2. /\ made' \in Calls /\ made \in Nat /\ made' > made /\ made' # 0
      /\ rcv.next \in 1..clients /\ rcv.id \in Ids
      /\ clients \in 1..MaxClients /\ rcv.behind \in 0..MaxClients
  <2>1. /\ made \in 0..MaxCalls /\ clients \in 1..MaxClients /\ rcv.next \in 1..clients
        /\ made + clients + 1 - rcv.next <= MaxCalls /\ rcv.behind \in 0..clients
    BY <1>1 DEF TypeOK, Fits
  <2>2. rcv.id \in Ids
    BY <1>1 DEF Addressed
  <2>3. made \in Nat /\ clients \in Nat /\ rcv.next \in Nat /\ MaxCalls \in Nat
    BY <2>1, DomruAssumption
  <2>4. made + 1 \in 1..MaxCalls
    BY <2>1, <2>3
  <2>5. rcv.behind \in 0..MaxClients
    BY <2>1, DomruAssumption
  <2> QED
    BY <1>1, <2>1, <2>2, <2>3, <2>4, <2>5 DEF Calls
<1>3. /\ new.stop = "no" /\ new.rtp = "none" /\ new.hooked = takes /\ new.on = 0
      /\ new.task = "waiting" /\ new.stray = FALSE /\ new \in CallType
  <2>1. answer \in {"pending", "BUSY"} /\ rcv.id \in Ids /\ rcv.behind \in 0..MaxClients
    BY <1>2
  <2>2. takes \in BOOLEAN /\ 0 \in 0..MaxCalls /\ 0 \in 0..MaxClients
    BY DomruAssumption
  <2> HIDE DEF answer, takes
  <2>3. NoCall \in CallType
    BY <2>2 DEF NoCall, CallType
  <2>4. new \in CallType
    BY <2>1, <2>2, <2>3, ZenonT(60) DEF CallType
  <2>5. /\ new.stop = NoCall.stop /\ new.rtp = NoCall.rtp /\ new.hooked = takes
        /\ new.on = NoCall.on /\ new.task = "waiting" /\ new.stray = NoCall.stray
    BY <2>3 DEF CallType
  <2> QED
    BY <2>4, <2>5 DEF NoCall
<1> HIDE DEF new
<1>4. /\ call' \in [Calls -> CallType]
      /\ \A d \in Calls : call'[d] = IF d = made + 1 THEN new ELSE call[d]
  BY <1>1, <1>2, <1>3 DEF TypeOK
<1>5. call[made + 1] = NoCall /\ made + 1 \in Calls
  BY <1>1, <1>2 DEF Unborn
<1>6. takes => current = 0
  BY DEF TakesSlot
<1> HIDE DEF takes
<1>7. SlotMatchesCall'
  <2>1. current \in 0..made
    BY DEF TypeOK
  <2>2. current # made' /\ made' = made + 1 /\ made' # 0
    BY <1>1, <1>2, <2>1
  <2>3. current' = IF takes THEN made' ELSE current
    BY <1>1
  <2>4. ASSUME NEW d \in Calls
        PROVE  (current' = d) <=> (call'[d].hooked /\ call'[d].stop \in {"no", "bye"})
    <3>1. CASE d = made'
      <4>1. call'[d].hooked = takes /\ call'[d].stop = "no"
        BY <1>3, <1>4, <2>2, <3>1
      <4> QED
        BY <2>2, <2>3, <3>1, <4>1
    <3>2. CASE d # made'
      <4>1. call'[d] = call[d]
        BY <1>4, <2>2, <3>2
      <4>2. d \in Calls => d # 0
        BY DomruAssumption DEF Calls
      <4>3. (current' = d) <=> (current = d)
        BY <1>6, <2>3, <3>2, <4>2
      <4> QED
        BY <4>1, <4>3 DEF SlotMatchesCall
    <3> QED
      BY <3>1, <3>2
  <2> QED
    BY <2>4 DEF SlotMatchesCall
<1>8. Owned'
  <2>1. made + 1 # 0 /\ current # made + 1
    BY Counts
  <2>2. current' = IF takes THEN made + 1 ELSE current
    BY <1>1
  <2>3. ASSUME NEW d \in Calls
        PROVE  /\ call'[d].rtp \in Begun => d = current' \/ call'[d].stop = "raised"
               /\ call'[d].rtp = "closing" <=> call'[d].stop = "join"
               /\ call'[d].rtp = "stopped" => call'[d].stop = "done"
    <3>1. CASE d = made + 1
      <4>1. call'[d].rtp = "none" /\ call'[d].stop = "no"
        BY <1>3, <1>4, <3>1
      <4> QED
        BY <4>1 DEF Begun
    <3>2. CASE d # made + 1
      <4>1. call'[d] = call[d]
        BY <1>4, <3>2
      <4>2. d = current => d = current'
        <5>1. d # 0
          BY Counts
        <5> QED
          BY <1>6, <2>2, <5>1
      <4> QED
        BY <4>1, <4>2 DEF Owned
    <3> QED
      BY <3>1, <3>2
  <2> QED
    BY <2>3 DEF Owned
<1>w. Waits'
  <2>1. \A d \in Calls : call[d].on # 0 => call[d].on \in Calls
    BY FieldTypes DEF TypeOK
  <2>2. \A d \in Calls : call[d].on # 0 /\ call[call[d].on].stop # "no" => call[d].on # made + 1
    BY <1>5 DEF NoCall
  <2> QED
    BY <1>3, <1>4, <2>1, <2>2 DEF Waits
<1>9. Unborn'
  BY <1>1, <1>2, <1>4, Counts DEF Unborn
<1>10. Started'
  <2>1. audio[made + 1].handler = "off"
    BY <1>1, <1>2, <1>5 DEF Started, NoCall
  <2> QED
    BY <1>1, <1>4, <2>1 DEF Started
<1>11. StatusHasCall'
  BY <1>1, <1>2 DEF StatusHasCall
<1>a. Agreed'
  BY <1>3, <1>4 DEF Agreed
<1>12. CallStep
  <2>0. /\ NoCall.response = "none" /\ NoCall.stop = "no" /\ ~NoCall.hooked
        /\ NoCall.rtp = "none" /\ ~NoCall.stray /\ NoCall.task # "done"
    BY DEF NoCall
  <2>1. AnswerStep
    <3>1. ASSUME NEW d \in Calls, d # made + 1
          PROVE  call'[d] = call[d] /\ (current' = d => current = d)
      BY <1>1, <1>4, <3>1
    <3>2. call[made + 1].response = "none" /\ call[made + 1].stop \notin HungUp
      BY <1>5, <2>0 DEF HungUp
    <3> QED
      BY <3>1, <3>2 DEF AnswerStep
  <2>2. SlotStep
    <3>1. ASSUME NEW d \in Calls, d # made + 1 PROVE call'[d] = call[d]
      BY <1>4, <3>1
    <3>2. /\ call[made + 1].stop \notin HungUp /\ ~call[made + 1].hooked
          /\ call[made + 1].rtp = "none" /\ ~call[made + 1].stray
          /\ call[made + 1].task # "done"
      BY <1>5, <2>0 DEF HungUp
    <3>3. call'[made + 1] = new
      BY <1>4, <1>5
    <3>4. takes => current = 0 /\ current' = made + 1
      BY <1>1, <1>6
    <3> QED
      BY <1>3, <3>1, <3>2, <3>3, <3>4 DEF SlotStep
  <2> QED
    BY <2>1, <2>2 DEF CallStep
<1>13. /\ rcv' \in RcvType(made', clients') /\ rcv'.at = "invite" /\ rcv'.id = rcv.id
       /\ rcv'.next = rcv.next + 1
  <2>1. rcv.next + 1 \in Nat /\ 0 \in 0..made' /\ 0 \in 0..clients' /\ 0 \in Nat
    BY <1>1, <1>2, DomruAssumption DEF account
  <2>2. rcv' = [at |-> "invite", id |-> rcv.id, next |-> rcv.next + 1, on |-> 0,
                heard |-> 0, behind |-> 0, past |-> 0]
    BY <1>1 DEF Message, Idle
  <2> QED
    BY <1>2, <2>1, <2>2 DEF RcvType
<1>14. /\ made' \in 0..MaxCalls /\ current' \in 0..made' /\ status' \in {-1, 0, 1}
  BY <1>1, <1>2, Counts
<1>15. \A h \in Callers : api'[h].call \in 0..made'
  BY <1>1, <1>2 DEF TypeOK
<1>16. api' \in [Callers -> [at: {"idle", "hangup", "register"}, call: 0..made']]
  BY <1>1, <1>2 DEF TypeOK
<1>17. TypeOK'
  <2>1. rcv'.next \in 1..(clients' + 1)
    BY <1>1, <1>2, <1>13 DEF account
  <2>2. Fits(clients)'
    <3>1. made + clients + 1 - rcv.next <= MaxCalls
      BY <1>1 DEF TypeOK, Fits
    <3>2. made' + clients' + 1 - rcv'.next = made + clients + 1 - rcv.next
      BY <1>1, <1>2, <1>13 DEF account
    <3> QED
      BY <3>1, <3>2 DEF Fits
  <2> QED
    BY <1>1, <1>4, <1>13, <1>14, <1>16, <2>1, <2>2 DEF TypeOK, account, sound, RcvType
<1>18. Addressed'
  BY <1>2, <1>13 DEF Addressed
<1> QED
  BY <1>7, <1>8, <1>w, <1>9, <1>10, <1>11, <1>12, <1>17, <1>18, <1>a

\* The 100 Trying that loops back touches no call that the slot depends on.
LEMMA TryingStep ==
  ASSUME IInv, Trying
  PROVE  IInv' /\ CallStep
<1> USE DEF IInv
<1>1. /\ rcv.at = "created" /\ rcv.id \in Ids /\ rcv.next \in 1..clients
      /\ rcv.past < clients /\ rcv \in RcvType(made, clients) /\ clients \in Nat
      /\ made + clients + 1 - rcv.next <= MaxCalls
  BY DomruAssumption DEF Trying, TypeOK, Addressed, Fits, RcvType
<1>2. ASSUME NEW d \in Calls
      PROVE  /\ Like(call'[d], call[d]) /\ call'[d].response = call[d].response
             /\ call'[d].task = call[d].task
             /\ d > made => call'[d] = call[d]
  <2>1. call[d] \in CallType /\ (d > made => call[d].id = 0)
    BY DEF TypeOK, Unborn, NoCall
  <2>2. \/ call'[d] = call[d]
        \/ call'[d] = [call[d] EXCEPT !.state = "DIALING"] /\ call[d].id = rcv.id
    BY DEF Trying
  <2>3. Like(call[d], call[d])
    BY <2>1 DEF Like
  <2> QED
    BY <1>1, <2>1, <2>2, <2>3, DialingType, DomruAssumption
<1>3. call' \in [Calls -> CallType]
  <2>1. call' = [d \in Calls |-> call'[d]]
    BY DEF Trying
  <2> QED
    BY <1>2, <2>1 DEF Like
<1>4. Heard(call') /\ SameOn(call')
  BY <1>2, <1>3 DEF Heard, SameOn, Alike, Agreed, Like
<1>5. CallPart' /\ CallStep
  BY <1>4, HeardKeeps DEF Trying, sound
<1>6. /\ rcv' \in RcvType(made, clients) /\ rcv'.id = rcv.id /\ rcv'.next = rcv.next
      /\ rcv'.past = rcv.past + 1
      /\ rcv'.at = IF rcv.past + 1 < clients THEN "created" ELSE "trying"
  <2> DEFINE a == IF rcv.past + 1 < clients THEN "created" ELSE "trying"
             p == rcv.past + 1
  <2>1. rcv' = [rcv EXCEPT !.at = a, !.past = p]
    BY DEF Trying
  <2>2. a \in {"created", "trying"} /\ p \in 0..clients
    BY <1>1 DEF RcvType
  <2> HIDE DEF a, p
  <2>3. /\ rcv' \in RcvType(made, clients) /\ rcv'.id = rcv.id /\ rcv'.next = rcv.next
        /\ rcv'.past = p /\ rcv'.at = a
    BY <1>1, <2>1, <2>2 DEF RcvType
  <2> QED
    BY <2>3 DEF a, p
<1>7. rcv'.at = "created" => rcv'.past < clients
  BY <1>6
<1>8. IInv'
  BY <1>1, <1>5, <1>6, <1>7, RcvKeeps DEF Trying, sound
<1> QED
  BY <1>5, <1>8

\* Each step of the receive task keeps the invariant.
LEMMA ReceivingStep ==
  ASSUME IInv, Receiving
  PROVE  IInv' /\ CallStep
<1> USE DEF IInv
<1>t. rcv \in RcvType(made, clients) /\ made \in Nat /\ clients \in Nat
  BY DomruAssumption DEF TypeOK, RcvType
<1>1. CASE Creates
  <2>1. /\ rcv.at = "invite" /\ rcv.next <= clients /\ rcv.id \in Ids
        /\ rcv.next \in 1..(clients + 1) /\ made + clients + 1 - rcv.next <= MaxCalls
        /\ rcv' = [rcv EXCEPT !.at = "created", !.heard = listening[rcv.next],
                              !.behind = clients, !.past = 0]
        /\ UNCHANGED <<call, made, slot, api, account, audio, sound>>
    BY <1>1 DEF Creates, TypeOK, Addressed, Fits
  <2>2. rcv.next \in 1..clients /\ 0 \in 0..clients /\ clients \in 0..clients /\ 0 < clients
    BY <1>t, <2>1
  <2>3. listening[rcv.next] \in Nat
    BY <2>2, DomruAssumption DEF TypeOK
  <2>4. /\ rcv' \in RcvType(made, clients) /\ rcv'.at = "created" /\ rcv'.id = rcv.id
        /\ rcv'.next = rcv.next /\ rcv'.past = 0
    <3> DEFINE n == listening[rcv.next]
    <3>1. rcv' = [rcv EXCEPT !.at = "created", !.heard = n, !.behind = clients, !.past = 0]
          /\ n \in Nat
      BY <2>1, <2>3
    <3> HIDE DEF n
    <3>2. rcv' = [at |-> "created", id |-> rcv.id, next |-> rcv.next, on |-> rcv.on,
                  heard |-> n, behind |-> clients, past |-> 0]
      BY <1>t, <3>1 DEF RcvType
    <3> QED
      BY <1>t, <2>2, <3>1, <3>2 DEF RcvType
  <2>5. CallPart' /\ CallStep
    BY <2>1, SameHeard DEF sound
  <2> QED
    BY <2>1, <2>2, <2>4, <2>5, RcvKeeps DEF sound
<1>2. CASE MessageDone \/ ReceiverDies
  <2>1. /\ UNCHANGED <<call, made, slot, api, account, audio, sound>>
        /\ rcv' = Idle \/ rcv' = [Idle EXCEPT !.at = "dead"]
    BY <1>2 DEF MessageDone, ReceiverDies
  <2>2. rcv' \in RcvType(made, clients) /\ rcv'.at \in {"idle", "dead"}
    <3>1. 0 \in 0..made /\ 0 \in 0..clients /\ 0 \in Nat
      BY <1>t
    <3> QED
      BY <2>1, <3>1 DEF Idle, RcvType
  <2>3. CallPart' /\ CallStep
    BY <2>1, SameHeard DEF sound
  <2> QED
    BY <2>1, <2>2, <2>3, RcvKeeps DEF sound
<1> QED
  BY <1>1, <1>2, TryingStep, RingStep, ReachesStep DEF Receiving

\* A message that the receive task takes up changes nothing else yet.
LEMMA NetworkStep ==
  ASSUME IInv, Network
  PROVE  IInv' /\ CallStep
<1> USE DEF IInv
<1>1. /\ \E a \in {"invite", "bye", "cancel"}, i \in Ids \cup {0} :
           /\ rcv' = Message(a, i)
           /\ a # "cancel" => i \in Ids
           /\ a = "invite" => made + clients <= MaxCalls
      /\ UNCHANGED <<call, made, slot, api, account, audio, sound>>
  <2>1. CASE Cancel
    BY <2>1 DEF Cancel
  <2> QED
    BY <2>1 DEF Network, Invite, Bye
<1>2. CallPart' /\ CallStep
  BY <1>1, SameHeard DEF sound
<1>3. PICK a \in {"invite", "bye", "cancel"}, i \in Ids \cup {0} :
           /\ rcv' = Message(a, i)
           /\ a # "cancel" => i \in Ids
           /\ a = "invite" => made + clients <= MaxCalls
  BY <1>1
<1>4. rcv' \in RcvType(made, clients) /\ rcv'.at = a /\ rcv'.id = i /\ rcv'.next = 1
  <2>1. 0 \in 0..made /\ 0 \in 0..clients /\ 0 \in Nat /\ 1 \in Nat
    BY DomruAssumption DEF TypeOK
  <2>2. rcv' = [at |-> a, id |-> i, next |-> 1, on |-> 0, heard |-> 0, behind |-> 0,
                past |-> 0]
    BY <1>3 DEF Message, Idle
  <2> QED
    BY <2>1, <2>2 DEF RcvType
<1>5. 1 \in 1..(clients + 1) /\ (a = "invite" => made + clients + 1 - 1 <= MaxCalls)
  BY <1>3, DomruAssumption DEF TypeOK
<1> QED
  BY <1>1, <1>2, <1>3, <1>4, <1>5, RcvKeeps DEF sound

\* What a connection handler does before its request suspends keeps the invariant.
LEMMA RequestsStep ==
  ASSUME IInv, NEW h \in Callers, Requests(h)
  PROVE  IInv' /\ CallStep
<1> USE DEF IInv
<1>0. /\ Heard(call) /\ SameOn(call) /\ made \in Nat /\ current \in 0..made
      /\ streams \in Nat
  BY DomruAssumption DEF Heard, SameOn, Alike, Agreed, TypeOK
<1>a. current # 0 => current \in Calls /\ current <= made
  BY <1>0, DomruAssumption DEF TypeOK, Calls
<1>1. CASE StopCalls(h)
  <2>1. CASE call[current].stop = "no"
    <3>1. Stop(call, current) /\ current # 0
      BY <1>1, <2>1 DEF StopCalls
    <3>2. Gives(call, current)
      BY <1>0, <1>a, <3>1, StopGives DEF Heard
    <3>3. CallPart' /\ CallStep
      BY <1>0, <1>1, <1>a, <3>1, <3>2, GivesKeeps DEF StopCalls, OnKept, SameOn
    <3>4. api' \in [Callers -> [at: {"idle", "hangup", "register"}, call: 0..made]]
      BY <1>0, <1>1, <1>a, <2>1, <3>1 DEF StopCalls, TypeOK
    <3> QED
      BY <1>1, <3>3, <3>4 DEF StopCalls, CallPart, TypeOK, Addressed, account, Fits
  <2>2. CASE call[current].stop # "no"
    <3>1. status' = 0 /\ UNCHANGED <<call, current, uplink, open, api>>
      BY <1>1, <2>2 DEF StopCalls
    <3>2. SlotMatchesCall' /\ Owned' /\ Waits'
      BY <1>0, <1>1, <3>1, AlikeKeeps DEF Heard, StopCalls
    <3> QED
      BY <1>1, <3>1, <3>2
      DEF StopCalls, TypeOK, Addressed, account, Fits, StatusHasCall, Unborn, Started, Agreed, CallStep, AnswerStep, SlotStep
  <2> QED
    BY <2>1, <2>2
<1>2. CASE DeclineCall(h) \/ AcceptCall(h)
  <2>1. /\ current # 0
        /\ \/ call' = call
           \/ \E x \in {"ACCEPT", "REJECT"} :
                /\ call' = [call EXCEPT ![current].response = x]
                /\ call[current].response = "pending"
        /\ UNCHANGED <<made, current, rcv, api, account, finished>>
    BY <1>2 DEF DeclineCall, AcceptCall, Answerable, sound
  <2>2. Heard(call') /\ SameOn(call')
    <3>1. CASE call' = call
      BY <1>0, <3>1
    <3>2. ASSUME NEW x \in {"ACCEPT", "REJECT"},
                 call' = [call EXCEPT ![current].response = x],
                 call[current].response = "pending"
          PROVE  Heard(call') /\ SameOn(call')
      BY <1>a, <2>1, <3>2, AnsweringHeard
    <3> QED
      BY <2>1, <3>1, <3>2
  <2>3. SlotMatchesCall' /\ Owned' /\ Waits'
    BY <2>1, <2>2, AlikeKeeps DEF Heard
  <2>4. Unborn' /\ CallStep /\ call' \in [Calls -> CallType]
    BY <2>1, <2>2 DEF Unborn, CallStep, AnswerStep, SlotStep, Heard, Alike
  <2>5. CASE DeclineCall(h)
    <3>1. status' = 0 /\ UNCHANGED <<uplink, audio, streams, open>>
      BY <2>5 DEF DeclineCall, sound
    <3> QED
      BY <2>1, <2>2, <2>3, <2>4, <3>1
      DEF TypeOK, Addressed, account, Fits, StatusHasCall, Started, Agreed, Heard
  <2>6. CASE AcceptCall(h)
    <3>1. /\ streams' = streams + 1 /\ open' = open \cup {streams'} /\ uplink' = streams'
          /\ streams' \in 0..MaxUplinks /\ streams' \in Uplinks
          /\ audio' = [audio EXCEPT ![current].queue = Append(@, streams')]
          /\ status' = status
      BY <1>0, <2>6, Counts DEF AcceptCall
    <3>2. /\ open' \subseteq 1..streams' /\ finished' \subseteq (1..streams') \ open'
          /\ uplink' \in 0..streams'
      BY <1>0, <2>1, <3>1, Counts
    <3>3. /\ audio' \in [Calls -> AudioType]
          /\ \A d \in Calls : /\ audio'[d].handler = audio[d].handler
                              /\ audio'[d].held = audio[d].held
      <4>1. audio[current].queue \in Seq(Uplinks)
        BY <1>a, <2>1 DEF TypeOK, AudioType
      <4>2. Append(audio[current].queue, streams') \in Seq(Uplinks)
        BY <3>1, <4>1
      <4> DEFINE q == Append(audio[current].queue, streams')
                 a == [audio[current] EXCEPT !.queue = q]
      <4>3. a \in AudioType /\ a.handler = audio[current].handler /\ a.held = audio[current].held
        <5>1. q \in Seq(Uplinks) /\ audio[current] \in AudioType
          BY <1>a, <2>1, <4>2 DEF TypeOK
        <5> HIDE DEF q
        <5> QED
          BY <5>1 DEF AudioType
      <4>4. audio' = [audio EXCEPT ![current] = a]
        BY <3>1
      <4> HIDE DEF a
      <4> QED
        BY <1>a, <2>1, <4>3, <4>4 DEF TypeOK
    <3> QED
      BY <2>1, <2>2, <2>3, <2>4, <3>1, <3>2, <3>3, SMTT(30)
      DEF TypeOK, Addressed, account, Fits, StatusHasCall, Started, Agreed, Heard
  <2> QED
    BY <1>2, <2>5, <2>6
<1>3. CASE Register(h)
  <2>1. /\ clients' = clients + 1 /\ clients < MaxClients /\ Fits(clients + 1)
        /\ api' = [api EXCEPT ![h] = [at |-> "register", call |-> 0]]
        /\ UNCHANGED <<call, made, slot, rcv, registered, listening, audio, sound>>
    BY <1>3 DEF Register
  <2>2. CallPart' /\ CallStep
    BY <2>1, SameHeard DEF sound
  <2>3. /\ clients' \in 1..MaxClients /\ registered' \subseteq 1..clients'
        /\ (rcv'.at \in {"created", "trying"} => rcv'.next \in 1..clients')
        /\ (rcv'.at = "created" => rcv'.past < clients')
        /\ (rcv'.at = "invite" => rcv'.next \in 1..(clients' + 1))
        /\ rcv' \in RcvType(made', clients')
    <3>1. /\ rcv \in RcvType(made, clients)
          /\ rcv.at \in {"created", "trying"} => rcv.next \in 1..clients
          /\ rcv.at = "created" => rcv.past < clients
          /\ rcv.at = "invite" => rcv.next \in 1..(clients + 1)
          /\ rcv.past \in 0..clients /\ rcv.next \in Nat
      BY DEF TypeOK, RcvType
    <3>2. rcv' = rcv /\ made' = made /\ registered' = registered /\ clients' = clients + 1
      BY <2>1 DEF sound
    <3>3. clients' \in 1..MaxClients /\ registered' \subseteq 1..clients'
      BY <2>1, <3>2, Counts
    <3>4. 0..clients \subseteq 0..(clients + 1)
      BY Counts
    <3>5. RcvType(made, clients) \subseteq RcvType(made, clients + 1)
      BY <3>4 DEF RcvType
    <3>6. rcv' \in RcvType(made', clients')
      BY <3>1, <3>2, <3>5
    <3>7. (rcv'.at \in {"created", "trying"} => rcv'.next \in 1..clients')
      BY <3>1, <3>2, Counts
    <3>8. (rcv'.at = "created" => rcv'.past < clients')
      BY <3>1, <3>2, Counts
    <3>9. (rcv'.at = "invite" => rcv'.next \in 1..(clients' + 1))
      BY <3>1, <3>2, Counts
    <3> QED
      BY <3>3, <3>6, <3>7, <3>8, <3>9
  <2>4. api' \in [Callers -> [at: {"idle", "hangup", "register"}, call: 0..made]]
    BY <1>0, <2>1 DEF TypeOK
  <2>5. Fits(clients)'
    BY <2>1 DEF Fits
  <2> QED
    BY <2>1, <2>2, <2>3, <2>4, <2>5 DEF CallPart, TypeOK, Addressed, sound, RcvType
<1> QED
  BY <1>1, <1>2, <1>3 DEF Requests

\* A request that resumes and writes sip_status, late as it may be, never sets it to 1,
\* nor does one that an exception leaves.
LEMMA ReturnsStep ==
  ASSUME IInv, NEW h \in Callers, Returns(h)
  PROVE  IInv' /\ CallStep
<1> USE DEF IInv
<1>1. /\ status' \in {0, -1, status} /\ api' = [api EXCEPT ![h] = Free]
      /\ UNCHANGED <<call, made, current, uplink, rcv, clients, registered, audio, sound>>
      /\ \/ listening' = listening
         \/ listening' = [listening EXCEPT ![clients] = @ + 1]
  BY DEF Returns, HangupReturns, HangupRaises, RegisterReturns, account, slot
<1>2. Alike(call') /\ SameOn(call')
  BY <1>1 DEF SameOn, Alike, TypeOK
<1>3. SlotMatchesCall' /\ Owned' /\ Waits'
  BY <1>1, <1>2, AlikeKeeps
<1>4. api' \in [Callers -> [at: {"idle", "hangup", "register"}, call: 0..made]]
  BY <1>1, DomruAssumption DEF TypeOK, Free
<1>5. listening' \in [1..MaxClients -> Nat]
  BY <1>1 DEF TypeOK
<1>6. status' = 1 => status = 1
  BY <1>1
<1> QED
  BY <1>1, <1>3, <1>4, <1>5, <1>6
  DEF TypeOK, Addressed, Fits, StatusHasCall, Unborn, Started, Agreed, CallStep, AnswerStep, SlotStep, sound

\* What the send_handler takes from its queue is a stream, and so is what it leaves.
LEMMA HeadAndTail ==
  ASSUME NEW S, NEW q \in Seq(S), q # <<>>
  PROVE  Head(q) \in S /\ Tail(q) \in Seq(S)
  OBVIOUS

\* Each step of a send_handler keeps the invariant.
LEMMA SendingStep ==
  ASSUME IInv, NEW c \in Calls, Sending(c)
  PROVE  IInv' /\ CallStep
<1> USE DEF IInv
<1>1. audio \in [Calls -> AudioType] /\ audio[c] \in AudioType
  BY DEF TypeOK
<1>2. /\ UNCHANGED <<call, made, slot, rcv, api, account, streams, finished>>
      /\ open' \in SUBSET open /\ audio[c].handler # "off"
      /\ \E a : audio' = [audio EXCEPT ![c] = a] /\ a \in AudioType
                /\ (a.handler = "waiting" <=> a.held # 0)
  <2>1. CASE TakeStream(c)
    <3>1. audio[c].handler = "loop" /\ audio[c].queue \in Seq(Uplinks) /\ audio[c].queue # <<>>
      BY <1>1, <2>1 DEF TakeStream, AudioType
    <3> DEFINE u == Head(audio[c].queue)
               rest == [audio[c] EXCEPT !.queue = Tail(@)]
    <3>2. u \in Uplinks /\ u # 0 /\ Tail(audio[c].queue) \in Seq(Uplinks)
      <4>1. u \in Uplinks /\ Tail(audio[c].queue) \in Seq(Uplinks)
        BY <3>1, HeadAndTail
      <4>2. \A n \in Uplinks : n # 0
        BY DomruAssumption DEF Uplinks
      <4> QED
        BY <4>1, <4>2
    <3>3. rest \in AudioType
      BY <1>1, <3>2 DEF AudioType
    <3>4. audio[c].previous = 0 => audio' = [audio EXCEPT ![c] = Attached(rest, u)]
      BY <2>1 DEF TakeStream
    <3>5. audio[c].previous # 0 =>
            audio' = [audio EXCEPT ![c] = [rest EXCEPT !.handler = "waiting", !.held = u]]
      BY <2>1 DEF TakeStream
    <3> HIDE DEF u, rest
    <3>6. /\ Attached(rest, u) \in AudioType
          /\ Attached(rest, u).handler = "loop" /\ Attached(rest, u).held = 0
      BY <3>2, <3>3 DEF AudioType, Attached
    <3>7. LET w == [rest EXCEPT !.handler = "waiting", !.held = u]
          IN  w \in AudioType /\ w.handler = "waiting" /\ w.held = u
      BY <3>2, <3>3 DEF AudioType
    <3>8. \E a : audio' = [audio EXCEPT ![c] = a] /\ a \in AudioType
                 /\ (a.handler = "waiting" <=> a.held # 0)
      BY <3>2, <3>4, <3>5, <3>6, <3>7
    <3> QED
      BY <2>1, <3>1, <3>8 DEF TakeStream, sound
  <2>2. CASE AttachStream(c)
    <3> DEFINE a == Attached(audio[c], audio[c].held)
    <3>1. audio' = [audio EXCEPT ![c] = a] /\ audio[c].handler = "waiting" /\ audio[c].held # 0
      BY <2>2 DEF AttachStream, TypeOK
    <3>2. a \in AudioType /\ a.handler = "loop" /\ a.held = 0
      BY <1>1, <3>1 DEF AudioType, Attached
    <3> HIDE DEF a
    <3> QED
      BY <2>2, <3>1, <3>2 DEF AttachStream
  <2>3. CASE HandlerEnds(c)
    <3> DEFINE a == [audio[c] EXCEPT !.handler = "ended", !.queue = <<>>]
    <3>1. audio[c].handler = "loop" /\ audio[c].held = 0
      BY <2>3 DEF HandlerEnds, TypeOK
    <3>2. audio' = [audio EXCEPT ![c] = a]
      BY <2>3 DEF HandlerEnds
    <3>3. <<>> \in Seq(Uplinks)
      OBVIOUS
    <3>4. a \in AudioType /\ a.handler = "ended" /\ a.held = 0
      BY <1>1, <3>1, <3>3 DEF AudioType
    <3> HIDE DEF a
    <3> QED
      BY <2>3, <3>1, <3>2, <3>4 DEF HandlerEnds
  <2> QED
    BY <2>1, <2>2, <2>3 DEF Sending
<1>3. audio' \in [Calls -> AudioType] /\ \A d \in Calls : d # c => audio'[d] = audio[d]
  BY <1>1, <1>2
<1>4. \A d \in Calls : audio'[d].handler = "waiting" <=> audio'[d].held # 0
  BY <1>1, <1>2, <1>3 DEF TypeOK
<1>5. Started'
  BY <1>2, <1>3 DEF Started
<1> QED
  BY <1>2, <1>3, <1>4, <1>5
  DEF TypeOK, SlotMatchesCall, StatusHasCall, Owned, Waits, Unborn, Agreed, Addressed, CallStep, AnswerStep, SlotStep,
      account, slot, Fits

\* Recv threads that end and SipClients that come up touch no call.
LEMMA OtherStep ==
  ASSUME IInv, \/ \E u \in Uplinks : StreamThreadEnds(u)
               \/ \E k \in 1..MaxClients : ClientUp(k)
  PROVE  IInv' /\ CallStep
<1>1. /\ UNCHANGED <<call, made, slot, rcv, api, clients, listening, audio, streams, open>>
      /\ registered' \subseteq 1..clients /\ finished' \subseteq (1..streams) \ open
  BY DEF StreamThreadEnds, ClientUp, IInv, TypeOK, account, sound
<1> QED
  BY <1>1 DEF IInv, TypeOK, SlotMatchesCall, StatusHasCall, Owned, Waits, Unborn, Started,
     Agreed, Addressed, CallStep, AnswerStep, SlotStep, slot, Fits
-----------------------------------------------------------------------------
\* init_main leaves an empty slot and no call.
LEMMA IInvInit == Init => IInv
<1> SUFFICES ASSUME Init PROVE IInv
  OBVIOUS
<1>1. NoCall \in CallType
  <2>1. 0 \in 0..MaxCalls /\ 0 \in 0..MaxClients
    BY DomruAssumption
  <2> QED
    BY <2>1 DEF NoCall, CallType
<1>2. NoAudio \in AudioType
  <2>1. <<>> \in Seq(Uplinks)
    OBVIOUS
  <2> QED
    BY <2>1 DEF NoAudio, AudioType
<1>3. Idle \in RcvType(0, 1) /\ Free \in [at: {"idle", "hangup", "register"}, call: 0..0]
  BY DEF Idle, Free, RcvType
<1>4. /\ call \in [Calls -> CallType] /\ audio \in [Calls -> AudioType]
      /\ \A c \in Calls : call[c] = NoCall /\ audio[c] = NoAudio
  BY <1>1, <1>2 DEF Init
<1>5. /\ made = 0 /\ current = 0 /\ uplink = 0 /\ status \in {0, -1} /\ rcv = Idle
      /\ api \in [Callers -> [at: {"idle", "hangup", "register"}, call: 0..0]]
      /\ clients = 1 /\ registered \subseteq {1} /\ streams = 0
      /\ open = {} /\ finished = {} /\ listening \in [1..MaxClients -> Nat]
  BY <1>3 DEF Init
<1>6. \A c \in Calls : c # 0
  BY DomruAssumption DEF Calls
<1>7. TypeOK
  BY <1>3, <1>4, <1>5, DomruAssumption DEF TypeOK, RcvType, Idle, NoAudio, Fits
<1> QED
  BY <1>4, <1>5, <1>6, <1>7
  DEF IInv, SlotMatchesCall, StatusHasCall, Owned, Waits, Unborn, Started, Agreed, Addressed,
      Idle, NoCall, NoAudio, Begun

\* Every step keeps the invariant and replaces no answer.
LEMMA IInvStep == IInv /\ [Next]_vars => IInv' /\ [CallStep]_vars
<1>1. IInv /\ Next => IInv' /\ CallStep
  BY ReceivingStep, NetworkStep, StoppingStep, DelayedStep, SendingStep, RequestsStep,
     ReturnsStep, OtherStep DEF Next
<1>2. IInv /\ UNCHANGED vars => IInv'
  BY DEF vars, IInv, TypeOK, SlotMatchesCall, StatusHasCall, Owned, Waits, Unborn, Started,
     Agreed, Addressed, Fits
<1> QED
  BY <1>1, <1>2

\* The inductive invariant holds in every behaviour.
THEOREM Invariance == Spec => []IInv
<1>1. IInv /\ [Next]_vars => IInv'
  BY IInvStep
<1> QED
  BY IInvInit, <1>1, PTL DEF Spec

\* Every variable keeps its type, a message's cursor and the bound on calls included.
THEOREM TypeCorrect == Spec => []TypeOK
<1>1. IInv => TypeOK
  BY DEF IInv
<1> QED
  BY <1>1, Invariance, PTL

\* The slot belongs to the one call that took it and was not hung up since, whoever
\* hangs up, cancels, times out or rings in between.
THEOREM SlotIsExact == Spec => []SlotMatchesCall
<1>1. IInv => SlotMatchesCall
  BY DEF IInv
<1> QED
  BY <1>1, Invariance, PTL

\* sip_status is never left at 1 without a call.
THEOREM NoGhostRing == Spec => []StatusHasCall
<1>1. IInv => StatusHasCall
  BY DEF IInv
<1> QED
  BY <1>1, Invariance, PTL

\* Whichever of acceptance, refusal, timeout and CANCEL came first decides.
THEOREM FirstAnswerDecides == Spec => AnswerIsFinal
<1>1. IInv /\ [Next]_vars => [AnswerStep]_vars
  BY IInvStep DEF CallStep
<1> QED
  BY <1>1, Invariance, PTL DEF Spec, AnswerIsFinal, AnswerStep

\* The acceptance of d is what the session of c rests on.
Earns(d, c) == /\ call[d].response = "ACCEPT" /\ call[d].hooked /\ call[d].task = "done"
               /\ d = c \/ call[d].stop \in HungUp

\* A session rests on the answer of a call that held the slot, and one that replaced
\* another on that of a second such call.
Sessions ==
  /\ \A c \in Calls : call[c].rtp # "none" => \E d \in Calls : Earns(d, c)
  /\ \A c \in Calls : call[c].stray => \E d \in Calls \ {c} : Earns(d, c)

\* A session that starts rests on the acceptance of a call that held the slot.
LEMMA SessionStep ==
  ASSUME IInv, Sessions, CallStep
  PROVE  Sessions'
<1> USE DEF CallStep
<1>1. ASSUME NEW d \in Calls, NEW c \in Calls, Earns(d, c)
      PROVE  Earns(d, c)'
  BY <1>1 DEF AnswerStep, SlotStep, Earns
<1>2. ASSUME NEW c \in Calls, AnswerGiven, current = c
      PROVE  \E d \in Calls : /\ Earns(d, c)' /\ call[d].task = "accepting"
  <2>1. PICK d \in Calls : call[d].task = "accepting" /\ call[d].hooked /\ call'[d].task = "done"
    BY <1>2 DEF AnswerGiven
  <2>2. call[d].response = "ACCEPT"
    BY <2>1 DEF IInv, Agreed
  <2>3. call[d].stop \in {"no", "bye"} \/ call[d].stop \in HungUp
    BY FieldTypes DEF IInv, TypeOK
  <2>4. d = c \/ call[d].stop \in HungUp
    BY <1>2, <2>1, <2>3 DEF IInv, SlotMatchesCall
  <2> QED
    BY <2>1, <2>2, <2>4 DEF AnswerStep, SlotStep, Earns
<1>3. ASSUME NEW c \in Calls, call'[c].rtp # "none"
      PROVE  \E d \in Calls : Earns(d, c)'
  <2>1. CASE call[c].rtp # "none"
    BY <1>1, <2>1 DEF Sessions
  <2>2. CASE call[c].rtp = "none"
    BY <1>2, <1>3, <2>2 DEF SlotStep
  <2> QED
    BY <2>1, <2>2
<1>4. ASSUME NEW c \in Calls, call'[c].stray
      PROVE  \E d \in Calls \ {c} : Earns(d, c)'
  <2>1. CASE call[c].stray
    BY <1>1, <2>1 DEF Sessions
  <2>2. CASE ~call[c].stray
    <3>1. call[c].rtp # "none" /\ current = c /\ AnswerGiven
      BY <1>4, <2>2 DEF SlotStep
    <3>2. PICK d \in Calls : Earns(d, c)' /\ call[d].task = "accepting"
      BY <1>2, <3>1
    <3>3. PICK e \in Calls : Earns(e, c)
      BY <3>1 DEF Sessions
    <3>4. CASE d # c
      BY <3>2, <3>4
    <3>5. CASE d = c
      <4>1. e # c
        BY <3>2, <3>3, <3>5 DEF Earns
      <4> QED
        BY <1>1, <3>3, <4>1
    <3> QED
      BY <3>4, <3>5
  <2> QED
    BY <2>1, <2>2
<1> QED
  BY <1>3, <1>4 DEF Sessions

\* Every session rests on the answers of calls that held the slot.
THEOREM SessionsEarned == Spec => []Sessions
<1>1. Init => Sessions
  BY DEF Init, Sessions, NoCall
<1>2. IInv /\ Sessions /\ [Next]_vars => Sessions'
  <2>1. ASSUME UNCHANGED vars, Sessions PROVE Sessions'
    BY <2>1 DEF vars, Sessions, Earns
  <2>2. ASSUME IInv, Sessions, CallStep PROVE Sessions'
    BY <2>2, SessionStep
  <2> QED
    BY <2>1, <2>2, IInvStep
<1> QED
  BY <1>1, <1>2, Invariance, PTL DEF Spec

\* A session that was not closed is the current call's, whoever hangs up and whichever
\* answer comes late, but for the two ways in which the code leaves one behind.
THEOREM OneConversation == Spec => []NoStrayCall
<1>1. IInv /\ Sessions => NoStrayCall
  BY DEF IInv, Owned, Waits, Sessions, Earns, NoStrayCall
<1> QED
  BY <1>1, Invariance, SessionsEarned, PTL

\* A session starts only because a call that held the slot was accepted.
THEOREM SessionNeedsAnswer == Spec => []SessionWasAccepted
<1>1. Sessions => SessionWasAccepted
  BY DEF Sessions, Earns, SessionWasAccepted
<1> QED
  BY <1>1, SessionsEarned, PTL
-----------------------------------------------------------------------------
(* DomruCall implements CallSlot. *)

\* A step of the calls is a visitor taking the slot, being talked to, leaving it, or
\* nothing at all.
LEMMA SlotSimulation ==
  ASSUME IInv, IInv', CallStep
  PROVE  [Slot!Next]_(Slot!slotVars)
<1> DEFINE over(c) == call[c].stop \in HungUp
           past == {c \in Calls : call[c].hooked /\ over(c)}
           talking == current # 0 /\ call[current].rtp # "none"
<1>1. ASSUME NEW c \in Calls
      PROVE  /\ c # 0
             /\ current = c <=> call[c].hooked /\ ~over(c)
             /\ current' = c <=> (call'[c].hooked /\ ~over(c)')
  <2>1. call[c] \in CallType /\ call'[c] \in CallType
    BY DEF IInv, TypeOK
  <2>2. c # 0
    BY DomruAssumption DEF Calls
  <2>3. current = c <=> call[c].hooked /\ call[c].stop \in {"no", "bye"}
    BY DEF IInv, SlotMatchesCall
  <2>4. current' = c <=> (call'[c].hooked /\ call'[c].stop \in {"no", "bye"})
    BY DEF IInv, SlotMatchesCall
  <2>5. /\ over(c) <=> ~(call[c].stop \in {"no", "bye"})
        /\ over(c)' <=> ~(call'[c].stop \in {"no", "bye"})
    BY <2>1, FieldTypes DEF HungUp
  <2> QED
    BY <2>2, <2>3, <2>4, <2>5
<1>2. current \in Calls \cup {0} /\ current' \in Calls \cup {0}
  <2>1. /\ made \in 0..MaxCalls /\ current \in 0..made
        /\ made' \in 0..MaxCalls /\ current' \in 0..made'
    BY DEF IInv, TypeOK
  <2> QED
    BY <2>1, DomruAssumption DEF Calls
<1>3. ASSUME NEW c \in Calls
      PROVE  /\ call[c].hooked => call'[c].hooked
             /\ over(c) => over(c)'
             /\ call'[c].hooked /\ ~call[c].hooked =>
                  current = 0 /\ current' = c /\ call'[c].rtp = "none"
  BY DEF CallStep, SlotStep
<1>4. CASE current' = current
  <2>1. past' = past
    <3>1. ASSUME NEW c \in Calls PROVE call'[c].hooked /\ over(c)' <=> call[c].hooked /\ over(c)
      BY <1>1, <1>3, <1>4
    <3> QED
      BY <3>1
  <2>2. talking => talking'
    <3>1. SUFFICES ASSUME talking PROVE talking'
      OBVIOUS
    <3>2. current \in Calls /\ call[current].rtp # "none"
      BY <1>2, <3>1
    <3>3. call'[current].rtp # "none"
      BY <3>2 DEF CallStep, SlotStep
    <3> QED
      BY <1>4, <3>1, <3>3
  <2>3. CASE talking' = talking
    BY <1>4, <2>1, <2>3 DEF Slot!slotVars
  <2>4. CASE ~(talking' = talking)
    <3>1. talking' = TRUE /\ current # 0
      BY <1>4, <2>2, <2>4
    <3> QED
      BY <1>4, <2>1, <3>1 DEF Slot!Next, Slot!Talk
  <2> QED
    BY <2>3, <2>4
<1>5. CASE current' # current /\ current' = 0
  <2>1. current \in Calls /\ talking' = FALSE
    BY <1>2, <1>5
  <2>2. ASSUME NEW c \in Calls
        PROVE  call'[c].hooked /\ over(c)' <=> (call[c].hooked /\ over(c)) \/ c = current
    BY <1>1, <1>3, <1>5, <2>1
  <2>3. past' = past \cup {current}
    BY <2>1, <2>2
  <2> QED
    BY <1>5, <2>1, <2>3 DEF Slot!Next, Slot!GiveUp
<1>6. CASE current' # current /\ current' # 0
  <2>1. current' \in Calls
    BY <1>2, <1>6
  <2>2. ~call[current'].hooked
    <3>1. PICK c \in Calls : c = current'
      BY <2>1
    <3>2. call'[c].hooked /\ ~over(c)'
      BY <1>1, <3>1
    <3>3. ~over(c)
      BY <1>3, <3>2
    <3> QED
      BY <1>1, <1>6, <3>1, <3>3
  <2>3. current = 0 /\ call'[current'].rtp = "none"
    <3>1. PICK c \in Calls : c = current'
      BY <2>1
    <3>2. call'[c].hooked
      BY <1>1, <3>1
    <3> QED
      BY <1>3, <2>2, <3>1, <3>2
  <2>4. past' = past
    <3>1. ASSUME NEW c \in Calls PROVE call'[c].hooked /\ over(c)' <=> call[c].hooked /\ over(c)
      BY <1>1, <1>3, <2>3
    <3> QED
      BY <3>1
  <2>5. talking = FALSE /\ talking' = FALSE
    BY <2>3
  <2>6. current' \notin past
    BY <2>2
  <2> QED
    BY <2>1, <2>3, <2>4, <2>5, <2>6 DEF Slot!Next, Slot!TakeSlot
<1> QED
  BY <1>4, <1>5, <1>6

\* The interface is one slot that visitors hold one at a time and get once.
THEOREM ImplementsSlot == Spec => OneVisitorAtATime
<1>1. Init => Slot!Init
  <2>1. ASSUME Init, NEW c \in Calls PROVE ~call[c].hooked
    BY <2>1 DEF Init, NoCall
  <2> QED
    BY <2>1 DEF Init, Slot!Init
<1>2. IInv /\ IInv' /\ [Next]_vars => [Slot!Next]_(Slot!slotVars)
  <2>1. ASSUME UNCHANGED vars PROVE UNCHANGED Slot!slotVars
    BY <2>1 DEF vars, Slot!slotVars
  <2> QED
    BY <2>1, IInvStep, SlotSimulation
<1> QED
  BY <1>1, <1>2, Invariance, PTL DEF Spec, OneVisitorAtATime, Slot!Spec
-----------------------------------------------------------------------------
(* The microphone stays with the call. *)

\* A send_handler takes its streams in the order of their creation: the one attached,
\* then the one held, then the queue.
InTurn(a, newest) ==
  /\ a.stream \in {0, a.previous} /\ a.previous <= newest
  /\ a.held # 0 => a.previous < a.held /\ a.held <= newest
  /\ \A i \in DOMAIN a.queue : /\ a.previous < a.queue[i] /\ a.held < a.queue[i]
                               /\ a.queue[i] <= newest
  /\ \A i, j \in DOMAIN a.queue : i < j => a.queue[i] < a.queue[j]

\* Where a stream can be in a send_handler that has not ended.
In(a, u) == \/ a.handler = "ended"
            \/ u \in {a.stream, a.held}
            \/ \E i \in DOMAIN a.queue : a.queue[i] = u

\* The inductive invariant behind MicrophoneInCall: the microphone is the newest stream,
\* so no stream that the send_handler attaches takes its place, and what was attached was
\* attached to a session.
Attachments ==
  /\ MicrophoneInCall
  /\ uplink \in {0, streams}
  /\ \A c \in Calls : /\ InTurn(audio[c], streams)
                      /\ audio[c].previous # 0 => call[c].rtp # "none"

\* A step that leaves the send_handlers alone and, if it frees the slot, also the
\* microphone.
Quiet ==
  /\ UNCHANGED <<audio, streams>>
  /\ uplink' = 0 \/ (uplink' = uplink /\ (current' = current \/ current = 0))

\* Such a step keeps the microphone in the call.
LEMMA QuietKeeps ==
  ASSUME IInv, Attachments, CallStep, Quiet
  PROVE  Attachments'
<1>1. current # 0 => current \in Calls
  BY DomruAssumption DEF IInv, TypeOK, Calls
<1>2. \A c \in Calls : /\ call[c].rtp # "none" => call'[c].rtp # "none"
                       /\ call[c].stray => call'[c].stray
  BY DEF CallStep, SlotStep
<1>3. MicrophoneInCall'
  BY <1>1, <1>2 DEF Attachments, Quiet, MicrophoneInCall
<1> QED
  BY <1>2, <1>3 DEF Attachments, Quiet, InTurn

\* A hangup frees the microphone with the slot.
LEMMA HangUpQuiet ==
  ASSUME NEW calls, NEW c, Stop(calls, c) \/ HangUp(calls, c), UNCHANGED <<audio, streams>>
  PROVE  Quiet
<1>1. ASSUME HangUp(calls, c) PROVE Quiet
  BY <1>1 DEF HangUp, FreesSlot, slot, Quiet
<1>2. ASSUME Stop(calls, c) PROVE Quiet
  BY <1>1, <1>2 DEF Stop, slot, Quiet
<1> QED
  BY <1>1, <1>2

\* All steps but the answer, accept_call and the send_handlers' own are quiet.
LEMMA QuietSteps ==
  ASSUME Receiving \/ Network \/ (\E k \in 1..MaxClients : ClientUp(k))
         \/ (\E u \in Uplinks : StreamThreadEnds(u))
         \/ (\E c \in Calls : \/ Stopping(c) \/ AnswerTimeout(c) \/ Respond(c)
                              \/ OkPasses(c) \/ AnsweredWithoutCodec(c) \/ Refused(c))
         \/ (\E h \in Callers : \/ StopCalls(h) \/ DeclineCall(h) \/ Register(h)
                                \/ Returns(h))
  PROVE  Quiet
<1>1. CASE Receiving
  <2>1. CASE Creates \/ Trying \/ ReceiverDies \/ MessageDone
    BY <2>1 DEF Creates, Trying, ReceiverDies, MessageDone, Quiet, slot, sound
  <2>2. CASE Ring
    BY <2>2 DEF Ring, TakesSlot, Quiet, sound
  <2>3. ASSUME NEW c \in Calls, Reaches(c) PROVE Quiet
    BY <2>3, HangUpQuiet DEF Reaches
  <2> QED
    BY <1>1, <2>1, <2>2, <2>3 DEF Receiving
<1>2. CASE Network
  BY <1>2 DEF Network, Cancel, Invite, Bye, Quiet, slot, sound
<1>3. CASE \/ \E k \in 1..MaxClients : ClientUp(k)
           \/ \E u \in Uplinks : StreamThreadEnds(u)
  BY <1>3 DEF ClientUp, StreamThreadEnds, Quiet, slot, sound
<1>4. ASSUME NEW c \in Calls, Stopping(c) PROVE Quiet
  <2>1. ASSUME NEW d \in Calls, ByeStopsAnother(c, d) PROVE Quiet
    BY <2>1, HangUpQuiet DEF ByeStopsAnother
  <2>2. CASE ByeSent(c)
    BY <2>2, HangUpQuiet DEF ByeSent
  <2>3. CASE ByeRaises(c) \/ SessionJoined(c) \/ SessionStarts(c)
    BY <2>3 DEF ByeRaises, SessionJoined, SessionStarts, Quiet, slot, sound
  <2> QED
    BY <1>4, <2>1, <2>2, <2>3 DEF Stopping
<1>5. ASSUME NEW c \in Calls,
             AnswerTimeout(c) \/ Respond(c) \/ OkPasses(c) \/ AnsweredWithoutCodec(c)
      PROVE  Quiet
  BY <1>5 DEF AnswerTimeout, Respond, OkPasses, AnsweredWithoutCodec, Quiet, slot, sound
<1>6. ASSUME NEW c \in Calls, Refused(c) PROVE Quiet
  BY <1>6, HangUpQuiet DEF Refused
<1>7. ASSUME NEW h \in Callers, DeclineCall(h) \/ Register(h) \/ Returns(h) PROVE Quiet
  BY <1>7 DEF DeclineCall, Register, Returns, HangupReturns, HangupRaises, RegisterReturns,
              Quiet, slot, sound
<1>8. ASSUME NEW h \in Callers, StopCalls(h) PROVE Quiet
  <2>1. CASE call[current].stop = "no"
    BY <1>8, <2>1, HangUpQuiet DEF StopCalls
  <2>2. CASE call[current].stop # "no"
    BY <1>8, <2>2 DEF StopCalls, Quiet
  <2> QED
    BY <2>1, <2>2
<1> QED
  BY <1>1, <1>2, <1>3, <1>4, <1>5, <1>6, <1>7, <1>8

\* A step of the send_handlers that keeps their streams in turn and loses the newest only
\* with a session keeps the microphone in the call.
LEMMA HandlersKeep ==
  ASSUME IInv, Attachments, CallStep, UNCHANGED <<current, uplink, streams>>,
         \A d \in Calls :
           /\ InTurn(audio'[d], streams)
           /\ audio'[d].previous # 0 => call'[d].rtp # "none"
           /\ streams # 0 /\ In(audio[d], streams) =>
                In(audio'[d], streams) \/ call'[d].stray
  PROVE  Attachments'
<1>1. ASSUME uplink' # 0
      PROVE  current' # 0 /\ (In(audio'[current'], uplink') \/ call'[current'].stray)
  <2>1. /\ uplink = streams /\ streams # 0 /\ current # 0
        /\ In(audio[current], uplink) \/ call[current].stray
    BY <1>1 DEF Attachments, MicrophoneInCall, In
  <2>2. current \in Calls
    BY <2>1, DomruAssumption DEF IInv, TypeOK, Calls
  <2> QED
    BY <2>1, <2>2 DEF CallStep, SlotStep
<1> QED
  BY <1>1 DEF Attachments, MicrophoneInCall, In

\* That of one send_handler.
LEMMA HandlerKeeps ==
  ASSUME IInv, Attachments, CallStep, NEW c \in Calls, NEW a,
         audio' = [audio EXCEPT ![c] = a], UNCHANGED <<current, uplink, streams>>,
         InTurn(a, streams), a.previous # 0 => call[c].rtp # "none",
         In(audio[c], streams) => In(a, streams)
  PROVE  Attachments'
<1>1. \A d \in Calls : audio'[d] = IF d = c THEN a ELSE audio[d]
  BY DEF IInv, TypeOK
<1>2. \A d \in Calls : /\ InTurn(audio'[d], streams)
                       /\ audio'[d].previous # 0 => call'[d].rtp # "none"
  BY <1>1 DEF Attachments, CallStep, SlotStep
<1>3. \A d \in Calls : In(audio[d], streams) => In(audio'[d], streams)
  BY <1>1
<1> QED
  BY <1>2, <1>3, HandlersKeep

\* The queue without its first stream.
LEMMA TailFacts ==
  ASSUME NEW S, NEW q \in Seq(S), q # <<>>
  PROVE  /\ Head(q) = q[1] /\ 1 \in DOMAIN q
         /\ \A i \in DOMAIN Tail(q) : i + 1 \in DOMAIN q /\ Tail(q)[i] = q[i + 1]
         /\ \A i \in DOMAIN q : i # 1 => i - 1 \in DOMAIN Tail(q) /\ Tail(q)[i - 1] = q[i]
         /\ DOMAIN q \subseteq Nat \ {0} /\ DOMAIN Tail(q) \subseteq Nat \ {0}
         /\ \A i \in DOMAIN q : q[i] \in S
  OBVIOUS

\* The queue with one stream more.
LEMMA AppendFacts ==
  ASSUME NEW S, NEW q \in Seq(S), NEW u \in S
  PROVE  /\ \A i \in DOMAIN Append(q, u) :
              \/ i \in DOMAIN q /\ Append(q, u)[i] = q[i]
              \/ i = Len(q) + 1 /\ Append(q, u)[i] = u
         /\ \A i \in DOMAIN q : i \in DOMAIN Append(q, u) /\ Append(q, u)[i] = q[i] /\ i < Len(q) + 1
         /\ Len(q) + 1 \in DOMAIN Append(q, u) /\ Append(q, u)[Len(q) + 1] = u
         /\ \A i \in DOMAIN q : q[i] \in S /\ i \in Nat
         /\ Len(q) \in Nat
  OBVIOUS

\* What a send_handler attaches is the next stream in turn.
LEMMA AttachedInTurn ==
  ASSUME NEW a \in AudioType, NEW u \in Uplinks, NEW newest \in Nat, MaxUplinks \in Nat,
         u <= newest,
         \A i \in DOMAIN a.queue : u < a.queue[i] /\ a.queue[i] <= newest,
         \A i, j \in DOMAIN a.queue : i < j => a.queue[i] < a.queue[j]
  PROVE  /\ InTurn(Attached(a, u), newest)
         /\ Attached(a, u).stream = u /\ Attached(a, u).queue = a.queue
<1> DEFINE r == Attached(a, u)
<1>1. /\ r.handler = "loop" /\ r.stream = u /\ r.previous = u /\ r.held = 0
      /\ r.queue = a.queue
  BY DEF Attached, AudioType
<1>2. a.queue \in Seq(Uplinks) /\ u \in Nat /\ 0 < u
  BY DEF AudioType, Uplinks
<1>3. \A i \in DOMAIN a.queue : a.queue[i] \in Nat /\ 0 < a.queue[i]
  BY <1>2 DEF Uplinks
<1> HIDE DEF r
<1>4. InTurn(r, newest)
  BY <1>1, <1>2, <1>3 DEF InTurn
<1> QED
  BY <1>1, <1>4 DEF r

\* Each step of a send_handler takes the streams in turn.
LEMMA SendingAttaches ==
  ASSUME IInv, Attachments, CallStep, NEW c \in Calls, Sending(c)
  PROVE  Attachments'
<1>1. /\ audio \in [Calls -> AudioType] /\ audio[c] \in AudioType
      /\ (audio[c].handler = "waiting" <=> audio[c].held # 0)
      /\ streams \in Nat /\ MaxUplinks \in Nat
  BY DomruAssumption DEF IInv, TypeOK
<1>2. InTurn(audio[c], streams)
  BY DEF Attachments
<1>3. /\ audio[c].queue \in Seq(Uplinks) /\ audio[c].held \in Uplinks \cup {0}
      /\ audio[c].previous \in Uplinks \cup {0} /\ audio[c].stream \in Uplinks \cup {0}
  BY <1>1 DEF AudioType
<1>4. \A u \in Uplinks : u \in Nat /\ 0 < u
  BY <1>1 DEF Uplinks
<1>5. CASE TakeStream(c)
  <2> DEFINE q == audio[c].queue
             u == Head(q)
             rest == [audio[c] EXCEPT !.queue = Tail(@)]
             held == [rest EXCEPT !.handler = "waiting", !.held = u]
  <2>1. /\ q # <<>> /\ audio[c].handler = "loop"
        /\ UNCHANGED <<current, uplink, streams>>
        /\ audio' = [audio EXCEPT ![c] = IF audio[c].previous = 0 THEN Attached(rest, u)
                                                                   ELSE held]
    BY <1>5 DEF TakeStream, slot, sound
  <2>2. /\ u = q[1] /\ 1 \in DOMAIN q /\ u \in Uplinks /\ Tail(q) \in Seq(Uplinks)
        /\ \A i \in DOMAIN Tail(q) : i + 1 \in DOMAIN q /\ Tail(q)[i] = q[i + 1]
        /\ \A i \in DOMAIN q : i # 1 => i - 1 \in DOMAIN Tail(q) /\ Tail(q)[i - 1] = q[i]
        /\ DOMAIN q \subseteq Nat \ {0} /\ DOMAIN Tail(q) \subseteq Nat \ {0}
        /\ \A i \in DOMAIN q : q[i] \in Uplinks
    BY <1>3, <2>1, HeadAndTail, TailFacts
  <2>3. /\ rest \in AudioType /\ rest.queue = Tail(q)
        /\ rest.stream = audio[c].stream /\ rest.held = 0
        /\ rest.previous = audio[c].previous
    BY <1>1, <2>1, <2>2 DEF AudioType
  <2>4. /\ held.queue = Tail(q) /\ held.held = u
        /\ held.stream = audio[c].stream /\ held.previous = audio[c].previous
    BY <2>3 DEF AudioType
  <2> HIDE DEF q, u, rest, held
  <2>5. /\ audio[c].previous < u /\ u <= streams
        /\ \A i \in DOMAIN Tail(q) : u < Tail(q)[i] /\ Tail(q)[i] <= streams
        /\ \A i, j \in DOMAIN Tail(q) : i < j => Tail(q)[i] < Tail(q)[j]
    <3>1. /\ \A i \in DOMAIN q : audio[c].previous < q[i] /\ q[i] <= streams
          /\ \A i, j \in DOMAIN q : i < j => q[i] < q[j]
      BY <1>2 DEF InTurn, q
    <3>2. ASSUME NEW i \in DOMAIN Tail(q) PROVE u < Tail(q)[i] /\ Tail(q)[i] <= streams
      <4>1. i \in Nat /\ i # 0 /\ i + 1 \in DOMAIN q
        BY <2>2
      <4>2. 1 < i + 1
        BY <4>1
      <4> QED
        BY <2>2, <3>1, <4>1, <4>2
    <3>3. ASSUME NEW i \in DOMAIN Tail(q), NEW j \in DOMAIN Tail(q), i < j
          PROVE  Tail(q)[i] < Tail(q)[j]
      <4>1. i + 1 < j + 1
        BY <2>2, <3>3
      <4> QED
        BY <2>2, <3>1, <4>1
    <3> QED
      BY <2>2, <3>1, <3>2, <3>3
  <2>6. In(audio[c], streams) =>
          streams \in {audio[c].stream, u} \/ \E i \in DOMAIN Tail(q) : Tail(q)[i] = streams
    <3>1. audio[c].held = 0 /\ streams # 0
      BY <1>1, <1>4, <2>1, <2>2, <2>5
    <3>2. ASSUME NEW i \in DOMAIN q, q[i] = streams
          PROVE  streams = u \/ \E j \in DOMAIN Tail(q) : Tail(q)[j] = streams
      BY <2>2, <3>2
    <3> QED
      BY <2>1, <3>1, <3>2 DEF In, q
  <2>r. call[c].rtp # "none"
    BY <1>5 DEF TakeStream
  <2>7. CASE audio[c].previous = 0
    <3> DEFINE a == Attached(rest, u)
    <3>1. InTurn(a, streams) /\ a.stream = u /\ a.queue = Tail(q)
      BY <1>1, <2>2, <2>3, <2>5, AttachedInTurn, ZenonT(60)
    <3>2. audio' = [audio EXCEPT ![c] = a]
      BY <2>1, <2>7
    <3>3. audio[c].stream = 0
      BY <1>2, <2>7 DEF InTurn
    <3> HIDE DEF a
    <3>4. streams = audio[c].stream => FALSE
      BY <1>4, <2>2, <2>5, <3>3
    <3>5. In(audio[c], streams) => In(a, streams)
      BY <2>6, <3>1, <3>4 DEF In
    <3> QED
      BY <2>1, <2>r, <3>1, <3>2, <3>5, HandlerKeeps
  <2>8. CASE audio[c].previous # 0
    <3>1. audio' = [audio EXCEPT ![c] = held]
      BY <2>1, <2>8
    <3>2. InTurn(held, streams)
      <4>1. audio[c].stream \in {0, audio[c].previous} /\ audio[c].previous <= streams
        BY <1>2 DEF InTurn
      <4>2. \A i \in DOMAIN Tail(q) : Tail(q)[i] \in Nat
        BY <1>4, <2>2
      <4>3. u \in Nat /\ audio[c].previous \in Nat
        BY <1>3, <1>4, <2>2
      <4>4. \A i \in DOMAIN Tail(q) : audio[c].previous < Tail(q)[i]
        BY <2>5, <4>2, <4>3
      <4> QED
        BY <2>4, <2>5, <4>1, <4>4 DEF InTurn
    <3>3. In(audio[c], streams) => In(held, streams)
      BY <2>4, <2>6 DEF In
    <3> QED
      BY <2>1, <2>r, <3>1, <3>2, <3>3, HandlerKeeps
  <2> QED
    BY <2>7, <2>8
<1>6. CASE AttachStream(c)
  <2> DEFINE a == Attached(audio[c], audio[c].held)
  <2>1. /\ audio' = [audio EXCEPT ![c] = a] /\ audio[c].handler = "waiting"
        /\ UNCHANGED <<current, uplink, streams>>
    BY <1>6 DEF AttachStream, slot
  <2>2. audio[c].held \in Uplinks
    BY <1>1, <1>3, <2>1
  <2>r. call[c].rtp # "none"
    <3>1. audio[c].previous \in 1..streams
      BY <1>6 DEF AttachStream, IInv, TypeOK
    <3> QED
      BY <1>1, <3>1 DEF Attachments
  <2>3. /\ audio[c].stream \in {0, audio[c].previous}
        /\ audio[c].previous < audio[c].held /\ audio[c].held <= streams
        /\ \A i \in DOMAIN audio[c].queue : /\ audio[c].held < audio[c].queue[i]
                                            /\ audio[c].queue[i] <= streams
        /\ \A i, j \in DOMAIN audio[c].queue : i < j => audio[c].queue[i] < audio[c].queue[j]
    BY <1>1, <1>2, <2>1 DEF InTurn
  <2>4. InTurn(a, streams) /\ a.stream = audio[c].held /\ a.queue = audio[c].queue
    BY <1>1, <2>2, <2>3, AttachedInTurn
  <2> HIDE DEF a
  <2>5. streams # audio[c].stream
    BY <1>1, <1>3, <1>4, <2>2, <2>3
  <2>6. In(audio[c], streams) => In(a, streams)
    BY <2>1, <2>4, <2>5 DEF In
  <2> QED
    BY <2>1, <2>r, <2>4, <2>6, HandlerKeeps
<1>7. CASE HandlerEnds(c)
  <2> DEFINE a == [audio[c] EXCEPT !.handler = "ended", !.queue = <<>>]
  <2>1. /\ audio' = [audio EXCEPT ![c] = a] /\ UNCHANGED <<current, uplink, streams>>
    BY <1>7 DEF HandlerEnds, slot
  <2>2. /\ a.handler = "ended" /\ a.queue = <<>> /\ a.stream = audio[c].stream
        /\ a.held = audio[c].held /\ a.previous = audio[c].previous
    BY <1>1 DEF AudioType
  <2> HIDE DEF a
  <2>3. InTurn(a, streams) /\ In(a, streams)
    <3>1. DOMAIN a.queue = {}
      BY <2>2
    <3> QED
      BY <1>2, <2>2, <3>1 DEF InTurn, In
  <2>4. a.previous # 0 => call[c].rtp # "none"
    BY <2>2 DEF Attachments
  <2> QED
    BY <2>1, <2>3, <2>4, HandlerKeeps
<1> QED
  BY <1>5, <1>6, <1>7 DEF Sending

\* The send_handler that an answer starts finds its queue as accept_call left it, and a
\* session that is replaced takes the stream attached to it along.
LEMMA AnsweredAttaches ==
  ASSUME IInv, Attachments, CallStep, NEW c \in Calls, Answered(c)
  PROVE  Attachments'
<1> DEFINE handled == [audio EXCEPT ![c].handler = "loop"]
           d == StartsFor(c)
<1>1. /\ UNCHANGED <<current, uplink, streams>>
      /\ audio \in [Calls -> AudioType] /\ d \in {0, current}
      /\ streams \in Nat
  BY DomruAssumption DEF IInv, TypeOK, Answered, StartsFor, slot, sound
<1>2. ASSUME NEW k \in AudioType
      PROVE  LET a == [k EXCEPT !.handler = "loop"]
                 b == [a EXCEPT !.stream = 0]
             IN /\ a \in AudioType /\ a.queue = k.queue /\ a.held = k.held
                /\ a.previous = k.previous /\ a.stream = k.stream
                /\ b.queue = k.queue /\ b.held = k.held
                /\ b.previous = k.previous /\ b.stream = 0 /\ b.handler = "loop"
  BY <1>2 DEF AudioType
<1>3. ASSUME NEW k \in AudioType
      PROVE  LET b == [k EXCEPT !.stream = 0]
             IN /\ b.queue = k.queue /\ b.held = k.held
                /\ b.previous = k.previous /\ b.stream = 0 /\ b.handler = k.handler
  BY <1>3 DEF AudioType
<1>4. audio[c].handler = "off"
  <2>1. audio[c].handler # "off" => call[c].task = "done"
    BY DEF IInv, Started
  <2> QED
    BY <2>1 DEF Answered, OkSent
<1>5. ASSUME NEW e \in Calls
      PROVE  /\ audio'[e].queue = audio[e].queue /\ audio'[e].held = audio[e].held
             /\ audio'[e].previous = audio[e].previous
             /\ audio'[e].stream = IF e = d THEN 0 ELSE audio[e].stream
             /\ audio[e].handler = "ended" => audio'[e].handler = "ended"
  <2>1. CASE d = 0
    <3>1. audio' = handled
      BY <2>1 DEF Answered
    <3>2. e # d
      BY <2>1, DomruAssumption DEF Calls
    <3> QED
      BY <1>1, <1>2, <1>4, <3>1, <3>2
  <2>2. CASE d # 0
    <3>1. audio' = [handled EXCEPT ![d].stream = 0]
      BY <2>2 DEF Answered
    <3>2. handled[e] = IF e = c THEN [audio[e] EXCEPT !.handler = "loop"] ELSE audio[e]
      BY <1>1
    <3>3. audio'[e] = IF e = d THEN [handled[e] EXCEPT !.stream = 0] ELSE handled[e]
      BY <1>1, <3>1
    <3> HIDE DEF handled
    <3> QED
      BY <1>1, <1>2, <1>3, <1>4, <3>2, <3>3
  <2> QED
    BY <2>1, <2>2
<1>6. d # 0 => d \in Calls /\ (call[d].rtp # "none" => call'[d].stray)
  <2> SUFFICES ASSUME d # 0 PROVE d \in Calls /\ (call[d].rtp # "none" => call'[d].stray)
    OBVIOUS
  <2>1. d \in Calls
    BY <1>1, DomruAssumption DEF IInv, TypeOK, Calls
  <2> DEFINE answered == [Confirmed(c) EXCEPT ![c].task = "done", ![c].state = "ANSWERED"]
  <2>2. call' = [answered EXCEPT ![d].rtp = "created",
                                 ![d].stray = @ \/ call[d].rtp # "none"]
    BY DEF Answered
  <2>3. answered \in [Calls -> CallType]
    <3>1. \A k \in CallType : [k EXCEPT !.task = "done"] \in CallType
      BY DEF CallType
    <3>2. \A k \in CallType : [k EXCEPT !.state = "ANSWERED"] \in CallType
      BY DEF CallType
    <3>3. Confirmed(c) \in [Calls -> CallType]
      BY ConfirmedType DEF IInv
    <3> QED
      BY <3>1, <3>2, <3>3
  <2> HIDE DEF answered
  <2>4. ASSUME NEW k \in CallType, NEW b \in BOOLEAN
        PROVE  [[k EXCEPT !.rtp = "created"] EXCEPT !.stray = b].stray = b
    BY DEF CallType
  <2> QED
    BY <2>1, <2>2, <2>3, <2>4
<1> HIDE DEF handled, d
<1>7. ASSUME NEW e \in Calls
      PROVE  /\ InTurn(audio'[e], streams)
             /\ audio'[e].previous # 0 => call'[e].rtp # "none"
             /\ streams # 0 /\ In(audio[e], streams) =>
                  In(audio'[e], streams) \/ call'[e].stray
  <2>1. InTurn(audio[e], streams) /\ (audio[e].previous # 0 => call[e].rtp # "none")
    BY DEF Attachments
  <2>2. InTurn(audio'[e], streams)
    BY <1>5, <2>1 DEF InTurn
  <2>3. audio'[e].previous # 0 => call'[e].rtp # "none"
    BY <1>5, <2>1 DEF CallStep, SlotStep
  <2>4. ASSUME streams # 0, In(audio[e], streams)
        PROVE  In(audio'[e], streams) \/ call'[e].stray
    <3>1. CASE e = d /\ audio[e].stream = streams
      <4>1. audio[e].previous # 0 /\ d # 0
        BY <2>1, <2>4, <3>1, DomruAssumption DEF InTurn, Calls
      <4> QED
        BY <1>6, <2>1, <3>1, <4>1
    <3>2. CASE ~(e = d /\ audio[e].stream = streams)
      BY <1>5, <2>4, <3>2 DEF In
    <3> QED
      BY <3>1, <3>2
  <2> QED
    BY <2>2, <2>3, <2>4
<1> QED
  BY <1>1, <1>7, HandlersKeep

\* accept_call puts the new stream last, and makes it the microphone.
LEMMA AcceptAttaches ==
  ASSUME IInv, Attachments, CallStep, NEW h \in Callers, AcceptCall(h)
  PROVE  Attachments'
<1> DEFINE q == audio[current].queue
           a == [audio[current] EXCEPT !.queue = Append(@, streams')]
<1>1. /\ current # 0 /\ current' = current /\ streams' = streams + 1 /\ uplink' = streams'
      /\ streams < MaxUplinks /\ audio' = [audio EXCEPT ![current] = a]
  BY DEF AcceptCall
<1>2. /\ current \in Calls /\ audio \in [Calls -> AudioType] /\ streams \in Nat
      /\ MaxUplinks \in Nat
  <2>1. /\ current \in 0..made /\ made \in 0..MaxCalls
        /\ audio \in [Calls -> AudioType] /\ streams \in 0..MaxUplinks
    BY DEF IInv, TypeOK
  <2>2. MaxCalls \in Nat /\ MaxUplinks \in Nat
    BY DomruAssumption
  <2> QED
    BY <1>1, <2>1, <2>2 DEF Calls
<1>3. /\ audio[current] \in AudioType /\ q \in Seq(Uplinks) /\ streams' \in Uplinks
      /\ audio[current].held \in Nat /\ audio[current].previous \in Nat
  BY <1>1, <1>2 DEF AudioType, Uplinks
<1>4. /\ \A i \in DOMAIN Append(q, streams') :
           \/ i \in DOMAIN q /\ Append(q, streams')[i] = q[i]
           \/ i = Len(q) + 1 /\ Append(q, streams')[i] = streams'
      /\ Len(q) + 1 \in DOMAIN Append(q, streams')
      /\ Append(q, streams')[Len(q) + 1] = streams'
      /\ \A i \in DOMAIN q : q[i] \in Nat /\ i \in Nat /\ i < Len(q) + 1
      /\ Len(q) \in Nat
  <2>1. \A u \in Uplinks : u \in Nat
    BY <1>2 DEF Uplinks
  <2> QED
    BY <1>3, <2>1, AppendFacts
<1>5. /\ a.queue = Append(q, streams') /\ a.stream = audio[current].stream
      /\ a.held = audio[current].held /\ a.previous = audio[current].previous
      /\ a.handler = audio[current].handler
  BY <1>3 DEF AudioType
<1>6. InTurn(audio[current], streams)
  BY <1>2 DEF Attachments
<1>7. /\ \A i \in DOMAIN q : /\ a.previous < q[i] /\ a.held < q[i] /\ q[i] < streams'
      /\ \A i, j \in DOMAIN q : i < j => q[i] < q[j]
      /\ a.stream \in {0, a.previous} /\ a.previous <= streams /\ a.held <= streams
      /\ (a.held # 0 => a.previous < a.held)
  <2>1. /\ \A i \in DOMAIN q : /\ a.previous < q[i] /\ a.held < q[i] /\ q[i] <= streams
        /\ \A i, j \in DOMAIN q : i < j => q[i] < q[j]
        /\ a.stream \in {0, a.previous} /\ a.previous <= streams
        /\ (a.held # 0 => a.previous < a.held /\ a.held <= streams)
    BY <1>5, <1>6 DEF InTurn
  <2> QED
    BY <1>1, <1>2, <1>4, <1>5, <2>1
<1> HIDE DEF q, a
<1>8. InTurn(a, streams')
  <2>1. ASSUME NEW i \in DOMAIN a.queue
        PROVE  a.previous < a.queue[i] /\ a.held < a.queue[i] /\ a.queue[i] <= streams'
    BY <1>1, <1>2, <1>3, <1>4, <1>5, <1>7, <2>1
  <2>2. ASSUME NEW i \in DOMAIN a.queue, NEW j \in DOMAIN a.queue, i < j
        PROVE  a.queue[i] < a.queue[j]
    BY <1>4, <1>5, <1>7, <2>2
  <2>3. a.held <= streams' /\ a.previous <= streams'
    BY <1>1, <1>2, <1>3, <1>5, <1>7
  <2> QED
    BY <1>7, <2>1, <2>2, <2>3 DEF InTurn
<1>9. \A d \in Calls : audio'[d] = IF d = current THEN a ELSE audio[d]
  BY <1>1, <1>2
<1>10. ASSUME NEW d \in Calls PROVE InTurn(audio'[d], streams')
  <2>1. CASE d = current
    BY <1>8, <1>9, <2>1
  <2>2. CASE d # current
    <3>1. InTurn(audio[d], streams) /\ audio[d] \in AudioType
      BY <1>2 DEF Attachments
    <3>2. /\ audio[d].previous \in Nat /\ audio[d].held \in Nat
          /\ \A i \in DOMAIN audio[d].queue : audio[d].queue[i] \in Nat
      BY <1>2, <3>1 DEF AudioType, Uplinks
    <3>3. InTurn(audio[d], streams')
      BY <1>1, <1>2, <3>1, <3>2 DEF InTurn
    <3> QED
      BY <1>9, <2>2, <3>3
  <2> QED
    BY <2>1, <2>2
<1>12. \A d \in Calls : audio'[d].previous # 0 => call'[d].rtp # "none"
  BY <1>5, <1>9 DEF Attachments, CallStep, SlotStep
<1>11. MicrophoneInCall'
  <2>1. In(a, streams')
    BY <1>4, <1>5 DEF In
  <2> QED
    BY <1>1, <1>2, <1>9, <2>1 DEF MicrophoneInCall, In
<1> QED
  BY <1>1, <1>10, <1>11, <1>12 DEF Attachments

\* The microphone belongs to the current call, through hangups and new calls.
THEOREM MicrophoneStays == Spec => []MicrophoneInCall
<1>1. Init => Attachments
  <2> SUFFICES ASSUME Init PROVE Attachments
    OBVIOUS
  <2>1. uplink = 0 /\ streams = 0 /\ \A c \in Calls : audio[c] = NoAudio
    BY DEF Init
  <2>2. InTurn(NoAudio, 0)
    BY DEF InTurn, NoAudio
  <2> QED
    BY <2>1, <2>2 DEF Attachments, MicrophoneInCall, NoAudio
<1>2. IInv /\ Attachments /\ [Next]_vars => Attachments'
  <2> SUFFICES ASSUME IInv, Attachments, [Next]_vars PROVE Attachments'
    OBVIOUS
  <2>1. CASE UNCHANGED vars
    BY <2>1 DEF vars, Attachments, MicrophoneInCall
  <2>2. CASE ~UNCHANGED vars
    <3>1. CallStep /\ Next
      BY <2>2, IInvStep
    <3>2. ASSUME NEW c \in Calls, Sending(c) \/ Answered(c) PROVE Attachments'
      BY <3>1, <3>2, SendingAttaches, AnsweredAttaches
    <3>3. ASSUME NEW h \in Callers, AcceptCall(h) PROVE Attachments'
      BY <3>1, <3>3, AcceptAttaches
    <3>4. CASE Quiet
      BY <3>1, <3>4, QuietKeeps
    <3> QED
      BY <3>1, <3>2, <3>3, <3>4, QuietSteps DEF Next, Delayed, Requests
  <2> QED
    BY <2>1, <2>2
<1>3. Attachments => MicrophoneInCall
  BY DEF Attachments
<1> QED
  BY <1>1, <1>2, <1>3, Invariance, PTL DEF Spec
-----------------------------------------------------------------------------
(* What the connection handlers see of the interface: VicomServer's CallComes, *)
(* CallGoes and own calls make all its changes to sip_status.                  *)

\* The call owning the slot is gone, or none rings.
SlotFrees == status' = 0 /\ current # 0 /\ current' = 0

\* A ring begins in a free slot that did not ring, the slot is freed, or one of the
\* handlers changes the status: by a hangup, a refusal, or a registration, which may
\* silence a ringing call.
StatusMoves ==
  \/ status # 1 /\ status' = 1 /\ current = 0 /\ current' # 0
  \/ SlotFrees
  \/ \E h \in Callers : StopCalls(h) \/ HangupReturns(h) \/ DeclineCall(h)
  \/ \E h \in Callers : RegisterReturns(h) /\ status' \in {-1, 0}

\* A hangup changes the status only by freeing the slot.
LEMMA HangUpSilences ==
  ASSUME NEW calls, NEW c, Stop(calls, c) \/ HangUp(calls, c)
  PROVE  status' = status \/ SlotFrees
<1>1. ASSUME HangUp(calls, c) PROVE status' = status \/ SlotFrees
  BY <1>1 DEF HangUp, Clears, FreesSlot, slot, SlotFrees
<1>2. ASSUME Stop(calls, c) PROVE status' = status \/ SlotFrees
  BY <1>1, <1>2 DEF Stop, slot
<1> QED
  BY <1>1, <1>2

\* A new call rings only in a free slot.
LEMMA RingRings ==
  ASSUME IInv, Ring
  PROVE  status' = status \/ StatusMoves
<1>1. made \in Nat /\ made' = made + 1
  BY DEF IInv, TypeOK, Ring
<1>2. \/ UNCHANGED status
      \/ TakesSlot /\ current' = made' /\ status' = 1
  BY DEF Ring
<1>3. current = 0 => status # 1
  BY DEF IInv, StatusHasCall
<1> QED
  BY <1>1, <1>2, <1>3 DEF TakesSlot, StatusMoves

\* The handlers of connections are told of every change of the status by the steps that
\* VicomServer gives the interface: no ring over a ring, no end without a call.
THEOREM InterfaceAsServed ==
  Spec => status \in {-1, 0} /\ [][StatusMoves]_status
<1>1. Init => status \in {-1, 0}
  BY DEF Init
<1>2. IInv /\ [Next]_vars => [StatusMoves]_status
  <2> SUFFICES ASSUME IInv, [Next]_vars PROVE status' = status \/ StatusMoves
    OBVIOUS
  <2>1. CASE UNCHANGED vars
    BY <2>1 DEF vars
  <2>2. CASE Receiving
    <3>1. CASE Creates \/ Trying \/ ReceiverDies \/ MessageDone
      BY <3>1 DEF Creates, Trying, ReceiverDies, MessageDone, slot
    <3>2. ASSUME NEW c \in Calls, Reaches(c) PROVE status' = status \/ SlotFrees
      BY <3>2, HangUpSilences DEF Reaches
    <3> QED
      BY <2>2, <3>1, <3>2, RingRings DEF Receiving, StatusMoves
  <2>3. CASE Network
    BY <2>3 DEF Network, Cancel, Invite, Bye, slot
  <2>4. ASSUME NEW c \in Calls, Stopping(c) PROVE status' = status \/ SlotFrees
    <3>1. ASSUME NEW d \in Calls, ByeStopsAnother(c, d) PROVE status' = status \/ SlotFrees
      BY <3>1, HangUpSilences DEF ByeStopsAnother
    <3>2. CASE ByeSent(c)
      BY <3>2, HangUpSilences DEF ByeSent
    <3>3. CASE ByeRaises(c) \/ SessionJoined(c) \/ SessionStarts(c)
      BY <3>3 DEF ByeRaises, SessionJoined, SessionStarts, slot
    <3> QED
      BY <2>4, <3>1, <3>2, <3>3 DEF Stopping
  <2>5. ASSUME NEW c \in Calls, Delayed(c) PROVE status' = status \/ SlotFrees
    <3>1. CASE Refused(c)
      BY <3>1, HangUpSilences DEF Refused
    <3>2. CASE \/ AnswerTimeout(c) \/ Respond(c) \/ OkPasses(c) \/ Answered(c)
               \/ AnsweredWithoutCodec(c)
      BY <3>2 DEF AnswerTimeout, Respond, OkPasses, Answered, AnsweredWithoutCodec, slot
    <3> QED
      BY <2>5, <3>1, <3>2 DEF Delayed
  <2>6. ASSUME NEW c \in Calls, Sending(c) PROVE status' = status
    BY <2>6 DEF Sending, TakeStream, AttachStream, HandlerEnds, slot
  <2>7. ASSUME NEW h \in Callers, Requests(h) \/ Returns(h)
        PROVE  status' = status \/ StatusMoves
    <3>1. CASE AcceptCall(h) \/ Register(h)
      BY <3>1 DEF AcceptCall, Register, slot
    <3>2. /\ RegisterReturns(h) => status' \in {-1, 0}
          /\ HangupRaises(h) => status' = status
      BY DEF RegisterReturns, HangupRaises, slot
    <3> QED
      BY <2>7, <3>1, <3>2 DEF Requests, Returns, StatusMoves
  <2>8. CASE \/ \E u \in Uplinks : StreamThreadEnds(u)
             \/ \E k \in 1..MaxClients : ClientUp(k)
    BY <2>8 DEF StreamThreadEnds, ClientUp, slot
  <2> QED
    BY <2>1, <2>2, <2>3, <2>4, <2>5, <2>6, <2>7, <2>8 DEF Next, StatusMoves
<1> QED
  BY <1>1, <1>2, Invariance, PTL DEF Spec
=============================================================================
