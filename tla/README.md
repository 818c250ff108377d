# Verification of the vicom door phone

TLA+ models of the software of a door-phone panel built on a Hi3515 video recorder, the
configurations that check them with TLC, and proofs checked by TLAPS. The source is the
repository beside this directory (`src/`).

## The system

A visitor calls a flat through the provider's SIP server. A home server
(`mainvicom_srv`, Python, one asyncio loop) is the SIP user agent; the panel in the
hall (`mainvicom`, C, one thread) is its client over a TCP connection that carries one
command per line. Video and audio travel beside it over UDP, handled by ffmpeg
processes on both ends.

    keypad driver -> input event -> mainvicom/main.c  <== TCP lines ==>  mainvicom_srv.py
                                       | fork                            | children: ffmpeg
                                    startv.sh, starta.sh                 | calls
                                                                     mainvicom_domru.py
                                                                         | callbacks, calls
                                                          CustomPySIP (SIP core, calls, RTP)
                                                                         | UDP
                                                                 the provider's SIP server

Lines from the server: `s0` no internet, `s1` no request, `s2` a visitor rings, `v` video
is sent, `a` microphone may start, `e` stop all, `p` ping. From the panel: `r` send the
video, `a` accept, `o` open the door, `d` decline or close, `p` ping.

## Inventory

| part | state | operations | what is hard | what makes it correct |
|---|---|---|---|---|
| panel, `mainvicom/main.c` | mode, two child pids, socket, `connect_success`, stale `len`, keepalive counter, three timers | keys, lines received, reconnect, keepalive, dark screen, `switch_mode` | failing sends and forks in the middle of a handler, a socket that is gone in a mode that needs it, lines read together, a silent peer | children and socket fit the mode; a new session starts clean; a dead link is noticed |
| server, `mainvicom_srv.py` | the ffmpeg children, the audio endpoint, `prev_status` per connection | one handler per connection, `autopendel_ffmpeg` | everything but `prev_status` is shared by all connections; awaits inside handlers; a connection that ends late | children belong to the connection that is served; the panel learns every change of status |
| call interface, `mainvicom_domru.py` | `sip_status`, `current_call`, `current_uplink` | `stop_calls`, `accept_call`, `decline_call`, `is_call_requested`; callbacks for a new, an answered, an ended call | fields are written after an await; callbacks act on `current_call`, whichever it is by then | one slot for one call; status tells the truth; sessions only in accepted calls |
| incoming call, `CustomPySIP/sip_call.py`, `call_handler.py` | state, dialogue, answer future, stopped flag, audio queue | INVITE, BYE, CANCEL, timeout, `stop`, `send_handler` | an answer, a timeout and a CANCEL race; sent messages loop back through all handlers; retransmissions make duplicates | an answer counts once; every call ends and leaves the slot |
| SIP core and account | handlers registered for ever, SipClients left by failed registrations | `receive`, `send`, `register` | a registration takes seconds while calls arrive | the callback reaches every SipClient; no call is offered twice |
| RTP session, jitter buffer | sockets, threads, sequence numbers, 16-slot buffer | send, receive, add, remove | two threads beside the loop; wrap-around; misorder | threads end; frames leave in order, whole |
| keypad driver (kernel patch) | pressed key, two timers, work item | interrupt, work, release timer | the timer fires while the work runs | press and release alternate |
| other drivers, third-party programs, device image | | | | not modelled, see below |

`PROJECT.json` lists every component with its sources, and every hazard at its line.

## Modules

| module | models |
|---|---|
| `VicomClient` | `mainvicom/main.c` |
| `VicomServer` | `mainvicom_srv.py`: the connection handlers, the ffmpeg children, the endpoint, the supervisor |
| `Intercom` | `VicomClient` and one connection of `VicomServer`, joined by the lines they exchange |
| `DomruCall` | the SIP side of `mainvicom_domru.py` with the parts of CustomPySIP an incoming call runs through |
| `CallSlot` | what `DomruCall` promises: one slot, one visitor at a time |
| `RtpSession` | `rtp_handler.py`: the threads of one session, its socket, its streams and its stop |
| `JitterBuffer` | `jitter_buffer.py` behind the receiver thread, with a network and a peer |
| `AvtechKbd` | `avtech_keyboard.c` of the kernel patch |
| `VicomClient_proofs`, `VicomServer_proofs`, `Intercom_proofs`, `DomruCall_proofs`, `RtpSession_proofs`, `JitterBuffer_proofs`, `JitterOrder_proofs`, `AvtechKbd_proofs` | theorems about them |
| `MCDomruCall`, `MCVicomServer` | symmetry for TLC: of callers and Call-IDs, of connections |

A definition whose name ends in `Slip` is a plausible mistake in the operator that
follows it. No specification uses it; it shows that a property fails when the code is
changed that way.

### VicomClient

The loop of `main` has three phases (`pc`): one keyboard event, one look at the socket,
the timer of the mode. Each phase is one action per outcome. A handler that calls
`switch_mode` twice, or sends and then switches, is one action: `dev` is a record of
everything `switch_mode` touches, so that the handler is a composition of operators on
it (`SwitchMode`, `AfterSend`). `MENU` is `SwitchMode(AfterSend(d), "IDLE")`, as in the
code, including the case where the send failed and the socket is -1.

`rx` and `tx` are the kernel's buffers of the connection. `SockRead` takes all of `rx`
and interprets its first line only, which is what `recv` into `buff` and `switch
(buff[0])` do. The network completes or fails a connect, closes or resets a connection;
`fork` may fail; a child may exit at any time. `len`, uninitialised in `main` and left as it was by an
`ioctl` on -1, is a variable with both initial values. Time is a tick; the three
timestamps are ages that stop at `Period`.

Left out: pictures and the bouncing text, unknown lines, key releases, a keyboard
that disappears (the program ends) and the exit of the program.

### DomruCall

An action is what a coroutine does between two suspensions. The coroutines are:

* the receive task, which takes one SIP message at a time through the handlers
  (`Invite`, then for each SipClient `Creates`, `Trying`, `Ring`; `Cancel` or `Bye`, `Reaches`;
  `MessageDone`, `ReceiverDies`);
* a delayed task for each SipCall, which waits for the answer and sends the reply
  (`AnswerTimeout`, `Respond`, `OkPasses`, `Answered`, `AnsweredWithoutCodec`, `Refused`);
* whoever is inside `SipCall.stop` (`ByeStopsAnother`, `ByeSent`, `ByeRaises`, `SessionJoined`);
* the task that runs `_start` of a session (`SessionStarts`);
* the connection handlers of the server, which call the interface (`StopCalls`,
  `AcceptCall`, `DeclineCall`, `Register`) and may be suspended in it (`HangupReturns`,
  `HangupRaises`, `RegisterReturns`);
* a `send_handler` for each call (`TakeStream`, `AttachStream`, `HandlerEnds`) and the
  recv thread of each stream (`StreamThreadEnds`).

Five facts of the code shape the model.

* `SipCore.send` passes every message through all registered handlers before it
  writes it. A 100 Trying, a 200 and a BYE of ours are therefore heard by every SipCall
  of the same Call-ID: `Trying`, `Confirmed`, `ByeHeard`. Whether the sender is suspended
  meanwhile depends on the To header, because `SipClient.message_handler` sleeps 1 ms
  when it names us. A Trying and a 200 therefore pass one SipClient at a time, and between two of them
  the calls that were registered behind the first have heard the message and the others have not (`behind`, `past`).
* Handlers are never removed. Every SipClient that a failed `register()` left behind
  still makes a SipCall of each INVITE, and so does a retransmission.
* `@sip_account.on_incoming_call` attaches the callback to the newest SipClient, which
  need not be the one this handler registered (`listening`). A SipCall copies the callbacks when it is created,
  before its Trying goes out (`heard`).
* `RTPClient._stop` closes the socket that `_start` opens. A call that is hung up between the creation of the task and its
  first turn (`rtp = "created"`) has none: `_stop` raises, behind the callbacks that freed the slot. The
  exception leaves `stop()` (`stop = "raised"`) and whoever awaits it: a BYE of ours that looped back
  (`ByeRaises`), a connection handler (`HangupRaises`), or the receive task, which nobody starts again
  (`ReceiverDies`). The session then starts.
* `custom_on_call_answered` makes a session for `current_call`, whichever call that is and whether it has one already. The
  earlier session is then referenced by nobody (`stray`), and the stream attached to it is not that of the new one.

`sip_status` and `current_call` are written where the code writes them. Two handlers
in the interface at a time are real: the server starts a handler for a new connection
before it has noticed that the old one is dead.

Assumed of the outside: INVITE, CANCEL and BYE arrive in any order and any number, a BYE for a Call-ID
that an INVITE began. A SipClient may come up at any time, also never. 401 challenges,
OPTIONS and NOTIFY go by without touching a call. SIP runs over UDP, as
`is_call_requested` asks for.

More happens in the model than in the code in two places. The turn of `_start` may come any time after its task was created,
where the ready queue lets little pass it. And the second session of a call counts as running
although its `bind` fails while the first holds the port: it then has a socket to close and no threads.

### VicomServer

`conn[c]` is the handler of one connection with its reader and writer; `video`, `dest`,
`audio` and `udp` are the module's globals, `status` is the interface's `sip_status`. `pc`
names the point a handler is at. It is either suspended (in `has_data`, in one of the three
`stop_calls`, in `create_datagram_endpoint`, in `is_call_requested`) or running, that is
between two suspensions that other actions cannot enter: `Busy` keeps everybody else out,
as the event loop does, also through the `time.sleep` calls. A turn of the loop is
`NoData` or one action per line read, then `Poll` (or `Register`, `RegisterReturns`), which
compares the status, writes the ping when it is due and evaluates the loop condition.

Three facts of the code shape the model.

* `has_data` calls the reader's private `_wait_for_data`, which waits for new bytes. A
  line that is in the buffer already is looked at only when something else arrives
  (`woken`), and after an EOF with something left in the buffer the call asserts and the
  handler dies (`Loop`). The panel sends the string's NUL after each command, which
  stays in the buffer until the next line (`nul`).
* An exception ends a handler where it is. It skips `stop_calls` and `stop_proc`, so its streams
  stay until another handler stops them (`Over(_, "dead")`).
* `stop_proc` can raise half-way: `os.getpgid` of a reaped child, `.transport` of the
  placeholder 1 (`StopProcRaises`).

`status` stands for the interface: calls come and go while the loop is free, `stop_calls` and
`decline_call` set it to 0, a registration leaves -1 or 0. What `stop_calls` awaits may raise, which ends the handler
there (`HangupRaises`). This is `DomruCall` seen through one
variable: `InterfaceAsServed` proves that these are all the changes, and that a status of 1 means a call to accept is its `StatusHasCall`.

### Intercom

`C` is an instance of `VicomClient`, `S` one of `VicomServer` with a single connection. Every action is
an action of one of them, or of both when they meet: `Connects` is the panel's `Established`
and the server's `Connect`, `ToServer` takes the first line out of `tx` and lets it arrive
in the reader, `ToPanel` moves a line from `wire` into `rx`. What a step of the server writes,
which `VicomServer` leaves open, is said here (`Greets`, `Shows`, `Accepts`, `Reports`). The history
variable `lost` remembers that `recv` returned more than one line, of which the panel
interpreted the first.

A turn of the panel's loop is not interrupted. It looks at the connection once, so a step of the
others that falls into a turn can be moved before it, or behind it when it answers what that
turn sent. (Lines that would arrive in the same turn as their question are then read
one turn later; a line dropped only so is not seen, and the properties do not speak of sessions
with dropped lines.) A session ends with the connection: pings, the panel's timers, children that
exit, broken links and reconnections are in the two modules and left out here.

### CallSlot

The abstract interface: `holder`, `past`, `talking`. A visitor takes the free slot, may be talked to,
gives it up for good. `DomruCall!Slot` maps `current_call` to the holder, the calls that took the slot and
were hung up to the past, a session of the current call to the conversation.

### RtpSession

One session, from its creation. The asyncio loop runs `Start`, `StopBegins`, `Joined` and
`SetStream`; the sender thread, the receiver thread, the detector's thread and one `recv` thread
for each stream run beside it. A step of a thread ends where another thread can tell the
difference: the sender looks at the socket and the stream, then at the running flag and the
queue, then takes the lock, then sends. `sock` is the socket with its mode, because the sender makes
the socket it shares with the receiver block for the time of a `sendto`. `lock` is
`_socket_lock`. A receiver that calls `recv` while the socket blocks stays there with
the lock until a datagram comes; `close()` from another thread does not wake it.

Whether a packet completes a frame, and what it decodes to, is chosen: `JitterBuffer` says which do.
The detector is seen from its start (the first decoded frame) to its end. `held` is the stream the
sender read before it looked at anything else, `stale` counts frames of an earlier stream
that were sent after the replacement.

### AvtechKbd

A falling edge arms the press timer, which queues the work item, which reads the key over I2C. Both
timers are hard interrupts, and there is one core: they run to the end between any two steps of the
work item, whose steps are its single loads, stores and calls (`pc`). The two stores of a new
key, which nothing orders, happen in either order. `down` is what the input core believes. Time is
not counted: an armed timer may fire at any moment. A failed I2C read leaves the registers
uninitialised: any key may be read. `late` is a history variable.

### JitterBuffer

`add`, `remove`, `smart_remove` and `_remove_frame` as operators on `buffer` (the origin and the
slots), and `Receive`, which is one packet through `receive_sync`. The loops are written by what
they compute: `FrameStarts` is the set of places where `smart_remove` may stop and its least element
where it does; `FrameEnds` is the set of places where `_remove_frame` sees a new timestamp. A
packet is its number in the peer's stream; the buffer sees it modulo 2^16 (`SequenceNumber`) and
through its timestamp. `Send`, `Lose` and `Restart` are the peer and UDP; a packet may be delayed by
less than `Window` packets, also twice. Decoding and the queues behind the buffer are
left out, and so are packets that cannot be parsed.

## Runs

| run | configuration | question |
|---|---|---|
| `client` | period 1 tick, limit 2 pings, 1 unread line, send buffer of 1 | do children, socket and keepalive count fit the mode, does a session start clean, is a dead or silent peer noticed |
| `icom_slot` | 3 calls of 1 Call-ID, 2 callers, 2 SipClients, 1 stream | is the slot exact, the status true, the session the slot's and accepted, the answer final; is `CallSlot` implemented |
| `icom_live` | 2 calls of 1 Call-ID, 1 SipClient, 1 caller, 2 streams | does an unanswered call free the slot, does a hangup wait for the threads only, does a send_handler end, is the microphone in the current call |
| `server_safety` | 2 connections, limit 0, the lines `r`, `a`, `d`, 1 unread line | do streams, ring tone and endpoint have an owner, does the panel know what its handler thinks it knows |
| `server_liveness` | 1 connection, limit 1, the lines `a`, `o`, `p`, 2 unread lines | is every lasting status announced, is a silent panel given up |
| `intercom` | 2 lines in each of the panel's buffers, 2 in the server's | does the panel's mode follow the server's status, is a request it shows backed by the server |
| `intercom_manual` | the same | a comment of `main.c`, which the order of lines contradicts (expected violation) |
| `jitter_order` | 8 slots, misorder limit 9, frames of 3 packets, numbers modulo 64, 26 packets, 1 lost, 1 restart | do frames leave in order, once, without a hole, and soon enough |
| `jitter_whole` | the same | the docstring of `smart_remove`, which the code does not keep (expected violation) |
| `rtp` | 2 streams, 1 frame spoken ahead | does the receiver block, does a stop close the session whole or leave it whole, is what is spoken sent, do the threads end |
| `rtp_join` | 1 stream | the comment on the joins, which the code does not keep (expected violation) |
| `kbd` | 3 raw codes, one without a key | is a pressed key always timed, do driver and input core agree, is a key left down |

The bounds. Ages stop at the period and timers compare only with it, so one tick
distinguishes "due" from "not due"; the three ages still run independently. A limit of
2 makes the count pass 0, -1, -2 and the value below it. One unread line is enough, because a
line read together with another is not looked at; lines read together are the matter of `intercom`, which
has two. A send buffer of one line fills. The server
pings only while the counter is below 1: larger values behave alike until they are
counted down. In `DomruCall`, three calls give the call in the slot, one beside it, and the next visitor.
One Call-ID makes each of them hear what the others send, which is where calls disturb one another; a foreign
call hears nothing of them and shares the slot and the CANCELs only. The two-Call-ID version of `icom_slot` (3 792 686 distinct
states) is too long for a routine run and was checked once, with the same result. Two callers are what it takes for one to
be suspended while the other
works; two SipClients are one that is registered and one that is stale. Two streams are a
repeated accept, which `icom_live` is about. `HangupEnds` was checked once, conjunct by conjunct, with three calls and one
stream (617 193 distinct states): a third call is what it takes for a copy to be hung up by the refusal of another while it
is being answered. Symmetry is used in the safety runs of `MCDomruCall` and `MCVicomServer` only.

In `VicomServer`, two connections are one that is served and one that was replaced or is
dying: all handlers share the same globals, so a third adds no new pair. A limit of 0 gives a
panel up at its first ping, which leaves the ways a connection ends to the safety
run and the counting to the other, where limit 1 passes 0 and -1. `o` and `p` change no stream
and are left to `server_liveness`; `r` and `d` are left out there, where `a` stands for a command
that suspends and writes. Two unread lines make lines lag by more than one. `MaxCredit` bounds the
pongs that arrive beyond the pings: each gives one period more.

In `RtpSession` two streams are one that is replaced and its successor; a longer queue behaves like one
of a frame. In `AvtechKbd` two keys are the one that is down and another, the third code has no
key behind it. In `Intercom` the server writes only when its last lines have left the wire and the panel
begins a turn when what it sent is in the server's reader; with two lines in `rx` behind them
every line can still cross those of the other direction, and be read together with another. The reader holds two
lines, so that one can lag behind another there: with a bound of one a handler never polled while an `a` of
a visitor who had gone was unread, and `RequestIsReal` looked simpler than it is. The proofs do not depend on
these bounds.

`CHECK_DEADLOCK FALSE` stands in the `DomruCall` and `VicomServer` configurations because their
bounds run out (when all calls were made, or all connections came and went, nothing more
need happen), in those of `RtpSession` because a session that is over stops, in those of `Intercom` because a
session ends with its connection, and in those of `JitterBuffer` because the packets run out.
`VicomClient` and `AvtechKbd` never stop and are checked for deadlock.

In `JitterBuffer` the sizes keep the order of the code's (`Window` < `Capacity` < `MaxMisorder` < half of
the numbers), and the numbers wrap early (they begin 7 before it). A restart lands ahead by 20,
which `smart_remove` sees, or 16 behind, which is a restart for the buffer when it is up to date
and late by less than the limit when a gap holds its origin back. Frames of three packets
are the least from which the middle can be lost. 26 packets are one more than `NotSilent` allows
without a frame.

### Fairness

`VicomClient`: weak fairness of the loop as a whole, which never waits longer than its
polls of 4 ms, and of time. Not of single phases' outcomes, and not of the network or
the server. `SilentPeerGivenUp` exempts NO_INTERNET, in which the code pings without
counting.

`DomruCall`: weak fairness of every coroutine that could run and of the recv threads. The
30 s limit of `wait_for` is in it (`AnswerTimeout`). Nothing is assumed of the network, of
the connection handlers or of a registration: a caller need not ever call. Nor is it assumed that the join of
the RTP threads ends (`SessionJoined` is not fair): `RtpSession` shows that it may not, and `HangupEnds` says
that a caller which hangs up waits for nothing else.

`JitterBuffer` has no fairness: `NotSilent` counts packets.

`VicomServer`: strong fairness of each handler, and of the turn in which its ping is due. A handler
that is suspended is resumed by a timer (`has_data` waits 0.1 s at most) or when what it waits
for is there, through the loop's first-in first-out ready queue; the fairness is strong because
other handlers hold the loop in between. Every 5 s are over some day, so not every turn
can find the ping not due. That a hangup returns is not assumed, because a session may never be
joined: the fairness leaves out the three points where a handler awaits `stop_calls`
(`AwaitsHangup`), and so `Announced` and `SilentPanelGivenUp` exempt a handler that stays in one of them.
Nothing is assumed of panels, calls and children.

`RtpSession`: weak fairness of the loop's tasks and of each thread, strong fairness of the two steps
that take the lock: both threads sleep without it, for 10 and 20 ms, so neither is kept from it for
ever by the other. No datagram need ever come, and nobody need hang up or speak.

`AvtechKbd`: an armed timer fires if it is left alone, and the work item runs. The interrupt is not
fair: the keypad may fall silent, which is what the liveness property is about.

`Intercom` is checked for safety only.

## Theorems

The proof modules follow the same plan: an inductive invariant `IInv`, a lemma for each
group of actions with one step per action, `Invariance`, and the theorems as
consequences.

`VicomClient_proofs`, from `ClientAssumption` (a positive period and limit, natural
bounds): `TypeCorrect`, `ProgramsFollowMode`, `SocketFollowsMode`, `KeepaliveNeverOverruns`,
`SessionsStartFresh`. `IInv` is the conjunction of the four invariants (`TypeOK` bounds the count in every mode, `KeepaliveBounded`
more closely while connected). None of the last
three is inductive alone: programs need the type of the device, the socket needs
to know that a connect is under way only in NO_CONNECTION, and the count needs the mode.
The lemmas about `SwitchMode` and `AfterSend` carry the argument: a switch to a mode that
stops the programs establishes what a switch to another mode must preserve.

`DomruCall_proofs`, from `DomruAssumption` (natural bounds, at least one SipClient, 0 is
no Call-ID), for any number of calls, Call-IDs, SipClients, callers and streams:
`TypeCorrect`, `SlotIsExact`, `NoGhostRing`, `OneConversation`, `FirstAnswerDecides`,
`SessionNeedsAnswer`, `MicrophoneStays` and `ImplementsSlot`: every step of `DomruCall` is a step of `CallSlot` or leaves the slot alone, under
the mapping of the section above. `IInv` joins to the two invariants of the slot that a session belongs to the current call or
to a `stop()` that is joining or was left by an exception (`Owned`), and on whose end a `stop()` waits (`Waits`): the call in the
slot never waits for one that had a session, so no exception can pass it by before it freed the slot. It needs
besides that a SipCall that was not yet made is in its initial state (`Unborn`), that a `send_handler` runs only after its
call's delayed task (`Started`), that what is being answered was accepted (`Agreed`) and that the message being handled has a Call-ID (`Addressed`). The central
lemmas say what `HangUp` and `Stop` do to the slot (`HangUpGives`, `StopGives`) and that a step
which leaves the fields `hooked`, `stop`, `rtp` and `stray` alone keeps every invariant about the
slot (`AlikeKeeps`), so that most actions need only show the latter. `OneConversation` and `SessionNeedsAnswer` rest on a second
invariant, `SessionsEarned`: whoever has a session, or had one replaced, has an accepted call to thank for it, itself or one
that is over.
`MicrophoneStays` has an invariant of its own on top of it (`Attachments`): the microphone is always the newest stream
there is, and the streams of each call are in turn, so that none that a send_handler attaches takes the microphone away.
`InterfaceAsServed` is the assumption `VicomServer` makes of its interface, proved of `DomruCall`: a ring begins only in a
free slot that does not ring (`CallComes`), and else the status changes because the call that owns the slot is gone (`CallGoes`) or by a
call of one of the handlers. Stating it corrected `VicomServer`, whose `CallGoes` had been limited to a status of 1: while a call
rings, another handler's registration can fail and leave -1, and the call's end then makes that 0.

`VicomServer_proofs`, from `ServerAssumption` (natural bounds, commands of the panel only), for any
number of connections: `TypeCorrect`, `StreamsHaveOwner`, `SoundHasCall`, `EndpointIsUnique`,
`StatusToldIsKnown`. `IInv` is the conjunction of the four invariants and `ToldAll`, which says of
every point of control, not only of the wait, where the last status told may differ from
`prev_status`: after a late accept, and then the status is no longer 1, or the handler is
about to register, which leaves -1 or 0; so the comparison that follows finds a difference and
repairs it. Every step changes one handler, which holds the loop or finds it free
(`HandlersFine`); it either keeps its claim and the streams (`ClaimKept`) or runs `stop_proc`
(`StreamsStopped`), and only the start of a picture, an accept and the opened endpoint need
an argument of their own.

`RtpSession_proofs`, from `SessionAssumption` (natural bounds): `TypeCorrect`, `LockSuffices`, `StopWholeOrNot`,
`ReplacedAtOnce`. `IInv` adds to the invariants that nothing opens the socket again once `_stop` closed it (`ClosedForGood`), the protocol of the lock (who holds it is at the
line that says so, and the socket blocks only in the sender's section or after a failure), that there are no
threads before the start, that the sender holds the attached stream or has yet to send its one stale
frame, and that a queue has room for the frame its stream's thread had in hand.

`AvtechKbd_proofs`, from `KbdAssumption` (0 is no key): `TypeCorrect`, `PressIsTimed`, `ReportsAgree`. The work item's
point of control is part of the invariant: between the report and the stores the
input core knows of a key the driver has not noted.

`Intercom_proofs`, from the assumptions of the two parts, for buffers of any length: `PanelFollowsServer`,
`RequestsAreReal` and `SessionIsBoth`. The argument is about the pipe, `rx` and `wire` one after the
other. Its last line is what the handler said last; `IInv` states for each value of `prev` which last lines
there can be and what the panel's mode is when there is none (`Offline`, `Idle`, `Called`, `Answered`): a line
is added by the server and removed by the panel, and lemmas about such a queue (`EndsAppend`, `EndsTail`,
`RevokedAppend`, `RevokedTail`) carry each clause through both. Lines of the panel that are on their way count,
because a decline changes the status before its line comes back. The server's steps are taken over by what they write
(`WritesGive`) and where they leave the handler (`StepKeeps`, `DiesKeeps`, `SuitingKeeps`). `SessionIsBoth` is a refinement: each step
of the composition is a step of `VicomClient` or leaves it alone, and the same of `VicomServer`, so that the
theorems about each hold of a session.

`JitterBuffer_proofs`, from `JitterAssumption`, for every buffer, frame size, modulus and network:
`WindowHolds` and `NothingInvented`. `IInv` is `InWindow` with the types, and that packets were sent. The lemmas
about numbers modulo `m` (`Nearer`, `SamePlace`) say that removing places brings what is left exactly so much
nearer (`RemoveBrings`) and that the place as far from the origin as a packet is ahead of it is
its own (`OwnPlace`), for which the capacity must divide the modulus.

`JitterOrder_proofs` adds `FramesInOrder` and `FramesLackOnlyLost`, for buffers whose sizes relate as the code's do
(`Sizes`): a packet is delayed by at most the misorder limit and a bufferful, and those, a frame and what may be lost
are small beside the modulus. 16 slots, a limit of 100 and 2^16 numbers satisfy it, and so do the sizes of
`jitter_order`. The argument replaces numbers modulo 2^16 by numbers: while the peer's restart is `Recognised`, the packet at
the origin and those behind it are what their places say (`Aligned`), because nothing on its way is a whole
modulus ahead (`NotSilenced`). That is a count: every packet beyond the window that would not look
late was lost or is in the gap of the restart, and these are fewer than fit between the window and the limit. `Explained`,
`OnlyBegins` and `Beyond` say what may be missing in the window, before it and behind it; `AddMakes` and `CompleteOrdered`
say what `add` does to an aligned buffer, with `StopsBetween` and `NowhereToStop` for the places where `smart_remove` stops.
The proof needed more of `Recognised` than the runs had: with a limit of 3, 4 slots and 2
lost packets TLC finds a restart `MaxMisorder + Capacity` numbers behind that is refused throughout, until its numbers meet
the old ones and the frames mix. Losses hold the origin back by as much again, and `Recognised` now says so.

`VoiceReturns` in the same module says that `NotSilent` holds of every stream, however long, for sizes that are
also `Ample`: a frame and the packets on their way fit into the buffer, a frame and three times those are within the misorder
limit, two bufferfuls and the limit are small beside the modulus, and at most one frame is kept back. The
code's sizes and those of `jitter_order` are so. The restart must be `Heard`: its numbers do not look like late ones, with
room for what is on its way. The argument counts packets by `Position`, their number without the gap of the
restart. Its invariant `Paced` says that what was refused lies before the origin, that what the buffer holds was received, that a finished
frame that waits for the next one has seen nothing arrive since, and that the silence is at most the distance from the
origin to the packet sent last and the `Slack` of the origin, a bufferful for each loss before it and one for a
restart. A packet that returns no frame from a full buffer shows that one of the `FrameSize` packets after the origin is missing (`Breaks`);
it was lost or left out by the restart, and pays for the way the origin moves (`MovesOn`). Where `smart_remove` finds nowhere to
stop and empties the buffer (`StopsAt`), a second one is missing and pays for the rest. After the last packet that was
received, everything sent was lost or is on its way, which bounds how far that is (`Filled`, `Bound`). TLC checked the invariant first, on three choices of the sizes.

Only model-checked: the liveness properties (`DeafnessNoticed`, `SilentPeerGivenUp`, `SlotFreed`, `HangupEnds`,
`Announced`, `SilentPanelGivenUp`, `SpokenIsSent`, `ThreadsEnd`, `NoKeyStuck`), because liveness under fairness is
out of the prover's reach; and `NotSilent` for a restart that is not `Heard`. Its packets look late and are refused
up to `MaxMisorder` times, and what the buffer then does depends on old packets among the new ones, which `Aligned`
does not describe. `jitter_order` has such a restart, 16 numbers behind.

## Where comments and code part

**`jitter_whole`.** `smart_remove` "makes sure that all packages belonging to the same frame are removed to prevent
sending corrupted frames to the decoder" (`jitter_buffer.py:101`). It compares the
timestamps of the packets that are there. When the first packet of a frame was lost and the
buffer is full, its place is removed and nothing remembers its timestamp; the loop stops at
the second packet, and the frame is returned without its beginning: run `jitter_whole`. What the
code does keep is `LacksOnlyLost`: nothing else is missing. With G.711, where every packet
is a frame of its own, the case does not arise.

**`rtp_join`.** `_stop` ends with "finally wait for threads to close" (`rtp_handler.py:221`). The detector's
thread waits for `amd_started` (`amd.py:72`), which only the receiver sets, after the first frame
it decoded (`rtp_handler.py:406`), for which the jitter buffer wants several packets. A call that is
hung up before the visitor's voice was heard leaves `_stop` in the join, `stop()` in `_stop`, and
whoever awaits it: the connection handler in `stop_calls`, or the receive task when the peer
hung up, after which no SIP message is received any more. Another way there is a `sendto`
that raises (`rtp_handler.py:356`): `setblocking(False)` is skipped, the receiver
may stay in `recv` with the lock, and `close()` does not wake it. `ThreadsEnd` says that these two are
the only ways.

**`intercom_manual`.** A `v` outside IDLE_REQUEST "was manual request" (`main.c:595`), and the `r` sent for a ring
"should result in switch_mode(MODE_REQUEST_ACTIVE)" (`main.c:556`). When ENTER is pressed in IDLE while
`s2` is on its way, two `r` are sent and two `v` come back. The first ends IDLE_REQUEST, the
second takes REQUEST_ACTIVE to MANUAL_ACTIVE. There ENTER sends `o`: the door is opened, and the
visitor cannot be answered any more.

## What the models show besides

The properties of the passing runs hold. They also had to be weakened, or given an exemption, where the code
does something a reader may not expect; the model contains it.

* A CANCEL ends every call that waits for its answer (`Concerns`): it is not compared with
  the Call-ID (`sip_call.py:798`).
* A call that rings while `register()` is under way is announced to nobody, and answers
  486 after 30 s (`listening = 0`); one heard by a SipClient with two callbacks marks itself
  busy (`listening = 2`).
* `stop_calls` sets `sip_status` to 0 after the hangup, when another call may have rung: that
  call stays in the slot without being announced. `is_call_requested` does the
  same after a registration. `StatusHasCall` is therefore an implication in one direction, and says nothing of these writes:
  no property of the project forbids that a ring is silenced.
* A decline right after an accept, before the delayed task ran, refuses nothing and sets
  `sip_status` to 0; the call is answered and `stop_calls` no longer ends it.
* A repeated accept queues a second stream which waits for the first, while the
  microphone's data already go to the second.
* A late copy of an INVITE moves an answered call to DIALING, whose send_handler then
  neither attaches a stream nor ends. A call that is hung up before its 200 is out is ANSWERED afterwards, and its
  send_handler does not end either: a BYE that comes at once, or the BYE for a copy of the call that refuses. `HangupEnds`
  exempts both, and the handler of a call whose session was replaced.
* When no codec is common the answered callback raises: the call keeps the slot and its
  30 s timeout is spent, until the peer hangs up. `SlotFreed` counts it as a confirmed call.
* The handler of a connection that was replaced cleans up late and stops the streams of the new
  one. `StreamsOwned` therefore asks for an owner and not for the owner's streams.
* A connection that asks for the picture while another's runs is told `v`, but the video goes to
  the other one.
* A handler that died of an exception leaves its streams running until the next
  connection or the next change of status.
* When port 8102 cannot be bound the placeholder stays, and every `stop_proc` from then on raises,
  which ends each handler that runs it; the same holds of a video child that was
  reaped and could not be restarted, until a restart succeeds.
* A line that arrives together with another is acted on only when the next one arrives.
* On the panel's side the other lines of one `recv` are dropped. A ping or a `v` followed at once by `s2` loses the
  ring, one followed by `s1` its end: the panel then stays in the mode it was in until the
  status changes again. `PanelFollows` and `RequestIsReal` hold of sessions without a dropped line
  only; TLC refutes both without that condition.
* MENU in a manual view sends `d`. When a visitor rings meanwhile, the `d` declines a call that nobody saw
  (`Dismissed`).
* A visitor who hangs up and is followed by another between two polls of the handler is replaced unnoticed: the
  panel goes on in the mode of the first.
* Our BYE for a refused copy of a call hangs up every call of its Call-ID (`ByeStopsAnother`), also one whose 200
  is being sent. When the next visitor takes the slot before that 200 is out, the answered callback
  starts the session in the next visitor's call, which was not accepted. `SessionWasAccepted` says that this is all that
  can happen. When the next visitor has been answered already, the session replaces that of the conversation, which goes on with nobody
  to stop it and with the stream in it (`stray`).
* A hangup before the task that runs `_start` had its turn raises in `_stop` (there is no socket to close), and the
  session then starts and is not stopped by anybody (`stop = "raised"`). A connection handler that hung up dies of it,
  and when it was the peer that hung up no SIP message is received any more (`ReceiverDies`). `NoStrayCall` names these two
  as the only ways in which a session goes on behind the interface's back, and `StopIsWhole` says of the session itself
  that a stop leaves it whole or nothing of it.
* `wait_finished` waits "for the current stream to be fully sent" (`audio_stream.py:43`); the stream of a call sets the
  future when its last frame was queued. What is left in the queue of a stream that is
  replaced is not sent.
* A datagram too short for an RTP header raises in `RtpPacket.parse` and ends the receiver thread.
* In the keypad driver, a release timer that fires between the test of `key_pressed` and its restart
  leaves a timer armed for a key that was released. It may fire between the report of the next key and
  the store of its code; the key that is then released is the old one, and the new one stays down until it is
  pressed again. `DownIsPressed` and `NoKeyStuck` hold when this did not happen (`late`), and TLC refutes
  them without that condition.
* A peer whose numbers restart shortly behind the old ones is taken for late, refused until it
  catches up, and then mixed with what the buffer kept of the old stream (`Recognised`).
* In the panel, MENU after a failed send shows the idle screen without a connection until
  the next keepalive; credit of early pongs delays the detection of a silent peer by one
  period each; a child that exited is not started again before the mode stops it.

## Not modelled

* The format of RTP packets and the sender's sequence number and timestamp, which wrap one below the powers of
  two and so skip a value; DTMF; `frame_monitor`.
* Time in the keypad driver: an interrupt that restarts the 50 ms press timer postpones the read of
  the key for as long as edges keep coming.
* The registration exchange of `SipCore.connect`, of which `DomruCall` keeps the outcome.
* `main()` and the login command of `mainvicom_srv.py`, the ffmpeg command lines and the packets that
  `UdpHandler` passes on. The supervisor's restart of an audio child replaces it by the same
  program in one step. An exception that ends the supervisor is a `Restart` to
  "reaped" that no other follows.
* Login and the HTTP requests of the interface; the 401 exchange of REGISTER; outgoing
  calls, transfers, DTMF; codecs, answering-machine detection: not part of an incoming
  call, or arithmetic on samples.
* `mainvicom_simple.py` is imported and never instantiated.
* The DMA driver of the kernel patch: its Makefile line is commented out and it does
  not compile. The other drivers program hardware that the repository does not describe.
* alsa-lib, alsa-utils, busybox, ffmpeg, lame, x264, fbDOOM, evtest, sl, gpio-utils, the
  root file system and the tool chain: other projects and configuration.

## Plan

Done: every component of the door phone itself has a module, those that interact are composed
(`Intercom`) or refine an abstract specification (`CallSlot`). Left, in this order:

1. Liveness of the composition: a ring that lasts is shown, unless a line was dropped.
2. The registration exchange, with `_is_connecting` and a connect that fails.

## Running

    tlc -config VicomClient.cfg VicomClient
    tlc -config VicomServerLive.cfg VicomServer
    tlc -config MCVicomServer.cfg MCVicomServer
    tlc -config MCDomruSlot.cfg MCDomruCall
    tlc -config DomruCallLive.cfg DomruCall
    tlc -config Intercom.cfg Intercom
    tlc -config IntercomManual.cfg Intercom
    tlc -config JitterBuffer.cfg JitterBuffer
    tlc -config JitterFrames.cfg JitterBuffer
    tlc -config RtpSession.cfg RtpSession
    tlc -config RtpJoin.cfg RtpSession
    tlc -config AvtechKbd.cfg AvtechKbd
    tlapm VicomClient_proofs.tla
    tlapm VicomServer_proofs.tla
    tlapm Intercom_proofs.tla
    tlapm DomruCall_proofs.tla
    tlapm RtpSession_proofs.tla
    tlapm JitterBuffer_proofs.tla
    tlapm JitterOrder_proofs.tla
    tlapm AvtechKbd_proofs.tla
