---------------------------- MODULE JitterBuffer ----------------------------
(***************************************************************************)
(* src/mainvicom_srv/CustomPySIP/jitter_buffer.py, fed by the receiver     *)
(* thread of an RTP session with the packets of a peer that arrive late,   *)
(* twice, out of order or not at all, across the wrap of the 16-bit        *)
(* sequence number and a restart of the peer's numbering.                  *)
(*                                                                         *)
(* A packet is its number in the peer's stream, which the buffer does not  *)
(* know: it sees the number modulo 2^16 and a timestamp that the packets   *)
(* of one frame share.                                                     *)
(***************************************************************************)
EXTENDS Integers, FiniteSets, FiniteSetsExt

CONSTANTS
  Modulus,       \* 2^16
  Capacity,      \* slots
  MaxMisorder,   \* from so far behind on a packet is the peer's restart
  Prefetch,      \* further frames begun before one is returned
  FrameSize,     \* packets of a frame
  None,          \* no origin yet, an empty slot
  First,         \* the number the peer begins with
  MaxSent,       \* bound: packets the peer sends
  Window,        \* the network delays a packet by fewer packets than these
  MaxLost,       \* bound: packets the network loses
  Jumps          \* the gaps a restart leaves in the numbers

ASSUME JitterAssumption ==
  /\ {Capacity, MaxMisorder, FrameSize, Window} \subseteq Nat \ {0}
  /\ Modulus \in Nat \ {0} /\ Modulus % Capacity = 0
  /\ Prefetch \in Nat /\ First \in Nat /\ MaxSent \in Nat /\ MaxLost \in Nat
  /\ None \notin Int /\ Jumps \subseteq 1..(Modulus - 1)

VARIABLES
  buffer,    \* _origin and _packets
  frame,     \* what the last add returned: the packets joined, {} for None
  net,       \* packets on their way; the second of two is a copy
  sent,      \* the number of the next packet
  restart,   \* the numbers a restart left out
  lost,      \* packets the network lost
  refused,   \* packets that came too late
  last,      \* the latest packet that was in a frame
  silent     \* packets sent since the last frame

vars == <<buffer, frame, net, sent, restart, lost, refused, last, silent>>

Slots == 0..(Capacity - 1)
Empty == [p \in Slots |-> None]

SequenceNumber(n) == n % Modulus
Timestamp(n) == n \div FrameSize

Init ==
  /\ buffer = [origin |-> None, packets |-> Empty] /\ frame = {}
  /\ net = {} /\ sent = First /\ restart = [from |-> First, to |-> First]
  /\ lost = {} /\ refused = {} /\ last = First - 1 /\ silent = 0
-----------------------------------------------------------------------------
(* The buffer.  The place i holds the i-th packet from the origin on. *)

Slot(b, i) == (b.origin + i) % Capacity
Held(b, i) == b.packets[Slot(b, i)]

Remove(b, count) ==
  [origin  |-> (b.origin + count) % Modulus,
   packets |-> [p \in Slots |-> IF \E i \in 0..(count - 1) : p = Slot(b, i)
                                THEN None ELSE b.packets[p]]]

Present(b) == {i \in Slots : Held(b, i) # None}

\* Slip: any packet from count on is kept.
FrameStartsSlip(b, count) == {i \in Present(b) : i >= count}

\* The places from count on where smart_remove stops: a packet of another frame than the
\* one that is there before it.
FrameStarts(b, count) ==
  {i \in Present(b) :
    /\ i >= count
    /\ \A j \in Present(b) :
         j < i /\ (\A k \in Present(b) : k < i => k <= j) =>
           Timestamp(Held(b, j)) # Timestamp(Held(b, i))}

\* How far n is ahead of the origin, and how far behind; the nearer of the two counts.
Delta(b, n) == (SequenceNumber(n) - b.origin) % Modulus
Misorder(b, n) == (b.origin - SequenceNumber(n)) % Modulus
Behind(b, n) == b.origin # None /\ Misorder(b, n) < Delta(b, n)

\* Slip: what is behind is late, however far.
TooLateSlip(b, n) == Behind(b, n)

\* Slip: what is late begins the buffer anew.
NeverLateSlip(b, n) == FALSE
TooLate(b, n) == Behind(b, n) /\ Misorder(b, n) < MaxMisorder

Excess(b, n) == Delta(b, n) - Capacity + 1

\* Slip: the origin stays where smart_remove left it.
RoomSlip(b, n) ==
  LET stops == FrameStarts(b, Excess(b, n))
  IN CASE b.origin = None \/ Behind(b, n) -> [origin |-> SequenceNumber(n), packets |-> Empty]
       [] b.origin # None /\ ~Behind(b, n) /\ Delta(b, n) >= Capacity ->
            Remove(b, IF stops = {} THEN Capacity ELSE Min(stops))
       [] OTHER -> b

\* The buffer begins with n; or places are removed until n fits, all of them when no
\* frame starts in what is left.
Room(b, n) ==
  LET begun == [origin |-> SequenceNumber(n), packets |-> Empty]
      stops == FrameStarts(b, Excess(b, n))
  IN CASE b.origin = None \/ Behind(b, n) -> begun
       [] b.origin # None /\ ~Behind(b, n) /\ Delta(b, n) >= Capacity ->
            IF stops = {} THEN begun ELSE Remove(b, Min(stops))
       [] OTHER -> b

Store(b, n) == [b EXCEPT !.packets[SequenceNumber(n) % Capacity] = n]

\* The places where a frame ended, as far as no packet is missing before.
FrameEnds(b) ==
  {i \in Slots \ {0} :
    /\ \A j \in 0..i : Held(b, j) # None
    /\ Timestamp(Held(b, i)) # Timestamp(Held(b, i - 1))}

Complete(b) == FrameEnds(b) # {} /\ Cardinality(FrameEnds(b)) >= Prefetch

Refuse == UNCHANGED buffer /\ frame' = {} /\ UNCHANGED <<last, silent>>

Add(n) ==
  LET b == Store(Room(buffer, n), n)
      end == Min(FrameEnds(b))
  IN IF Complete(b)
     THEN /\ buffer' = Remove(b, end)
          /\ frame' = {Held(b, i) : i \in 0..(end - 1)}
          /\ last' = Max(frame' \cup {last}) /\ silent' = 0
     ELSE buffer' = b /\ frame' = {} /\ UNCHANGED <<last, silent>>
-----------------------------------------------------------------------------
(* The peer and the network. *)

Send ==
  /\ sent - First - (restart.to - restart.from) < MaxSent
  /\ \A p \in net : p[1] > sent - Window
  /\ net' = net \cup {<<sent, "first">>} /\ sent' = sent + 1 /\ silent' = silent + 1
  /\ UNCHANGED <<buffer, frame, restart, lost, refused, last>>

Lose(n) ==
  /\ <<n, "first">> \in net /\ Cardinality(lost) < MaxLost
  /\ net' = net \ {<<n, "first">>} /\ lost' = lost \cup {n}
  /\ UNCHANGED <<buffer, frame, sent, restart, refused, last, silent>>

\* Once, when nothing is on its way any more.
Restart(jump) ==
  /\ net = {} /\ sent > First /\ restart.to = First
  /\ restart' = [from |-> sent, to |-> sent + jump] /\ sent' = sent + jump
  /\ UNCHANGED <<buffer, frame, net, lost, refused, last, silent>>

Receive(n, copy) ==
  /\ <<n, copy>> \in net
  /\ \/ net' = net \ {<<n, copy>>}
     \/ copy = "first" /\ net' = (net \ {<<n, copy>>}) \cup {<<n, "copy">>}
  /\ IF TooLate(buffer, n) THEN Refuse ELSE Add(n)
  /\ refused' = IF TooLate(buffer, n) /\ copy = "first" THEN refused \cup {n} ELSE refused
  /\ UNCHANGED <<sent, restart, lost>>

Numbers == {p[1] : p \in net}

Next ==
  \/ Send
  \/ \E n \in Numbers : Lose(n) \/ Receive(n, "first") \/ Receive(n, "copy")
  \/ \E jump \in Jumps : Restart(jump)

Spec == Init /\ [][Next]_vars
-----------------------------------------------------------------------------
(* Properties. *)

\* The origin is a 16-bit number and every packet lies at its own place, fewer than
\* Capacity behind the origin, across wraps, restarts and smart_remove.
InWindow ==
  /\ buffer.origin \in 0..(Modulus - 1) \cup {None}
  /\ \A p \in Slots :
       buffer.packets[p] # None =>
         /\ buffer.origin # None
         /\ SequenceNumber(buffer.packets[p]) % Capacity = p
         /\ Delta(buffer, buffer.packets[p]) < Capacity

\* A restart that continues with numbers shortly behind the old ones looks like late
\* packets first, and then meets what is left of the old stream, whose origin losses held back.
Recognised ==
  \/ restart.to = First
  \/ (restart.from - restart.to) % Modulus >= MaxMisorder + Capacity + MaxLost

\* Frames are returned in the order they were sent, and none twice, whatever arrives late
\* or again, unless the peer restarts shortly behind its old numbers.
InOrder == [][Recognised /\ buffer' # buffer => \A n \in frame' : n > last]_vars

\* A returned frame lacks at most its beginning, and of that only what was lost, came too
\* late or was never sent: smart_remove drops no packet of a frame of which it keeps another.
NeverSent(n) == n < First \/ (restart.from <= n /\ n < restart.to)
SameFrame(n) == {Timestamp(n) * FrameSize + i : i \in 0..(FrameSize - 1)}
LacksOnlyLost ==
  [][Recognised /\ buffer' # buffer =>
       \A n \in frame' : \A m \in SameFrame(n) \ frame' :
         m < n /\ (m \in lost \cup refused \/ <<m, "first">> \in net' \/ NeverSent(m))]_vars

\* The voice does not stay away: whatever is late or doubled, and across the wrap, a lost
\* packet and a restart cost a bufferful each, and a restart that looks like late packets
\* is recognised after MaxMisorder of them.
NotSilent == silent <= MaxMisorder + (1 + MaxLost) * Capacity

\* "Makes sure that all packages belonging to the same frame are removed to prevent sending
\* corrupted frames to the decoder" (jitter_buffer.py:101): once a frame was returned and the
\* origin is at the start of one, only smart_remove can break a frame.
FramesWhole ==
  [][last >= First /\ restart.to = First /\ buffer' # buffer =>
       \A n \in frame' : SameFrame(n) \subseteq frame']_vars
=============================================================================
