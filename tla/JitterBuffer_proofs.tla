------------------------- MODULE JitterBuffer_proofs -------------------------
(***************************************************************************)
(* Proofs about the jitter buffer, for every buffer size, frame size,      *)
(* modulus and network: every packet lies at its own place in the window   *)
(* that the origin opens, whatever arrives and whatever is removed.        *)
(***************************************************************************)
EXTENDS JitterBuffer, WellFoundedInduction, TLAPS

-----------------------------------------------------------------------------
(* Numbers modulo m. *)

\* Division with remainder.
LEMMA Division ==
  ASSUME NEW m \in Nat \ {0}, NEW a \in Int
  PROVE  a % m \in 0..(m - 1) /\ \E q \in Int : a = m * q + (a % m)
<1>1. a % m \in 0..(m - 1) /\ a \div m \in Int
  OBVIOUS
<1>2. a = m * (a \div m) + (a % m)
  OBVIOUS
<1> QED
  BY <1>1, <1>2

\* The remainder is the only number of 0..(m - 1) that differs from a by a multiple of m.
LEMMA Remainder ==
  ASSUME NEW m \in Nat \ {0}, NEW q \in Int, NEW r \in 0..(m - 1)
  PROVE  (m * q + r) % m = r
  OBVIOUS

\* Multiples of m do not change the remainder.
LEMMA Shift ==
  ASSUME NEW m \in Nat \ {0}, NEW a \in Int, NEW q \in Int
  PROVE  (a + m * q) % m = a % m
<1>1. PICK p \in Int : a = m * p + (a % m)
  BY Division
<1>2. a + m * q = m * (p + q) + (a % m)
  BY <1>1
<1>3. p + q \in Int /\ a % m \in 0..(m - 1)
  BY Division
<1> QED
  BY <1>2, <1>3, Remainder

\* Going c further from the origin o brings s, which is d ahead, c nearer.
LEMMA Nearer ==
  ASSUME NEW m \in Nat \ {0}, NEW o \in 0..(m - 1), NEW s \in Int, NEW d \in Int,
         d = (s - o) % m, NEW c \in 0..d
  PROVE  (s - ((o + c) % m)) % m = d - c
<1> DEFINE a == s - o
           b == o + c
<1>1. a \in Int /\ b \in Int /\ a % m = d
  OBVIOUS
<1>2. /\ s = a + o /\ b = o + c
  OBVIOUS
<1> HIDE DEF a, b
<1>3. d \in 0..(m - 1) /\ \E k \in Int : a = m * k + d
  BY <1>1, Division
<1>4. PICK k \in Int : a = m * k + d
  BY <1>3
<1>5. PICK j \in Int : b = m * j + (b % m)
  BY <1>1, Division
<1> DEFINE r == b % m
<1>6. b = m * j + r /\ r \in Int
  BY <1>1, <1>5
<1> HIDE DEF r
<1>7. s - r = (m * k + d) + o - (o + c) + m * j
  BY <1>2, <1>4, <1>6
<1>8. m * k + m * j = m * (k + j)
  OBVIOUS
<1>9. s - r = m * (k + j) + (d - c)
  BY <1>3, <1>7, <1>8
<1>10. d - c \in 0..(m - 1) /\ k + j \in Int
  BY <1>3
<1>11. (m * (k + j) + (d - c)) % m = d - c
  BY <1>10, Remainder
<1> QED
  BY <1>9, <1>11 DEF r, b

\* How far s is ahead of o tells s up to a multiple of m.
LEMMA Ahead ==
  ASSUME NEW m \in Nat \ {0}, NEW o \in 0..(m - 1), NEW s \in Int, NEW d \in Int,
         d = (s - o) % m
  PROVE  d \in 0..(m - 1) /\ \E k \in Int : s - o = m * k + d
<1> DEFINE a == s - o
<1>1. a \in Int /\ a % m = d
  OBVIOUS
<1> HIDE DEF a
<1>2. d \in 0..(m - 1) /\ \E k \in Int : a = m * k + d
  BY <1>1, Division
<1> QED
  BY <1>2 DEF a

\* What is a multiple of m is one of every divisor c of m.
LEMMA Multiple ==
  ASSUME NEW m \in Nat \ {0}, NEW c \in Nat \ {0}, m % c = 0, NEW k \in Int
  PROVE  \E i \in Int : m * k = c * i
<1>1. PICK j \in Int : m = c * j + (m % c)
  <2>1. m \in Int
    OBVIOUS
  <2> QED
    BY <2>1, Division, Zenon
<1>2. m * k = (c * j) * k
  BY <1>1
<1>3. (c * j) * k = c * (j * k) /\ j * k \in Int
  OBVIOUS
<1> QED
  BY <1>2, <1>3, Zenon

\* Numbers that differ by a multiple of c have the same place among c.
LEMMA SamePlace ==
  ASSUME NEW c \in Nat \ {0}, NEW x \in Int, NEW y \in Int, NEW i \in Int, y - x = c * i
  PROVE  x % c = y % c
<1>1. y = x + c * i
  <2>1. ASSUME NEW p \in Int, y - x = p PROVE y = x + p
    BY <2>1
  <2>2. c * i \in Int
    OBVIOUS
  <2> QED
    BY <2>1, <2>2, Zenon
<1>2. (x + c * i) % c = x % c
  BY Shift, Zenon
<1> QED
  BY <1>1, <1>2, Zenon

\* A non-empty set of natural numbers has a smallest element, and Min is it.
LEMMA MinIsLeast ==
  ASSUME NEW S \in SUBSET Nat, S # {}
  PROVE  Min(S) \in S /\ \A y \in S : Min(S) <= y
<1> DEFINE less == OpToRel(<, Nat)
<1>1. IsWellFoundedOn(less, Nat)
  BY NatLessThanWellFounded
<1>2. \A x, y \in Nat : <<y, x>> \in less <=> y < x
  BY DEF OpToRel
<1> HIDE DEF less
<1>3. PICK x \in S : \A y \in S : ~ (<<y, x>> \in less)
  BY <1>1, WFMin, Zenon
<1>4. ASSUME NEW y \in S PROVE x <= y
  <2>1. x \in Nat /\ y \in Nat
    OBVIOUS
  <2>2. ~ (y < x)
    BY <1>2, <1>3, <2>1, Zenon
  <2> QED
    BY <2>1, <2>2
<1> QED
  BY <1>3, <1>4 DEF Min
-----------------------------------------------------------------------------
(* The operations of the buffer. *)

Buffers == [origin: 0..(Modulus - 1) \cup {None}, packets: [Slots -> Nat \cup {None}]]

\* What InWindow says of one buffer.
Fitting(b) ==
  /\ b \in Buffers
  /\ \A p \in Slots :
       b.packets[p] # None =>
         /\ b.origin # None
         /\ SequenceNumber(b.packets[p]) % Capacity = p
         /\ Delta(b, b.packets[p]) < Capacity

\* What the assumptions on the constants say, without the remainder.
LEMMA Constants ==
  /\ Capacity \in Nat \ {0} /\ Modulus \in Nat \ {0} /\ First \in Nat
  /\ FrameSize \in Nat \ {0}
  /\ \A n \in Int : n # None
  /\ \A jump \in Jumps : jump \in Nat
  BY JitterAssumption

\* A sequence number is a 16-bit number.
LEMMA SequenceNumberType ==
  ASSUME NEW n \in Nat
  PROVE  SequenceNumber(n) \in 0..(Modulus - 1)
<1>1. n \in Int /\ Modulus \in Nat \ {0}
  BY Constants
<1> QED
  BY <1>1, Division DEF SequenceNumber

\* A packet is fewer than 2^16 ahead of any origin.
LEMMA DeltaType ==
  ASSUME NEW b, b.origin \in 0..(Modulus - 1), NEW n \in Nat
  PROVE  Delta(b, n) \in 0..(Modulus - 1)
<1> DEFINE a == SequenceNumber(n) - b.origin
<1>1. a \in Int
  BY SequenceNumberType, Constants
<1> HIDE DEF a
<1>2. a % Modulus \in 0..(Modulus - 1)
  BY <1>1, Constants, Division
<1> QED
  BY <1>2 DEF Delta, a

\* The place that is as far from the origin as the packet is ahead of it is its own.
LEMMA OwnPlace ==
  ASSUME NEW b, b.origin \in 0..(Modulus - 1), NEW n \in Nat
  PROVE  Slot(b, Delta(b, n)) = SequenceNumber(n) % Capacity
<1> DEFINE o == b.origin
           s == SequenceNumber(n)
           d == Delta(b, n)
<1>1. o \in 0..(Modulus - 1) /\ s \in 0..(Modulus - 1) /\ d \in 0..(Modulus - 1)
  BY SequenceNumberType, DeltaType
<1>2. d = (s - o) % Modulus
  BY DEF Delta
<1>3. o \in Int /\ s \in Int /\ d \in Int
  BY <1>1, Constants
<1> HIDE DEF o, s, d
<1>4. \E k \in Int : s - o = Modulus * k + d
  <2>1. Modulus \in Nat \ {0}
    BY Constants
  <2> QED
    BY <1>1, <1>2, <1>3, <2>1, Ahead, ZenonT(60)
<1>5. PICK k \in Int : s - o = Modulus * k + d
  BY <1>4
<1>6. \E i \in Int : s - o = Capacity * i + d
  <2>1. Modulus \in Nat \ {0} /\ Capacity \in Nat \ {0} /\ Modulus % Capacity = 0
    BY JitterAssumption
  <2>2. \E i \in Int : Modulus * k = Capacity * i
    BY <2>1, Multiple, ZenonT(60)
  <2> QED
    BY <1>5, <2>2, Zenon
<1> DEFINE x == o + d
<1>7. PICK i \in Int : s - x = Capacity * i
  <2>1. ASSUME NEW i \in Int, s - o = Capacity * i + d PROVE s - x = Capacity * i
    <3>1. Capacity * i \in Int
      BY Constants
    <3>2. ASSUME NEW p \in Int, s - o = p + d PROVE s - x = p
      BY <1>3, <3>2
    <3> QED
      BY <2>1, <3>1, <3>2, Zenon
  <2> QED
    BY <1>6, <2>1
<1>8. x \in Int /\ Capacity \in Nat \ {0}
  BY <1>3, Constants
<1> HIDE DEF x
<1>9. x % Capacity = s % Capacity
  BY <1>3, <1>7, <1>8, SamePlace, Zenon
<1> QED
  BY <1>9 DEF Slot, o, s, d, x

\* The buffer that begins with n has n at its origin.
LEMMA BeginFits ==
  ASSUME NEW n \in Nat, NEW b, b = [origin |-> SequenceNumber(n), packets |-> Empty]
  PROVE  Fitting(b) /\ b.origin # None /\ Delta(b, n) < Capacity
<1>1. /\ b \in Buffers /\ b.origin = SequenceNumber(n) /\ b.origin # None
      /\ \A p \in Slots : b.packets[p] = None
  BY SequenceNumberType, Constants DEF Buffers, Empty
<1>2. Delta(b, n) = 0
  <2>1. SequenceNumber(n) - b.origin = 0
    BY <1>1, SequenceNumberType, Constants
  <2>2. 0 % Modulus = 0
    BY Constants
  <2> QED
    BY <2>1, <2>2 DEF Delta
<1> QED
  BY <1>1, <1>2, Constants DEF Fitting

\* A packet that fits is stored at its own place.
LEMMA StoreFits ==
  ASSUME NEW b, Fitting(b), b.origin # None, NEW n \in Nat, Delta(b, n) < Capacity
  PROVE  Fitting(Store(b, n)) /\ Store(b, n).origin # None
<1> DEFINE s == SequenceNumber(n) % Capacity
           c == Store(b, n)
<1>1. s \in Slots
  <2>1. SequenceNumber(n) \in Int
    BY SequenceNumberType, Constants
  <2> QED
    BY <2>1, Constants, Division DEF Slots
<1>2. /\ c.origin = b.origin /\ c \in Buffers
      /\ \A p \in Slots : c.packets[p] = IF p = s THEN n ELSE b.packets[p]
  BY <1>1 DEF Store, Fitting, Buffers
<1>3. \A m : Delta(c, m) = Delta(b, m)
  BY <1>2 DEF Delta
<1> HIDE DEF c
<1>4. ASSUME NEW p \in Slots, c.packets[p] # None
      PROVE  /\ c.origin # None
             /\ SequenceNumber(c.packets[p]) % Capacity = p
             /\ Delta(c, c.packets[p]) < Capacity
  BY <1>2, <1>3, <1>4 DEF Fitting
<1> QED
  BY <1>2, <1>4 DEF Fitting, c

\* Removing places from the origin on brings every packet beyond them so much nearer, and
\* leaves the others as far behind the window as they were.
LEMMA RemoveBrings ==
  ASSUME NEW b, b.origin \in 0..(Modulus - 1), NEW n \in Nat,
         NEW count \in 0..Delta(b, n)
  PROVE  Delta(Remove(b, count), n) = Delta(b, n) - count
<1> DEFINE o == b.origin
           s == SequenceNumber(n)
           d == Delta(b, n)
<1>1. o \in 0..(Modulus - 1) /\ s \in Int /\ d \in Int /\ d = (s - o) % Modulus
  BY SequenceNumberType, DeltaType, Constants DEF Delta
<1>2. Remove(b, count).origin = (o + count) % Modulus
  BY DEF Remove
<1> HIDE DEF o, s, d
<1>3. (s - ((o + count) % Modulus)) % Modulus = d - count
  BY <1>1, Constants, Nearer, ZenonT(60) DEF d
<1> QED
  BY <1>2, <1>3 DEF Delta, s, d, o

\* Removing places keeps every packet that stays in the window.
LEMMA RemoveFits ==
  ASSUME NEW b, Fitting(b), b.origin # None, NEW count \in Nat
  PROVE  Fitting(Remove(b, count)) /\ Remove(b, count).origin # None
<1> DEFINE c == Remove(b, count)
<1>1. /\ b.origin \in 0..(Modulus - 1) /\ b.packets \in [Slots -> Nat \cup {None}]
  BY DEF Fitting, Buffers
<1>2. c.origin \in 0..(Modulus - 1) /\ c.origin # None
  <2> DEFINE a == b.origin + count
  <2>1. a \in Int
    BY <1>1, Constants
  <2> HIDE DEF a
  <2>2. a % Modulus \in 0..(Modulus - 1)
    BY <2>1, Constants, Division
  <2>3. c.origin = a % Modulus
    BY DEF Remove, a
  <2> QED
    BY <2>2, <2>3, Constants
<1>3. \A p \in Slots : c.packets[p] = IF \E i \in 0..(count - 1) : p = Slot(b, i)
                                      THEN None ELSE b.packets[p]
  BY DEF Remove
<1>4. c \in Buffers
  BY <1>1, <1>2 DEF Remove, Buffers
<1> HIDE DEF c
<1>5. ASSUME NEW p \in Slots, c.packets[p] # None
      PROVE  /\ SequenceNumber(c.packets[p]) % Capacity = p
             /\ Delta(c, c.packets[p]) < Capacity
  <2> DEFINE n == b.packets[p]
             d == Delta(b, n)
  <2>1. /\ c.packets[p] = n /\ n # None /\ n \in Nat
        /\ ~ \E i \in 0..(count - 1) : p = Slot(b, i)
    BY <1>1, <1>3, <1>5
  <2>2. SequenceNumber(n) % Capacity = p /\ d < Capacity
    BY <2>1 DEF Fitting
  <2>3. d \in Nat /\ Slot(b, d) = p
    BY <1>1, <2>1, <2>2, OwnPlace, DeltaType, Constants
  <2>4. count \in 0..d
    BY <2>1, <2>3
  <2> HIDE DEF n
  <2>5. Delta(Remove(b, count), n) = d - count
    BY <1>1, <2>1, <2>4, RemoveBrings
  <2> QED
    BY <2>1, <2>2, <2>3, <2>5, Constants DEF c
<1> QED
  BY <1>2, <1>4, <1>5 DEF Fitting, c

\* Where a frame starts is a place of a packet, beyond those that have to go.
LEMMA FirstStart ==
  ASSUME NEW b, NEW count \in Int, FrameStarts(b, count) # {}
  PROVE  /\ Min(FrameStarts(b, count)) \in 0..(Capacity - 1)
         /\ Min(FrameStarts(b, count)) >= count
         /\ Held(b, Min(FrameStarts(b, count))) # None
<1>1. /\ FrameStarts(b, count) \in SUBSET Nat
      /\ \A i \in FrameStarts(b, count) : i \in Slots /\ i >= count /\ Held(b, i) # None
  BY Constants DEF FrameStarts, Present, Slots
<1>2. Min(FrameStarts(b, count)) \in FrameStarts(b, count)
  BY <1>1, MinIsLeast
<1> QED
  BY <1>1, <1>2 DEF Slots

\* The first place where a frame ended comes after packets only.
LEMMA FirstEnd ==
  ASSUME NEW b, FrameEnds(b) # {}
  PROVE  /\ Min(FrameEnds(b)) \in 1..(Capacity - 1)
         /\ \A j \in 0..Min(FrameEnds(b)) : Held(b, j) # None
<1>1. /\ FrameEnds(b) \in SUBSET Nat
      /\ \A i \in FrameEnds(b) : /\ i \in Slots \ {0}
                                 /\ \A j \in 0..i : Held(b, j) # None
  BY Constants DEF FrameEnds, Slots
<1>2. Min(FrameEnds(b)) \in FrameEnds(b)
  BY <1>1, MinIsLeast
<1> QED
  BY <1>1, <1>2, Constants DEF Slots

\* After Room the packet fits, and nothing was put where it had not been.
LEMMA RoomFits ==
  ASSUME NEW b, Fitting(b), NEW n \in Nat
  PROVE  /\ Fitting(Room(b, n)) /\ Room(b, n).origin # None
         /\ Delta(Room(b, n), n) < Capacity
         /\ \A p \in Slots : Room(b, n).packets[p] \in {None, b.packets[p]}
<1> DEFINE begun == [origin |-> SequenceNumber(n), packets |-> Empty]
           stops == FrameStarts(b, Excess(b, n))
<1>1. /\ Fitting(begun) /\ begun.origin # None /\ Delta(begun, n) < Capacity
      /\ \A p \in Slots : begun.packets[p] = None
  BY BeginFits DEF Empty
<1>2. CASE b.origin = None \/ Behind(b, n)
  <2>1. Room(b, n) = begun
    BY <1>2 DEF Room
  <2> QED
    BY <1>1, <2>1
<1>3. CASE b.origin # None /\ ~Behind(b, n) /\ Delta(b, n) >= Capacity
  <2>1. CASE stops = {}
    <3>1. Room(b, n) = begun
      BY <1>3, <2>1 DEF Room
    <3> QED
      BY <1>1, <3>1
  <2>2. CASE stops # {}
    <3> DEFINE c == Remove(b, Min(stops))
    <3>1. Room(b, n) = c
      BY <1>3, <2>2 DEF Room
    <3>2. b.origin \in 0..(Modulus - 1)
      BY <1>3 DEF Fitting, Buffers
    <3>3. Delta(b, n) \in Int /\ Excess(b, n) \in Int
      BY <3>2, DeltaType, Constants DEF Excess
    <3>4. Min(stops) \in 0..(Capacity - 1) /\ Min(stops) >= Delta(b, n) - Capacity + 1
      BY <2>2, <3>3, FirstStart DEF Excess
    <3>5. Min(stops) \in 0..Delta(b, n) /\ Min(stops) \in Nat
      BY <1>3, <3>3, <3>4, Constants
    <3> HIDE DEF stops
    <3>6. Fitting(c) /\ c.origin # None
      BY <1>3, <3>5, RemoveFits
    <3>7. Delta(c, n) = Delta(b, n) - Min(stops)
      BY <3>2, <3>5, RemoveBrings
    <3>8. Delta(c, n) < Capacity
      BY <3>3, <3>4, <3>5, <3>7, Constants
    <3>9. \A p \in Slots : c.packets[p] \in {None, b.packets[p]}
      BY DEF Remove
    <3> QED
      BY <3>1, <3>6, <3>8, <3>9
  <2> QED
    BY <2>1, <2>2
<1>4. CASE /\ ~ (b.origin = None \/ Behind(b, n))
           /\ ~ (b.origin # None /\ ~Behind(b, n) /\ Delta(b, n) >= Capacity)
  <2>1. Room(b, n) = b /\ b.origin # None /\ ~ (Delta(b, n) >= Capacity)
    BY <1>4 DEF Room
  <2>2. Delta(b, n) \in Int
    BY <2>1, DeltaType, Constants DEF Fitting, Buffers
  <2> QED
    BY <2>1, <2>2, Constants
<1> QED
  BY <1>2, <1>3, <1>4
-----------------------------------------------------------------------------
(* The steps. *)

\* The packets of the buffer and of the last frame, and those on their way, were sent.
Genuine ==
  /\ \A p \in Slots : buffer.packets[p] # None => buffer.packets[p] \in First..(sent - 1)
  /\ frame \subseteq First..(sent - 1)
  /\ \A p \in net : p[1] \in First..(sent - 1)

\* The inductive invariant.
IInv ==
  /\ Fitting(buffer)
  /\ sent \in Nat /\ First <= sent
  /\ Genuine

\* add() keeps the packets of the buffer and those of the frame in order.
LEMMA AddStep ==
  ASSUME IInv, NEW n \in First..(sent - 1), Add(n), sent' = sent,
         \A p \in net' : p[1] \in First..(sent - 1)
  PROVE  IInv'
<1> DEFINE r == Room(buffer, n)
           b == Store(r, n)
           end == Min(FrameEnds(b))
<1>1. n \in Nat /\ sent \in Nat /\ First \in Nat
  BY Constants DEF IInv
<1>2. /\ Fitting(r) /\ r.origin # None /\ Delta(r, n) < Capacity
      /\ \A p \in Slots : r.packets[p] \in {None, buffer.packets[p]}
  BY <1>1, RoomFits DEF IInv
<1> HIDE DEF r
<1>3. Fitting(b) /\ b.origin # None
  BY <1>1, <1>2, StoreFits
<1>4. ASSUME NEW p \in Slots, b.packets[p] # None PROVE b.packets[p] \in First..(sent - 1)
  <2>1. b.packets[p] = n \/ b.packets[p] = r.packets[p]
    BY <1>2, <1>4 DEF Store, Fitting, Buffers
  <2> QED
    BY <1>2, <1>4, <2>1 DEF IInv, Genuine
<1>5. CASE Complete(b)
  <2>1. /\ buffer' = Remove(b, end) /\ frame' = {Held(b, i) : i \in 0..(end - 1)}
    BY <1>5 DEF Add, r
  <2>2. end \in 1..(Capacity - 1) /\ \A j \in 0..end : Held(b, j) # None
    BY <1>5, FirstEnd DEF Complete
  <2>3. ASSUME NEW i \in 0..(end - 1) PROVE Held(b, i) \in First..(sent - 1)
    <3>1. Held(b, i) # None
      BY <2>2, Constants
    <3>2. Slot(b, i) \in Slots
      <4> DEFINE a == b.origin + i
      <4>1. a \in Int
        BY <1>3, <2>2, Constants DEF Fitting, Buffers
      <4> HIDE DEF a, b
      <4>2. a % Capacity \in 0..(Capacity - 1)
        BY <4>1, Constants, Division
      <4> QED
        BY <4>2 DEF Slot, Slots, a
    <3> HIDE DEF b
    <3> QED
      BY <1>4, <3>1, <3>2 DEF Held
  <2> HIDE DEF b, end
  <2>4. frame' \subseteq First..(sent' - 1)
    BY <2>1, <2>3
  <2>5. end \in Nat
    BY <2>2, Constants
  <2>6. Fitting(buffer')
    BY <1>3, <2>1, <2>5, RemoveFits
  <2>7. \A p \in Slots : buffer'.packets[p] \in {None, b.packets[p]}
    BY <2>1 DEF Remove
  <2> QED
    BY <1>4, <2>4, <2>6, <2>7 DEF IInv, Genuine
<1>6. CASE ~Complete(b)
  <2>1. buffer' = b /\ frame' = {}
    BY <1>6 DEF Add, r
  <2> HIDE DEF b
  <2> QED
    BY <1>3, <1>4, <2>1 DEF IInv, Genuine
<1> QED
  BY <1>5, <1>6

\* The network invents no packet.
LEMMA ReceiveStep ==
  ASSUME IInv, NEW n \in Numbers, Receive(n, "first") \/ Receive(n, "copy")
  PROVE  IInv'
<1>1. PICK copy \in {"first", "copy"} : Receive(n, copy)
  OBVIOUS
<1>2. n \in First..(sent - 1) /\ sent' = sent
  BY <1>1 DEF IInv, Genuine, Numbers, Receive
<1>3. \A p \in net' : p \in net \/ p = <<n, "copy">>
  BY <1>1 DEF Receive
<1>4. \A p \in net' : p[1] \in First..(sent - 1)
  BY <1>2, <1>3 DEF IInv, Genuine
<1>5. CASE TooLate(buffer, n)
  <2>1. buffer' = buffer /\ frame' = {}
    BY <1>1, <1>5 DEF Receive, Refuse
  <2> QED
    BY <1>2, <1>4, <2>1 DEF IInv, Genuine
<1>6. CASE ~TooLate(buffer, n)
  <2>1. Add(n)
    BY <1>1, <1>6 DEF Receive
  <2> QED
    BY <1>2, <1>4, <2>1, AddStep
<1> QED
  BY <1>5, <1>6

\* What was sent stays sent.
LEMMA Widens ==
  ASSUME NEW a \in Nat, NEW b \in Nat, a <= b
  PROVE  First..(a - 1) \subseteq First..(b - 1)
  BY Constants

\* The peer, losses and restarts do not touch the buffer.
LEMMA PeerStep ==
  ASSUME IInv, Send \/ (\E n \in Numbers : Lose(n)) \/ (\E jump \in Jumps : Restart(jump))
  PROVE  IInv'
<1>1. sent \in Nat /\ First \in Nat /\ First <= sent
  BY Constants DEF IInv
<1>2. /\ UNCHANGED <<buffer, frame>> /\ sent' \in Nat /\ sent' >= sent
      /\ \A p \in net' : p \in net \/ (p[1] = sent /\ sent' = sent + 1)
  <2>1. CASE Send
    BY <1>1, <2>1 DEF Send
  <2>2. ASSUME NEW n \in Numbers, Lose(n)
        PROVE  UNCHANGED <<buffer, frame, sent>> /\ net' \subseteq net
    BY <2>2 DEF Lose
  <2>3. ASSUME NEW jump \in Jumps, Restart(jump)
        PROVE  UNCHANGED <<buffer, frame, net>> /\ sent' = sent + jump /\ jump \in Nat
    BY <2>3, Constants DEF Restart
  <2> QED
    BY <1>1, <2>1, <2>2, <2>3
<1>3. First..(sent - 1) \subseteq First..(sent' - 1)
  BY <1>1, <1>2, Widens
<1>4. \A p \in net' : p[1] \in First..(sent' - 1)
  BY <1>1, <1>2, <1>3 DEF IInv, Genuine
<1>5. First <= sent'
  BY <1>1, <1>2
<1> QED
  BY <1>2, <1>3, <1>4, <1>5 DEF IInv, Genuine

\* The buffer begins empty, without an origin.
LEMMA IInvInit == Init => IInv
  BY Constants DEF Init, IInv, Fitting, Buffers, Empty, Genuine

\* The inductive invariant holds in every behaviour.
THEOREM Invariance == Spec => []IInv
<1>1. IInv /\ UNCHANGED vars => IInv'
  BY DEF IInv, Genuine, vars
<1>2. IInv /\ [Next]_vars => IInv'
  BY <1>1, ReceiveStep, PeerStep DEF Next
<1> QED
  BY IInvInit, <1>2, PTL DEF Spec

\* Every packet lies at its own place, fewer than Capacity behind the origin, whatever
\* the network does and however often the numbers wrap.
THEOREM WindowHolds == Spec => []InWindow
<1>1. IInv => InWindow
  BY DEF IInv, Fitting, Buffers, InWindow
<1> QED
  BY <1>1, Invariance, PTL

\* The buffer holds and returns nothing but packets that the peer sent.
THEOREM NothingInvented == Spec => []Genuine
<1>1. IInv => Genuine
  BY DEF IInv
<1> QED
  BY <1>1, Invariance, PTL
=============================================================================
