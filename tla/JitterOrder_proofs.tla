------------------------ MODULE JitterOrder_proofs ------------------------
(***************************************************************************)
(* Proofs about the order of the frames that the jitter buffer returns,    *)
(* for every buffer, frame size, modulus and network whose sizes relate as *)
(* the code's do: frames leave in the order they were sent, lack at most   *)
(* what was lost, refused or is still on its way, and do not stay away for *)
(* longer than the losses and a restart explain.                           *)
(***************************************************************************)
EXTENDS JitterBuffer_proofs, FiniteSetTheorems

-----------------------------------------------------------------------------
(* Numbers. *)

\* A positive multiple of m is at least m.
LEMMA AtLeastOne ==
  ASSUME NEW m \in Nat \ {0}, NEW k \in Int, k >= 1
  PROVE  m * k >= m
<1>1. m * k = m + m * (k - 1)
  OBVIOUS
<1>2. \A j \in Nat : m * j >= 0
  OBVIOUS
<1>3. k - 1 \in Nat
  OBVIOUS
<1>4. m * (k - 1) >= 0 /\ m * (k - 1) \in Int
  BY <1>2, <1>3
<1> QED
  BY <1>1, <1>4

\* Fewer than m apart, numbers are told by their remainders.
LEMMA Distinct ==
  ASSUME NEW m \in Nat \ {0}, NEW x \in Int, NEW y \in Int, x % m = y % m,
         x - y < m, y - x < m
  PROVE  x = y
<1> DEFINE r == x % m
<1>1. PICK p \in Int : x = m * p + r
  BY Division
<1>2. PICK q \in Int : y = m * q + r
  BY Division
<1>3. r \in Int
  BY Division
<1> HIDE DEF r
<1>4. x - y = m * (p - q) /\ y - x = m * (q - p)
  BY <1>1, <1>2, <1>3
<1>5. p - q >= 1 => m * (p - q) >= m
  BY AtLeastOne
<1>6. q - p >= 1 => m * (q - p) >= m
  BY AtLeastOne
<1>7. p = q
  BY <1>4, <1>5, <1>6
<1> QED
  BY <1>1, <1>2, <1>7

\* Of two numbers d apart, the remainders tell d, and what is missing to m.
LEMMA Distance ==
  ASSUME NEW m \in Nat \ {0}, NEW x \in Int, NEW y \in Int, NEW d \in 0..(m - 1),
         y - x = d
  PROVE  /\ ((y % m) - (x % m)) % m = d
         /\ d > 0 => ((x % m) - (y % m)) % m = m - d
         /\ d = 0 => ((x % m) - (y % m)) % m = 0
<1> DEFINE r == x % m
           s == y % m
<1>1. PICK p \in Int : x = m * p + r
  BY Division
<1>2. PICK q \in Int : y = m * q + s
  BY Division
<1>3. r \in Int /\ s \in Int
  BY Division
<1> HIDE DEF r, s
<1>4. s - r = m * (p - q) + d /\ p - q \in Int
  BY <1>1, <1>2, <1>3
<1>5. (s - r) % m = d
  BY <1>4, Remainder
<1>6. ASSUME d > 0 PROVE (r - s) % m = m - d
  <2>1. r - s = m * (q - p - 1) + (m - d)
    <3>1. m * (q - p - 1) = m * q - m * p - m
      OBVIOUS
    <3> QED
      BY <1>1, <1>2, <1>3, <3>1
  <2>2. q - p - 1 \in Int /\ m - d \in 0..(m - 1)
    BY <1>6
  <2> QED
    BY <2>1, <2>2, Remainder
<1>7. ASSUME d = 0 PROVE (r - s) % m = 0
  <2>1. r - s = m * (q - p) + 0
    BY <1>1, <1>2, <1>3, <1>7
  <2>2. q - p \in Int /\ 0 \in 0..(m - 1)
    OBVIOUS
  <2> QED
    BY <2>1, <2>2, Remainder
<1> QED
  BY <1>5, <1>6, <1>7 DEF r, s

\* The quotient does not decrease, and grows when f are added.
LEMMA Quotients ==
  ASSUME NEW f \in Nat \ {0}, NEW x \in Nat, NEW y \in Nat
  PROVE  /\ x <= y => x \div f <= y \div f
         /\ x + f <= y => x \div f < y \div f
         /\ x \div f \in Int
<1> DEFINE p == x \div f
           q == y \div f
<1>1. /\ p \in Int /\ q \in Int /\ x % f \in 0..(f - 1) /\ y % f \in 0..(f - 1)
      /\ x = f * p + (x % f) /\ y = f * q + (y % f)
  OBVIOUS
<1>2. PICK r \in 0..(f - 1) : x = f * p + r
  BY <1>1
<1>3. PICK s \in 0..(f - 1) : y = f * q + s
  BY <1>1
<1> HIDE DEF p, q
<1>4. p - q >= 1 => f * (p - q) >= f
  BY <1>1, AtLeastOne
<1>5. x - y = f * (p - q) + r - s
  BY <1>1, <1>2, <1>3
<1>6. ASSUME p - q >= 1 PROVE x > y
  BY <1>1, <1>4, <1>5, <1>6
<1>7. ASSUME p = q PROVE y < x + f
  <2>1. f * (p - q) = 0
    BY <1>1, <1>7
  <2> QED
    BY <1>5, <2>1
<1>8. (x <= y => p <= q) /\ (x + f <= y => p < q)
  BY <1>1, <1>6, <1>7
<1> QED
  BY <1>1, <1>8 DEF p, q
-----------------------------------------------------------------------------
(* The order in the buffer. *)

\* The sizes are in the order of the code's: a packet is delayed by less than the limit
\* of the misorder and less than a bufferful, all of that is small beside the modulus.
Sizes ==
  /\ Window <= MaxMisorder /\ Window <= Capacity /\ FrameSize <= Capacity
  /\ 2 * (MaxMisorder + Window) <= Modulus
  /\ 2 * (Capacity + FrameSize) <= Modulus
  /\ MaxMisorder + Capacity + MaxLost <= Modulus

\* The packet at the origin.
Base(b) == b.packets[b.origin % Capacity]

Holds(b, m) == \E p \in Slots : b.packets[p] = m

\* The origin is at a packet, and the others follow it within the capacity, by their
\* numbers and not only modulo 2^16.
Aligned(b) ==
  /\ b.origin # None /\ Base(b) \in Nat /\ SequenceNumber(Base(b)) = b.origin
  /\ \A p \in Slots : b.packets[p] # None =>
       Base(b) <= b.packets[p] /\ b.packets[p] < Base(b) + Capacity

\* The constants of an ordered buffer.
LEMMA Small ==
  ASSUME Sizes
  PROVE  /\ Capacity \in Nat \ {0} /\ Modulus \in Nat \ {0} /\ First \in Nat
         /\ FrameSize \in Nat \ {0} /\ Window \in Nat \ {0} /\ MaxMisorder \in Nat \ {0}
         /\ MaxLost \in Nat /\ Capacity < Modulus /\ \A n \in Int : n # None
  BY JitterAssumption DEF Sizes

\* Seen from the origin x, a packet that is d further is d ahead.
LEMMA DeltaIs ==
  ASSUME NEW b, NEW x \in Int, b.origin = SequenceNumber(x), NEW n \in Int,
         NEW d \in 0..(Modulus - 1), n - x = d
  PROVE  /\ Delta(b, n) = d
         /\ d > 0 => Misorder(b, n) = Modulus - d
         /\ d = 0 => Misorder(b, n) = 0
<1>1. Modulus \in Nat \ {0}
  BY Constants
<1>2. ((n % Modulus) - (x % Modulus)) % Modulus = d
  BY <1>1, Distance
<1>3. d > 0 => ((x % Modulus) - (n % Modulus)) % Modulus = Modulus - d
  BY <1>1, Distance, ZenonT(60)
<1>4. d = 0 => ((x % Modulus) - (n % Modulus)) % Modulus = 0
  BY <1>1, Distance
<1>5. b.origin = x % Modulus
  BY DEF SequenceNumber
<1> QED
  BY <1>2, <1>3, <1>4, <1>5, Zenon DEF Delta, Misorder, SequenceNumber

\* One that is d before it is d behind.
LEMMA MisorderIs ==
  ASSUME NEW b, NEW x \in Int, b.origin = SequenceNumber(x), NEW n \in Int,
         NEW d \in 1..(Modulus - 1), x - n = d
  PROVE  Misorder(b, n) = d /\ Delta(b, n) = Modulus - d
<1>1. Modulus \in Nat \ {0} /\ d \in 0..(Modulus - 1) /\ d > 0
  BY Constants
<1>2. /\ ((x % Modulus) - (n % Modulus)) % Modulus = d
      /\ ((n % Modulus) - (x % Modulus)) % Modulus = Modulus - d
  BY <1>1, Distance, ZenonT(60)
<1>3. b.origin = x % Modulus
  BY DEF SequenceNumber
<1> QED
  BY <1>2, <1>3, Zenon DEF Delta, Misorder, SequenceNumber

\* The places of a window are slots, each its own.
LEMMA Places ==
  ASSUME NEW b, b.origin \in Int
  PROVE  /\ \A i \in Int : Slot(b, i) \in Slots
         /\ \A i, j \in 0..(Capacity - 1) : Slot(b, i) = Slot(b, j) => i = j
<1>1. ASSUME NEW i \in Int PROVE Slot(b, i) \in Slots
  <2> DEFINE a == b.origin + i
  <2>1. a \in Int
    OBVIOUS
  <2> HIDE DEF a
  <2>2. a % Capacity \in 0..(Capacity - 1)
    BY <2>1, Constants, Division
  <2> QED
    BY <2>2 DEF Slot, Slots, a
<1>2. ASSUME NEW i \in 0..(Capacity - 1), NEW j \in 0..(Capacity - 1), Slot(b, i) = Slot(b, j)
      PROVE  i = j
  <2> DEFINE x == b.origin + i
             y == b.origin + j
  <2>1. x \in Int /\ y \in Int /\ x - y < Capacity /\ y - x < Capacity
    BY Constants
  <2>2. x % Capacity = y % Capacity
    BY <1>2 DEF Slot
  <2>3. x - y = i - j /\ i \in Int /\ j \in Int
    BY Constants
  <2> HIDE DEF x, y
  <2>4. x = y
    BY <2>1, <2>2, Constants, Distinct
  <2> QED
    BY <2>1, <2>3, <2>4
<1> QED
  BY <1>1, <1>2

\* In an aligned buffer the place i holds the packet Base + i or nothing.
LEMMA HeldIs ==
  ASSUME Sizes, NEW b, Fitting(b), Aligned(b)
  PROVE  /\ b.origin \in Int
         /\ \A m \in Nat : Holds(b, m) => /\ m - Base(b) \in 0..(Capacity - 1)
                                         /\ Held(b, m - Base(b)) = m
         /\ \A i \in 0..(Capacity - 1) : Held(b, i) # None => Held(b, i) = Base(b) + i
         /\ Held(b, 0) = Base(b)
<1>1. b.origin \in 0..(Modulus - 1) /\ b.origin \in Int
  BY Constants DEF Fitting, Buffers, Aligned
<1>2. ASSUME NEW p \in Slots, b.packets[p] # None
      PROVE  LET m == b.packets[p]
             IN  m \in Nat /\ m - Base(b) \in 0..(Capacity - 1) /\ Slot(b, m - Base(b)) = p
  <2> DEFINE m == b.packets[p]
             d == m - Base(b)
  <2>1. m \in Nat
    BY <1>2 DEF Fitting, Buffers
  <2>2. Base(b) \in Nat /\ b.origin = SequenceNumber(Base(b)) /\ d \in 0..(Capacity - 1)
    BY <1>2, <2>1, Small DEF Aligned
  <2>3. d \in 0..(Modulus - 1)
    BY <2>2, Small
  <2>4. SequenceNumber(m) % Capacity = p
    BY <1>2 DEF Fitting
  <2> HIDE DEF m
  <2>5. Delta(b, m) = d
    BY <2>1, <2>2, <2>3, DeltaIs
  <2>6. Slot(b, d) = p
    BY <1>1, <2>1, <2>4, <2>5, OwnPlace
  <2> QED
    BY <2>1, <2>2, <2>6 DEF m
<1>3. ASSUME NEW m \in Nat, Holds(b, m)
      PROVE  m - Base(b) \in 0..(Capacity - 1) /\ Held(b, m - Base(b)) = m
  <2>1. PICK p \in Slots : b.packets[p] = m
    BY <1>3 DEF Holds
  <2>2. b.packets[p] # None
    BY <2>1, Constants
  <2> QED
    BY <1>2, <2>1, <2>2 DEF Held
<1>4. ASSUME NEW i \in 0..(Capacity - 1), Held(b, i) # None
      PROVE  Held(b, i) = Base(b) + i
  <2> DEFINE p == Slot(b, i)
             m == b.packets[p]
  <2>1. p \in Slots /\ m # None
    BY <1>1, <1>4, Places DEF Held
  <2> HIDE DEF p
  <2>2. m \in Nat /\ m - Base(b) \in 0..(Capacity - 1) /\ Slot(b, m - Base(b)) = p
    BY <1>2, <2>1
  <2>3. i = m - Base(b)
    BY <1>1, <2>2, Places DEF p
  <2>4. m \in Int /\ i \in Int /\ Base(b) \in Int
    BY <2>2, Constants DEF Aligned
  <2>5. m = Base(b) + i
    BY <2>3, <2>4
  <2> QED
    BY <2>5 DEF Held, p
<1>5. Held(b, 0) = Base(b)
  <2>1. b.origin + 0 = b.origin
    BY <1>1
  <2> QED
    BY <2>1 DEF Held, Slot, Base
<1> QED
  BY <1>1, <1>3, <1>4, <1>5

\* What is held is held at a slot.
LEMMA HeldHolds ==
  ASSUME NEW b, b.origin \in Int, NEW i \in Int
  PROVE  Holds(b, Held(b, i))
<1>1. Slot(b, i) \in Slots
  BY Places
<1> QED
  BY <1>1 DEF Holds, Held

\* The buffer that begins with n holds n only.
LEMMA BeginAligned ==
  ASSUME Sizes, NEW n \in Nat, NEW b,
         b = Store([origin |-> SequenceNumber(n), packets |-> Empty], n)
  PROVE  /\ Aligned(b) /\ Base(b) = n
         /\ \A m \in Nat : Holds(b, m) <=> m = n
<1> DEFINE q == SequenceNumber(n) % Capacity
<1>1. q \in Slots
  <2>1. SequenceNumber(n) \in Int
    BY SequenceNumberType, Constants
  <2> QED
    BY <2>1, Constants, Division DEF Slots
<1>2. /\ b.origin = SequenceNumber(n)
      /\ \A p \in Slots : b.packets[p] = IF p = q THEN n ELSE None
  BY <1>1 DEF Store, Empty
<1>3. SequenceNumber(n) # None /\ \A m \in Nat : m # None
  BY SequenceNumberType, Constants
<1>4. Base(b) = n
  BY <1>1, <1>2 DEF Base
<1>5. n <= n /\ n < n + Capacity
  BY Small
<1> HIDE DEF q
<1> QED
  BY <1>1, <1>2, <1>3, <1>4, <1>5 DEF Aligned, Holds

\* Storing a packet of the window leaves the others, and itself if it was there.
LEMMA StoreAligned ==
  ASSUME Sizes, NEW b, Fitting(b), Aligned(b),
         NEW n \in Nat, Base(b) <= n, n < Base(b) + Capacity
  PROVE  /\ Aligned(Store(b, n)) /\ Base(Store(b, n)) = Base(b)
         /\ \A m \in Nat : Holds(Store(b, n), m) <=> m = n \/ Holds(b, m)
         /\ Delta(b, n) < Capacity
<1> DEFINE q == SequenceNumber(n) % Capacity
           c == Store(b, n)
           d == n - Base(b)
<1>1. /\ Base(b) \in Nat /\ b.origin = SequenceNumber(Base(b)) /\ b.origin \in 0..(Modulus - 1)
      /\ b.origin \in Int
  BY HeldIs DEF Aligned, Fitting, Buffers
<1>2. d \in 0..(Capacity - 1) /\ d \in 0..(Modulus - 1) /\ n \in Int /\ Base(b) \in Int
  BY <1>1, Small
<1>3. Delta(b, n) = d
  BY <1>1, <1>2, DeltaIs
<1>4. Slot(b, d) = q
  BY <1>1, <1>3, OwnPlace
<1>5. q \in Slots
  BY <1>1, <1>2, <1>4, Places
<1>6. Held(b, d) # None => Held(b, d) = n
  <2>1. Held(b, d) # None => Held(b, d) = Base(b) + d
    BY <1>2, HeldIs
  <2>2. Base(b) + d = n
    BY <1>2
  <2> QED
    BY <2>1, <2>2
<1>7. b.packets[q] # None => b.packets[q] = n
  BY <1>4, <1>6 DEF Held
<1>8. c.origin = b.origin /\ \A p \in Slots : c.packets[p] = IF p = q THEN n ELSE b.packets[p]
  BY <1>5 DEF Store, Fitting, Buffers
<1> HIDE DEF q, c, d
<1>9. Base(c) = Base(b)
  <2>1. b.origin % Capacity \in Slots
    BY <1>1, Constants, Division DEF Slots
  <2>2. b.packets[b.origin % Capacity] # None
    BY <1>1, Small DEF Base
  <2> QED
    BY <1>7, <1>8, <2>1, <2>2 DEF Base
<1>10. ASSUME NEW m \in Nat PROVE Holds(c, m) <=> m = n \/ Holds(b, m)
  <2>1. m # None /\ n # None
    BY Small
  <2> QED
    BY <1>5, <1>7, <1>8, <2>1 DEF Holds
<1>11. Aligned(c)
  BY <1>1, <1>8, <1>9 DEF Aligned
<1>12. Delta(b, n) < Capacity
  BY <1>2, <1>3, Small
<1> QED
  BY <1>9, <1>10, <1>11, <1>12 DEF c

\* Removing the places before a packet moves the origin to it and drops what was there.
LEMMA RemoveAligned ==
  ASSUME Sizes, NEW b, Fitting(b), Aligned(b),
         NEW s \in 0..(Capacity - 1), Held(b, s) # None
  PROVE  /\ Aligned(Remove(b, s)) /\ Base(Remove(b, s)) = Base(b) + s
         /\ \A m \in Nat : Holds(Remove(b, s), m) <=> Holds(b, m) /\ m >= Base(b) + s
<1> DEFINE c == Remove(b, s)
           n == Base(b) + s
<1>1. /\ Base(b) \in Nat /\ b.origin = SequenceNumber(Base(b)) /\ b.origin \in 0..(Modulus - 1)
      /\ b.origin \in Int /\ Held(b, s) = n
  BY HeldIs DEF Aligned, Fitting, Buffers
<1>2. s \in 0..(Modulus - 1) /\ s \in Nat /\ n \in Nat /\ n \in Int /\ n - Base(b) = s
  BY <1>1, Small
<1>3. c.origin = (b.origin + s) % Modulus
  BY DEF Remove
<1>4. \A p \in Slots : c.packets[p] = IF \E i \in 0..(s - 1) : p = Slot(b, i)
                                      THEN None ELSE b.packets[p]
  BY DEF Remove
<1> HIDE DEF c, n
<1>5. SequenceNumber(n) = c.origin
  <2> DEFINE x == Base(b)
             o == SequenceNumber(x)
  <2>1. x \in Int /\ Modulus \in Nat \ {0} /\ n = x + s
    BY <1>1, Small DEF n
  <2>2. PICK k \in Int : x = Modulus * k + o
    BY <2>1, Division DEF SequenceNumber
  <2>3. o \in Int
    BY <1>1
  <2> HIDE DEF x, o
  <2>4. n = (o + s) + Modulus * k /\ o + s \in Int
    BY <1>2, <2>1, <2>2, <2>3
  <2>5. ((o + s) + Modulus * k) % Modulus = (o + s) % Modulus
    BY <2>1, <2>4, Shift
  <2> QED
    BY <1>1, <1>3, <2>4, <2>5 DEF SequenceNumber, x, o
<1>6. Slot(b, s) = c.origin % Capacity
  <2>1. Delta(b, n) = s
    BY <1>1, <1>2, DeltaIs
  <2>2. Slot(b, Delta(b, n)) = SequenceNumber(n) % Capacity
    BY <1>1, <1>2, OwnPlace
  <2> QED
    BY <1>5, <2>1, <2>2
<1>7. ASSUME NEW i \in s..(Capacity - 1) PROVE c.packets[Slot(b, i)] = b.packets[Slot(b, i)]
  <2>1. Slot(b, i) \in Slots /\ i \in 0..(Capacity - 1)
    BY <1>1, <1>2, Places, Small
  <2>2. ASSUME NEW j \in 0..(s - 1), Slot(b, i) = Slot(b, j) PROVE FALSE
    <3>1. j \in 0..(Capacity - 1) /\ i # j
      BY <1>2, Small
    <3> QED
      BY <1>1, <2>1, <2>2, <3>1, Places
  <2> QED
    BY <1>4, <2>1, <2>2
<1>8. Base(c) = n
  <2>1. s \in s..(Capacity - 1)
    BY <1>2, Small
  <2> QED
    BY <1>1, <1>6, <1>7, <2>1 DEF Base, Held
<1>9. ASSUME NEW p \in Slots, c.packets[p] # None
      PROVE  c.packets[p] = b.packets[p] /\ b.packets[p] \in Nat /\ b.packets[p] >= n
  <2> DEFINE m == b.packets[p]
             i == m - Base(b)
  <2>1. c.packets[p] = m /\ m # None /\ m \in Nat /\ ~ \E j \in 0..(s - 1) : p = Slot(b, j)
    BY <1>4, <1>9 DEF Fitting, Buffers
  <2>2. Holds(b, m)
    BY DEF Holds
  <2>3. i \in 0..(Capacity - 1)
    BY <2>1, <2>2, HeldIs
  <2>4. SequenceNumber(m) % Capacity = p
    BY <2>1 DEF Fitting
  <2>5. i \in 0..(Modulus - 1) /\ m \in Int /\ Base(b) \in Int
    BY <1>1, <2>1, <2>3, Small
  <2> HIDE DEF m
  <2>6. Delta(b, m) = i
    BY <1>1, <2>5, DeltaIs
  <2>7. Slot(b, i) = p
    BY <1>1, <2>1, <2>4, <2>6, OwnPlace
  <2>8. i \notin 0..(s - 1)
    BY <2>1, <2>7
  <2>9. i >= s
    BY <1>2, <2>3, <2>8, Small
  <2> QED
    BY <1>1, <1>2, <2>1, <2>5, <2>9 DEF m, n
<1>10. ASSUME NEW m \in Nat PROVE Holds(c, m) <=> Holds(b, m) /\ m >= n
  <2>1. m # None
    BY Small
  <2>2. Holds(c, m) => Holds(b, m) /\ m >= n
    BY <1>9, <2>1 DEF Holds
  <2>3. ASSUME Holds(b, m), m >= n PROVE Holds(c, m)
    <3> DEFINE i == m - Base(b)
    <3>1. i \in 0..(Capacity - 1) /\ Held(b, i) = m
      BY <2>3, HeldIs
    <3>2. i \in s..(Capacity - 1)
      BY <1>1, <1>2, <2>3, <3>1 DEF n
    <3>3. Slot(b, i) \in Slots
      BY <1>1, <3>1, Places
    <3> HIDE DEF i
    <3>4. c.packets[Slot(b, i)] = m
      BY <1>7, <3>1, <3>2 DEF Held
    <3> QED
      BY <3>3, <3>4 DEF Holds
  <2> QED
    BY <2>2, <2>3
<1>11. Aligned(c)
  <2>1. c.origin # None
    BY <1>2, <1>5, SequenceNumberType, Small
  <2>2. ASSUME NEW p \in Slots, c.packets[p] # None
        PROVE  n <= c.packets[p] /\ c.packets[p] < n + Capacity
    <3>1. c.packets[p] = b.packets[p] /\ b.packets[p] \in Nat /\ b.packets[p] >= n
      BY <1>9, <2>2
    <3>2. b.packets[p] < Base(b) + Capacity
      BY <2>2, <3>1 DEF Aligned
    <3> QED
      BY <1>1, <1>2, <3>1, <3>2, Small DEF n
  <2> QED
    BY <1>2, <1>5, <1>8, <2>1, <2>2 DEF Aligned
<1> QED
  BY <1>8, <1>10, <1>11 DEF c, n

\* A bounded non-empty set of natural numbers has a greatest element.
LEMMA Greatest ==
  ASSUME NEW u \in Nat, NEW S \in SUBSET (0..u), S # {}
  PROVE  \E x \in S : \A y \in S : y <= x
<1> DEFINE D == {u - x : x \in S}
<1>1. D \in SUBSET Nat /\ D # {}
  <2>1. \A x \in S : u - x \in Nat
    OBVIOUS
  <2>2. D # {}
    OBVIOUS
  <2> QED
    BY <2>1, <2>2
<1>2. Min(D) \in D /\ \A d \in D : Min(D) <= d
  BY <1>1, MinIsLeast
<1>3. PICK x \in S : Min(D) = u - x
  BY <1>2
<1>4. ASSUME NEW y \in S PROVE y <= x
  <2>1. u - x <= u - y
    BY <1>2, <1>3
  <2> QED
    BY <2>1
<1> QED
  BY <1>4

\* The timestamp does not decrease with the number, and differs FrameSize packets later.
LEMMA Timestamps ==
  ASSUME NEW x \in Nat, NEW y \in Nat
  PROVE  /\ x <= y => Timestamp(x) <= Timestamp(y)
         /\ x + FrameSize <= y => Timestamp(x) < Timestamp(y)
         /\ Timestamp(x) \in Int /\ Timestamp(y) \in Int
  BY Constants, Quotients DEF Timestamp

\* The places that are held hold packets.
LEMMA PresentIs ==
  ASSUME Sizes, NEW b, Fitting(b), Aligned(b)
  PROVE  /\ Present(b) \subseteq 0..(Capacity - 1)
         /\ \A i \in Present(b) : Held(b, i) = Base(b) + i /\ Held(b, i) \in Nat
         /\ \A m \in Nat : Holds(b, m) => m - Base(b) \in Present(b)
<1>1. Base(b) \in Nat /\ \A m \in Nat : m # None
  BY Small DEF Aligned
<1>2. \A i \in Present(b) : i \in 0..(Capacity - 1) /\ Held(b, i) = Base(b) + i
  BY HeldIs DEF Present, Slots
<1>3. ASSUME NEW m \in Nat, Holds(b, m) PROVE m - Base(b) \in Present(b)
  BY <1>1, <1>3, HeldIs DEF Present, Slots
<1> QED
  BY <1>1, <1>2, <1>3

\* Where smart_remove stops no packet before is of the same frame.
LEMMA StopsBetween ==
  ASSUME Sizes, NEW b, Fitting(b), Aligned(b), NEW count \in Int,
         NEW i \in FrameStarts(b, count), NEW m \in Nat, Holds(b, m), m < Base(b) + i
  PROVE  Timestamp(m) # Timestamp(Base(b) + i)
<1> DEFINE S == {k \in Present(b) : k < i}
<1>1. i \in Present(b) /\ Base(b) \in Nat
  BY DEF FrameStarts, Aligned
<1>2. i \in 0..(Capacity - 1) /\ m - Base(b) \in S /\ m - Base(b) \in Int
  BY <1>1, PresentIs, Small
<1>3. S \in SUBSET (0..i)
  BY <1>2, PresentIs, Small
<1>4. i \in Nat /\ S # {}
  BY <1>2, Small
<1>5. PICK j \in S : \A k \in S : k <= j
  <2> HIDE DEF S
  <2> QED
    BY <1>3, <1>4, Greatest
<1>6. /\ j \in Present(b) /\ j < i /\ (\A k \in Present(b) : k < i => k <= j)
  BY <1>5
<1>7. Timestamp(Held(b, j)) # Timestamp(Held(b, i))
  BY <1>6 DEF FrameStarts
<1>8. Held(b, j) = Base(b) + j /\ Held(b, i) = Base(b) + i /\ j \in 0..(Capacity - 1)
  BY <1>1, <1>6, PresentIs
<1> DEFINE x == Base(b) + j
           y == Base(b) + i
<1>9. x \in Nat /\ y \in Nat /\ m <= x /\ x <= y
  BY <1>1, <1>2, <1>5, <1>6, <1>8, Small
<1> HIDE DEF x, y, S
<1>10. Timestamp(m) <= Timestamp(x) /\ Timestamp(x) <= Timestamp(y)
  BY <1>9, Timestamps
<1>11. Timestamp(m) \in Int /\ Timestamp(x) \in Int /\ Timestamp(y) \in Int
  BY <1>9, Timestamps
<1> QED
  BY <1>7, <1>8, <1>10, <1>11 DEF x, y

\* When it finds no place to stop, nothing that is held is of the frame of n.
LEMMA NowhereToStop ==
  ASSUME Sizes, NEW b, Fitting(b), Aligned(b), NEW n \in Nat, n >= Base(b) + Capacity,
         FrameStarts(b, n - Base(b) - Capacity + 1) = {}, NEW m \in Nat, Holds(b, m)
  PROVE  Timestamp(m) # Timestamp(n)
<1> SUFFICES ASSUME Timestamp(m) = Timestamp(n) PROVE FALSE
  OBVIOUS
<1> DEFINE S == {k \in Present(b) : Timestamp(Held(b, k)) = Timestamp(n)}
           i == Min(S)
<1>1. Base(b) \in Nat
  BY DEF Aligned
<1>2. m - Base(b) \in Present(b) /\ Held(b, m - Base(b)) = m
  BY PresentIs, HeldIs
<1>3. S # {} /\ S \in SUBSET Nat
  BY <1>2, PresentIs, Small
<1>4. i \in S /\ \A k \in S : i <= k
  <2> HIDE DEF S
  <2> QED
    BY <1>3, MinIsLeast
<1>5. i \in Present(b) /\ i \in 0..(Capacity - 1) /\ Held(b, i) = Base(b) + i
  BY <1>4, PresentIs
<1> HIDE DEF i
<1> DEFINE x == Base(b) + i
<1>6. x \in Nat /\ Timestamp(x) = Timestamp(n)
  BY <1>1, <1>4, <1>5, Small
<1> HIDE DEF x
<1>7. ~ (x + FrameSize <= n)
  BY <1>6, Timestamps
<1>8. i >= n - Base(b) - Capacity + 1
  BY <1>1, <1>5, <1>6, <1>7, Small DEF x, Sizes
<1>9. ASSUME NEW j \in Present(b), j < i PROVE Timestamp(Held(b, j)) # Timestamp(Held(b, i))
  <2>1. j \notin S
    BY <1>3, <1>4, <1>5, <1>9, PresentIs, Small
  <2> QED
    BY <1>4, <2>1
<1>10. i \in FrameStarts(b, n - Base(b) - Capacity + 1)
  <2> DEFINE count == n - Base(b) - Capacity + 1
  <2>1. i >= count
    BY <1>8
  <2> HIDE DEF count, S
  <2>2. i \in FrameStarts(b, count)
    BY <1>5, <1>9, <2>1 DEF FrameStarts
  <2> QED
    BY <2>2 DEF count
<1> QED
  BY <1>10

\* What add makes of an aligned buffer before it looks for frames: the origin moves on as
\* far as it must and to the beginning of a frame, what stays is in the window with n.
Made(b, c, n) ==
  /\ Aligned(c) /\ Base(b) <= Base(c) /\ Base(c) <= n /\ n < Base(c) + Capacity
  /\ \A m \in Nat : Holds(c, m) <=> m = n \/ (Holds(b, m) /\ m >= Base(c))
  /\ \/ Base(c) = Base(b)
     \/ \A m \in Nat : Holds(b, m) /\ m < Base(c) => Timestamp(m) # Timestamp(Base(c))
  /\ 2 * (n - Base(b)) > Modulus => Base(c) = n

\* n is not before the packet at the origin, by its number.
LEMMA AddMakes ==
  ASSUME Sizes, NEW b, Fitting(b), Aligned(b), NEW n \in Nat,
         Base(b) <= n, n - Base(b) < Modulus
  PROVE  Made(b, Store(Room(b, n), n), n)
<1> DEFINE d == n - Base(b)
           begun == [origin |-> SequenceNumber(n), packets |-> Empty]
           c == Store(Room(b, n), n)
           stops == FrameStarts(b, Excess(b, n))
<1>1. /\ Base(b) \in Nat /\ b.origin = SequenceNumber(Base(b)) /\ b.origin # None
      /\ n \in Int /\ Base(b) \in Int
  BY Small DEF Aligned
<1>2. d \in 0..(Modulus - 1) /\ d \in Nat
  BY <1>1, Small
<1>3. Delta(b, n) = d /\ (d > 0 => Misorder(b, n) = Modulus - d) /\ (d = 0 => Misorder(b, n) = 0)
  BY <1>1, <1>2, DeltaIs
<1>4. Behind(b, n) <=> 2 * d > Modulus
  BY <1>1, <1>2, <1>3, Small DEF Behind
<1>5. \A m \in Nat : Holds(b, m) => m >= Base(b) /\ m < Base(b) + Capacity
  BY <1>1, HeldIs, Small
<1>6. ASSUME c = Store(begun, n), d >= Capacity,
             \A m \in Nat : Holds(b, m) => Timestamp(m) # Timestamp(n)
      PROVE  Made(b, c, n)
  <2>1. Aligned(c) /\ Base(c) = n /\ \A m \in Nat : Holds(c, m) <=> m = n
    BY <1>6, BeginAligned
  <2>2. \A m \in Nat : Holds(b, m) => m < n
    BY <1>1, <1>5, <1>6, Small
  <2>3. Base(b) <= n /\ n <= n /\ n < n + Capacity
    BY Small
  <2> HIDE DEF c
  <2>4. \A m \in Nat : Holds(c, m) <=> m = n \/ (Holds(b, m) /\ m >= n)
    BY <2>1, <2>2
  <2>5. \A m \in Nat : Holds(b, m) /\ m < n => Timestamp(m) # Timestamp(n)
    BY <1>6
  <2> QED
    BY <2>1, <2>3, <2>4, <2>5 DEF Made
<1>7. CASE Behind(b, n)
  <2>1. c = Store(begun, n)
    BY <1>7 DEF Room
  <2>2. d >= Capacity + FrameSize
    BY <1>2, <1>4, <1>7, Small DEF Sizes
  <2>3. ASSUME NEW m \in Nat, Holds(b, m) PROVE Timestamp(m) # Timestamp(n)
    <3>1. m + FrameSize <= n
      BY <1>1, <1>5, <2>2, <2>3, Small
    <3>2. Timestamp(m) < Timestamp(n) /\ Timestamp(m) \in Int /\ Timestamp(n) \in Int
      BY <3>1, Timestamps
    <3> QED
      BY <3>2
  <2>4. d >= Capacity
    BY <1>2, <2>2, Small
  <2> QED
    BY <1>6, <2>1, <2>3, <2>4
<1>8. CASE ~Behind(b, n) /\ Delta(b, n) >= Capacity /\ stops = {}
  <2>1. c = Store(begun, n)
    BY <1>1, <1>8 DEF Room
  <2>2. d >= Capacity /\ n >= Base(b) + Capacity
    BY <1>1, <1>3, <1>8, Small
  <2>3. FrameStarts(b, n - Base(b) - Capacity + 1) = {}
    BY <1>3, <1>8 DEF Excess
  <2>4. \A m \in Nat : Holds(b, m) => Timestamp(m) # Timestamp(n)
    BY <2>2, <2>3, NowhereToStop
  <2> QED
    BY <1>6, <2>1, <2>2, <2>4
<1>9. CASE ~Behind(b, n) /\ Delta(b, n) >= Capacity /\ stops # {}
  <2> DEFINE s == Min(stops)
             r == Remove(b, s)
  <2>1. Room(b, n) = r
    BY <1>1, <1>9 DEF Room
  <2>2. Excess(b, n) = d - Capacity + 1 /\ Excess(b, n) \in Int
    BY <1>2, <1>3, Small DEF Excess
  <2>3. s \in 0..(Capacity - 1) /\ s >= d - Capacity + 1 /\ Held(b, s) # None
    BY <1>9, <2>2, FirstStart
  <2>4. s \in stops
    <3>1. stops \in SUBSET Nat
      BY Small DEF FrameStarts, Present, Slots
    <3> HIDE DEF stops
    <3> QED
      BY <1>9, <3>1, MinIsLeast
  <2> HIDE DEF s
  <2>5. /\ Aligned(r) /\ Base(r) = Base(b) + s
        /\ \A m \in Nat : Holds(r, m) <=> Holds(b, m) /\ m >= Base(b) + s
    BY <2>3, RemoveAligned
  <2>6. Fitting(r)
    BY <1>1, <2>3, RemoveFits, Small
  <2>7. Base(r) <= n /\ n < Base(r) + Capacity /\ Base(b) <= Base(r)
    BY <1>1, <1>3, <1>9, <2>3, <2>5, Small
  <2> HIDE DEF r
  <2>8. /\ Aligned(c) /\ Base(c) = Base(r)
        /\ \A m \in Nat : Holds(c, m) <=> m = n \/ Holds(r, m)
    BY <2>1, <2>5, <2>6, <2>7, StoreAligned
  <2>9. \A m \in Nat : Holds(b, m) /\ m < Base(b) + s => Timestamp(m) # Timestamp(Base(b) + s)
    BY <2>2, <2>4, StopsBetween
  <2> HIDE DEF c
  <2>10. ~ (2 * d > Modulus)
    BY <1>4, <1>9
  <2>11. Made(b, c, n)
    BY <2>5, <2>7, <2>8, <2>9, <2>10 DEF Made
  <2> QED
    BY <2>11 DEF c
<1>10. CASE ~Behind(b, n) /\ ~ (Delta(b, n) >= Capacity)
  <2>1. Room(b, n) = b
    BY <1>1, <1>10 DEF Room
  <2>2. n < Base(b) + Capacity
    BY <1>1, <1>3, <1>10, Small
  <2>3. /\ Aligned(c) /\ Base(c) = Base(b)
        /\ \A m \in Nat : Holds(c, m) <=> m = n \/ Holds(b, m)
    BY <2>1, <2>2, StoreAligned
  <2> HIDE DEF c
  <2>4. \A m \in Nat : Holds(c, m) <=> m = n \/ (Holds(b, m) /\ m >= Base(c))
    BY <1>5, <2>3
  <2>5. ~ (2 * d > Modulus)
    BY <1>4, <1>10
  <2>6. Made(b, c, n)
    BY <1>1, <2>2, <2>3, <2>4, <2>5 DEF Made
  <2> QED
    BY <2>6 DEF c
<1> QED
  BY <1>7, <1>8, <1>9, <1>10 DEF c

\* What may be missing from the buffer: U was not received, or was refused with it.
Explained(b, U, top) == \A m \in Base(b)..(top - 1) : Holds(b, m) \/ m \in U

\* Of the frame at the origin only what is in U is missing before the origin.
OnlyBegins(b, U) ==
  \A m \in 0..(Base(b) - 1) : Timestamp(m) = Timestamp(Base(b)) => m \in U

\* Beyond the window, and not so far that it would be refused, nothing was received.
Beyond(b, U, top) ==
  \A m \in (Base(b) + Capacity)..(top - 1) : m - Base(b) <= Modulus - MaxMisorder => m \in U

\* add keeps this: U had what was not received before n was, R what was refused.
LEMMA MadeOrdered ==
  ASSUME Sizes, NEW b, NEW c, NEW n \in Nat, NEW top \in Nat, NEW U, NEW V, NEW R,
         Aligned(b), Made(b, c, n), U \ {n} \subseteq V,
         Explained(b, U \cup R, top), OnlyBegins(b, U \cup R), Beyond(b, U, top),
         n < top, top <= n + Window, n - Base(b) <= Modulus - MaxMisorder
  PROVE  /\ Explained(c, V \cup R, top) /\ OnlyBegins(c, V \cup R) /\ Beyond(c, V, top)
         /\ top <= Base(c) + Capacity + Window
<1> DEFINE x == Base(b)
           y == Base(c)
<1>1. /\ x \in Nat /\ y \in Nat /\ x <= y /\ y <= n /\ n < y + Capacity
      /\ 2 * (n - x) > Modulus => y = n
  BY DEF Made, Aligned
<1>2. /\ \A m \in Nat : Holds(c, m) <=> m = n \/ (Holds(b, m) /\ m >= y)
      /\ y = x \/ \A m \in Nat : Holds(b, m) /\ m < y => Timestamp(m) # Timestamp(y)
  BY DEF Made
<1>3. /\ \A m \in x..(top - 1) : Holds(b, m) \/ m \in U \cup R
      /\ \A m \in 0..(x - 1) : Timestamp(m) = Timestamp(x) => m \in U \cup R
      /\ \A m \in (x + Capacity)..(top - 1) : m - x <= Modulus - MaxMisorder => m \in U
  BY DEF Explained, OnlyBegins, Beyond
<1> HIDE DEF x, y
<1>4. ASSUME NEW m \in y..(top - 1) PROVE Holds(c, m) \/ m \in V \cup R
  <2>1. m \in x..(top - 1) /\ m \in Nat /\ m >= y
    BY <1>1
  <2> QED
    BY <1>2, <1>3, <2>1
<1>5. ASSUME NEW m \in 0..(y - 1), Timestamp(m) = Timestamp(y) PROVE m \in V \cup R
  <2>1. m \in Nat /\ m < y /\ m # n
    BY <1>1
  <2>2. CASE y = x
    BY <1>3, <1>5, <2>1, <2>2
  <2>3. CASE y # x
    <3>1. ~ Holds(b, m) /\ ~ (Holds(b, x) /\ Timestamp(x) = Timestamp(y))
      <4>1. x < y
        BY <1>1, <2>3
      <4> QED
        BY <1>1, <1>2, <1>5, <2>1, <2>3, <4>1
    <3>2. CASE m >= x
      <4>1. m \in x..(top - 1)
        BY <1>1, <2>1, <3>2
      <4> QED
        BY <1>3, <2>1, <3>1, <4>1
    <3>3. CASE m < x
      <4>1. /\ Timestamp(m) <= Timestamp(x) /\ Timestamp(x) <= Timestamp(y)
            /\ Timestamp(m) \in Int /\ Timestamp(x) \in Int /\ Timestamp(y) \in Int
        BY <1>1, <2>1, <3>3, Timestamps
      <4>2. Timestamp(m) = Timestamp(x) /\ Timestamp(x) = Timestamp(y)
        BY <1>5, <4>1
      <4>3. m \in 0..(x - 1)
        BY <1>1, <2>1, <3>3
      <4> QED
        BY <1>3, <2>1, <4>2, <4>3
    <3> QED
      BY <1>1, <2>1, <3>2, <3>3
  <2> QED
    BY <2>2, <2>3
<1>6. ASSUME NEW m \in (y + Capacity)..(top - 1), m - y <= Modulus - MaxMisorder
      PROVE  m \in V
  <2>1. m \in (x + Capacity)..(top - 1) /\ m # n /\ m < n + Window
    BY <1>1, <1>6, Small
  <2>2. CASE m - x <= Modulus - MaxMisorder
    BY <1>3, <2>1, <2>2
  <2>3. CASE ~ (m - x <= Modulus - MaxMisorder)
    <3>1. n - x > Modulus - MaxMisorder - Window
      BY <1>1, <2>1, <2>3, Small
    <3>2. 2 * (n - x) > Modulus
      BY <1>1, <3>1, Small DEF Sizes
    <3> QED
      BY <1>1, <2>1, <3>2, Small DEF Sizes
  <2> QED
    BY <2>2, <2>3
<1>7. top <= y + Capacity + Window
  BY <1>1, Small
<1> QED
  BY <1>4, <1>5, <1>6, <1>7 DEF Explained, OnlyBegins, Beyond, y

\* The first packet of all finds nothing received.
LEMMA BegunOrdered ==
  ASSUME Sizes, NEW c, NEW n \in Nat, NEW top \in Nat, NEW U, NEW V,
         Base(c) = n, Holds(c, n), U \ {n} \subseteq V, 0..(top - 1) \subseteq U,
         n < top, top <= n + Window
  PROVE  /\ Explained(c, V, top) /\ OnlyBegins(c, V) /\ Beyond(c, V, top)
         /\ top <= Base(c) + Capacity + Window
<1>1. \A m \in 0..(top - 1) : m = n \/ m \in V
  OBVIOUS
<1>2. Explained(c, V, top)
  BY <1>1 DEF Explained
<1>3. OnlyBegins(c, V)
  BY <1>1 DEF OnlyBegins
<1>4. top <= n + Capacity
  BY Small DEF Sizes
<1>5. Beyond(c, V, top)
  BY <1>4, Small DEF Beyond
<1> QED
  BY <1>2, <1>3, <1>4, <1>5, Small

\* The first frame that ended is taken off the front, all of it that is there.
LEMMA CompleteOrdered ==
  ASSUME Sizes, NEW c, Fitting(c), Aligned(c), FrameEnds(c) # {}, NEW U, NEW R,
         NEW top \in Nat, top <= Base(c) + Capacity + Window,
         Explained(c, U \cup R, top), Beyond(c, U, top)
  PROVE  LET end == Min(FrameEnds(c))
             d == Remove(c, end)
             next == Base(c) + end
         IN  /\ Aligned(d) /\ Base(d) = next /\ end \in Nat \ {0}
             /\ {Held(c, i) : i \in 0..(end - 1)} = Base(c)..(next - 1)
             /\ Timestamp(next - 1) < Timestamp(next)
             /\ Explained(d, U \cup R, top) /\ OnlyBegins(d, U \cup R) /\ Beyond(d, U, top)
<1> DEFINE end == Min(FrameEnds(c))
           d == Remove(c, end)
           x == Base(c)
           next == x + end
<1>1. end \in 1..(Capacity - 1) /\ \A j \in 0..end : Held(c, j) # None
  BY FirstEnd
<1>2. end \in FrameEnds(c)
  <2>1. FrameEnds(c) \in SUBSET Nat
    BY Small DEF FrameEnds, Slots
  <2> QED
    BY <2>1, MinIsLeast
<1>3. Timestamp(Held(c, end)) # Timestamp(Held(c, end - 1))
  BY <1>2 DEF FrameEnds
<1> HIDE DEF end
<1>4. end \in Nat \ {0} /\ end \in 0..(Capacity - 1) /\ x \in Nat /\ next \in Nat /\ next - 1 \in Nat
      /\ end \in 0..end /\ end - 1 \in 0..end
  BY <1>1, Small DEF Aligned
<1>5. \A i \in 0..end : Held(c, i) = x + i
  BY <1>1, HeldIs, Small
<1>6. /\ Aligned(d) /\ Base(d) = next
      /\ \A m \in Nat : Holds(d, m) <=> Holds(c, m) /\ m >= next
  BY <1>1, <1>4, RemoveAligned
<1>7. {Held(c, i) : i \in 0..(end - 1)} = x..(next - 1)
  <2>1. \A i \in 0..(end - 1) : Held(c, i) \in x..(next - 1)
    BY <1>4, <1>5
  <2>2. ASSUME NEW m \in x..(next - 1) PROVE m \in {Held(c, i) : i \in 0..(end - 1)}
    <3>1. m - x \in 0..(end - 1) /\ m - x \in 0..end /\ x + (m - x) = m
      BY <1>4
    <3>2. Held(c, m - x) = m
      BY <1>5, <3>1
    <3> QED
      BY <3>1, <3>2
  <2> QED
    BY <2>1, <2>2
<1>8. Timestamp(next - 1) < Timestamp(next)
  <2>1. Held(c, end) = next /\ Held(c, end - 1) = next - 1
    BY <1>4, <1>5
  <2>2. /\ Timestamp(next - 1) <= Timestamp(next)
        /\ Timestamp(next) \in Int /\ Timestamp(next - 1) \in Int
    BY <1>4, Timestamps
  <2> QED
    BY <1>3, <2>1, <2>2
<1> HIDE DEF d, next
<1>9. x <= next /\ x \in Int /\ next \in Int
  BY <1>4 DEF next
<1>10. Explained(d, U \cup R, top)
  BY <1>4, <1>6, <1>9 DEF Explained, x
<1>11. OnlyBegins(d, U \cup R)
  <2>1. ASSUME NEW m \in 0..(next - 1) PROVE Timestamp(m) # Timestamp(next)
    <3>1. m \in Nat /\ m <= next - 1
      BY <1>4
    <3>2. Timestamp(m) <= Timestamp(next - 1) /\ Timestamp(m) \in Int
          /\ Timestamp(next - 1) \in Int /\ Timestamp(next) \in Int
      BY <1>4, <3>1, Timestamps
    <3> QED
      BY <1>8, <3>2
  <2> QED
    BY <1>6, <2>1 DEF OnlyBegins
<1>12. Beyond(d, U, top)
  <2>1. ASSUME NEW m \in (next + Capacity)..(top - 1) PROVE m \in U
    <3>1. m \in (x + Capacity)..(top - 1) /\ m - x <= Modulus - MaxMisorder
      BY <1>9, Small DEF Sizes, x
    <3> QED
      BY <3>1 DEF Beyond, x
  <2> QED
    BY <1>6, <2>1 DEF Beyond
<1> QED
  BY <1>4, <1>6, <1>7, <1>8, <1>10, <1>11, <1>12 DEF end, d, next, x
-----------------------------------------------------------------------------
(* The order of the frames. *)

\* The numbers that were not received: not sent, lost, or still on their way.
Unread == {m \in Int : NeverSent(m) \/ m \in lost \/ <<m, "first">> \in net}

\* What peer and network keep to.
Network ==
  /\ IsFiniteSet(lost) /\ Cardinality(lost) <= MaxLost
  /\ \A p \in net : restart.to <= p[1] /\ sent - Window <= p[1] /\ p[1] < sent
  /\ restart.from \in Nat /\ restart.to \in Nat /\ restart.to <= sent /\ First <= restart.from
  /\ \/ restart.to = First /\ restart.from = First
     \/ restart.to # First /\ restart.to - restart.from \in Jumps

\* The buffer follows the peer: no frame was returned from beyond the origin, and what it
\* does not hold it did not receive, refused, or gave out.
Ordered ==
  /\ last \in Int
  /\ buffer.origin = None => last < First /\ 0..(sent - 1) \subseteq Unread
  /\ buffer.origin # None =>
       /\ Aligned(buffer) /\ last < Base(buffer)
       /\ Explained(buffer, Unread \cup refused, sent)
       /\ OnlyBegins(buffer, Unread \cup refused)
       /\ Beyond(buffer, Unread, sent)

OrderInv == IInv /\ Network /\ (Recognised => Ordered)

\* However much was lost, the packets on their way are not so far ahead that they look
\* like late ones when the peer is not heard at all.
LEMMA NotSilenced ==
  ASSUME Sizes, IInv, Network, Recognised, Ordered, buffer.origin # None
  PROVE  sent - Window <= Base(buffer) + Modulus - MaxMisorder
<1> DEFINE x == Base(buffer)
           A == (x + Capacity)..(x + Modulus - MaxMisorder)
           Gap == restart.from..(restart.to - 1)
           jump == restart.to - restart.from
<1> SUFFICES ASSUME x + Modulus - MaxMisorder < sent - Window PROVE FALSE
  BY Small DEF Ordered, Aligned, IInv
<1>1. x \in Nat /\ sent \in Nat /\ restart.from \in Nat /\ restart.to \in Nat
      /\ First <= x
  <2>1. Aligned(buffer) /\ Fitting(buffer)
    BY DEF Ordered, IInv
  <2>2. buffer.origin % Capacity \in Slots /\ x \in Nat
    <3>1. buffer.origin \in Int
      BY <2>1, HeldIs
    <3> QED
      BY <2>1, <3>1, Constants, Division DEF Slots, Aligned
  <2> QED
    BY <2>2, Small DEF Network, IInv, Genuine, Base
<1>2. ASSUME NEW m \in A PROVE m \in lost \cup Gap
  <2>1. m \in Nat /\ m \in (x + Capacity)..(sent - 1) /\ m - x <= Modulus - MaxMisorder /\ m >= First
        /\ m < sent - Window
    BY <1>1, Small
  <2>2. m \in Unread
    BY <2>1 DEF Ordered, Beyond
  <2>3. <<m, "first">> \notin net
    <3>1. ASSUME <<m, "first">> \in net PROVE FALSE
      <4>1. sent - Window <= <<m, "first">>[1]
        BY <3>1 DEF Network
      <4> QED
        BY <1>1, <2>1, <4>1, Small
    <3> QED
      BY <3>1
  <2>4. NeverSent(m) => m \in Gap
    BY <1>1, <2>1, Small DEF NeverSent
  <2> QED
    BY <2>2, <2>3, <2>4 DEF Unread
<1>3. jump \in Nat /\ jump + MaxMisorder + Capacity + MaxLost <= Modulus
  <2>1. CASE restart.to = First /\ restart.from = First
    BY <2>1, <1>1, Small DEF Sizes
  <2>2. CASE restart.to # First /\ jump \in Jumps
    <3>1. jump \in 1..(Modulus - 1)
      BY <2>2, JitterAssumption
    <3>2. (restart.from - restart.to) % Modulus >= MaxMisorder + Capacity + MaxLost
      BY <2>2 DEF Recognised
    <3>3. (restart.from - restart.to) % Modulus = Modulus - jump
      <4> DEFINE r == Modulus - jump
                 y == restart.from - restart.to
      <4>1. r \in 0..(Modulus - 1) /\ r \in Int /\ Modulus \in Nat \ {0}
        BY <3>1, Small
      <4>2. y = Modulus * (-1) + r
        BY <1>1, <4>1, Small
      <4> HIDE DEF r, y
      <4>3. (Modulus * (-1) + r) % Modulus = r
        BY <4>1, Remainder
      <4> QED
        BY <4>2, <4>3 DEF r, y
    <3> QED
      BY <3>1, <3>2, <3>3, Small
  <2> QED
    BY <2>1, <2>2 DEF Network
<1>4. IsFiniteSet(Gap) /\ Cardinality(Gap) = jump
  <2> DEFINE a == restart.from
             z == restart.to - 1
  <2>1. a \in Int /\ z \in Int /\ jump = z - a + 1 /\ (a > z => jump = 0)
    BY <1>1, <1>3
  <2> HIDE DEF a, z, jump
  <2>2. IsFiniteSet(a..z) /\ Cardinality(a..z) = IF a > z THEN 0 ELSE z - a + 1
    BY <2>1, FS_Interval
  <2>3. Cardinality(a..z) = jump
    BY <2>1, <2>2
  <2> QED
    BY <2>2, <2>3 DEF a, z
<1>5. IsFiniteSet(A) /\ Cardinality(A) = Modulus - MaxMisorder - Capacity + 1
  <2> DEFINE a == x + Capacity
             z == x + Modulus - MaxMisorder
  <2>1. a \in Int /\ z \in Int /\ a <= z /\ z - a + 1 = Modulus - MaxMisorder - Capacity + 1
    BY <1>1, Small DEF Sizes
  <2> HIDE DEF a, z
  <2>2. IsFiniteSet(a..z) /\ Cardinality(a..z) = IF a > z THEN 0 ELSE z - a + 1
    BY <2>1, FS_Interval
  <2>3. Cardinality(a..z) = z - a + 1
    BY <2>1, <2>2
  <2> QED
    BY <2>1, <2>2, <2>3 DEF a, z
<1> HIDE DEF A, Gap, jump, x
<1>6. /\ IsFiniteSet(lost) /\ Cardinality(lost) <= MaxLost /\ Cardinality(lost) \in Nat
  BY FS_CardinalityType DEF Network
<1>7. /\ IsFiniteSet(lost \cup Gap)
      /\ Cardinality(lost \cup Gap) = Cardinality(lost) + Cardinality(Gap) - Cardinality(lost \cap Gap)
  BY <1>4, <1>6, FS_Union
<1>8. Cardinality(lost \cap Gap) \in Nat
  <2>1. IsFiniteSet(lost \cap Gap)
    BY <1>6, FS_Subset
  <2> QED
    BY <2>1, FS_CardinalityType
<1>9. Cardinality(A) <= Cardinality(lost \cup Gap)
  BY <1>2, <1>7, FS_Subset
<1> QED
  BY <1>3, <1>4, <1>5, <1>6, <1>7, <1>8, <1>9, Small

\* Of what arrives, add refuses the packets before the origin, and those so far ahead that
\* they look like these.
LEMMA RefusedWhen ==
  ASSUME Sizes, IInv, Network, Recognised, Ordered, buffer.origin # None, NEW n \in Numbers
  PROVE  /\ n \in Nat /\ n < sent /\ sent <= n + Window
         /\ n < Base(buffer) => TooLate(buffer, n)
         /\ n >= Base(buffer) =>
              /\ n - Base(buffer) < Modulus
              /\ TooLate(buffer, n) <=> n - Base(buffer) > Modulus - MaxMisorder
<1> DEFINE x == Base(buffer)
<1>1. n \in First..(sent - 1) /\ sent - Window <= n /\ sent \in Nat
  BY DEF Numbers, Network, IInv, Genuine
<1>2. n \in Nat /\ n \in Int /\ n < sent /\ sent <= n + Window
  BY <1>1, Small
<1>3. Aligned(buffer) /\ Fitting(buffer) /\ x \in Nat /\ x \in Int /\ buffer.origin = SequenceNumber(x)
  BY Small DEF Ordered, IInv, Aligned
<1>4. x < sent
  <2>1. buffer.origin % Capacity \in Slots
    <3>1. buffer.origin \in Int
      BY <1>3, HeldIs
    <3> QED
      BY <3>1, Constants, Division DEF Slots
  <2>2. x # None
    BY <1>3, Small
  <2>3. x \in First..(sent - 1)
    BY <2>1, <2>2 DEF IInv, Genuine, Base
  <2> QED
    BY <1>1, <2>3, Small
<1>5. sent - Window <= x + Modulus - MaxMisorder
  BY NotSilenced
<1> HIDE DEF x
<1>6. ASSUME n < x PROVE TooLate(buffer, n)
  <2> DEFINE d == x - n
  <2>1. d \in 1..(Modulus - 1) /\ d < MaxMisorder /\ 2 * d < Modulus /\ d \in Int
    BY <1>1, <1>2, <1>3, <1>4, <1>6, Small DEF Sizes
  <2>2. Misorder(buffer, n) = d /\ Delta(buffer, n) = Modulus - d
    BY <1>2, <1>3, <2>1, MisorderIs
  <2> HIDE DEF d
  <2> QED
    BY <2>1, <2>2, Small DEF TooLate, Behind
<1>7. ASSUME n >= x
      PROVE  n - x < Modulus /\ (TooLate(buffer, n) <=> n - x > Modulus - MaxMisorder)
  <2> DEFINE d == n - x
  <2>1. d \in 0..(Modulus - 1) /\ d \in Nat
    BY <1>1, <1>2, <1>3, <1>5, <1>7, Small DEF Sizes
  <2>2. /\ Delta(buffer, n) = d
        /\ d > 0 => Misorder(buffer, n) = Modulus - d
        /\ d = 0 => Misorder(buffer, n) = 0
    BY <1>2, <1>3, <2>1, DeltaIs
  <2> HIDE DEF d
  <2>3. TooLate(buffer, n) <=> d > Modulus - MaxMisorder
    <3>1. CASE d = 0
      BY <2>2, <3>1, Small DEF TooLate, Behind, Sizes
    <3>2. CASE d > 0
      BY <2>1, <2>2, <3>2, Small DEF TooLate, Behind, Sizes
    <3> QED
      BY <2>1, <3>1, <3>2
  <2> QED
    BY <2>1, <2>3, Small DEF d
<1> QED
  BY <1>2, <1>6, <1>7 DEF x

\* Peer and network keep to it, also through losses and a restart.
LEMMA NetworkStep ==
  ASSUME IInv, Network, [Next]_vars
  PROVE  Network'
<1>1. /\ sent \in Nat /\ First <= sent /\ First \in Nat /\ Window \in Nat \ {0} /\ MaxLost \in Nat
  BY JitterAssumption DEF IInv
<1>2. CASE UNCHANGED vars
  BY <1>2 DEF vars, Network
<1>3. CASE Send
  <2>1. \A p \in net' : p \in net \/ p[1] = sent
    BY <1>3 DEF Send
  <2>2. \A p \in net : restart.to <= p[1] /\ p[1] > sent - Window /\ p[1] < sent /\ p[1] \in Int
    BY <1>1, <1>3 DEF Send, Network, IInv, Genuine
  <2>3. sent' = sent + 1 /\ UNCHANGED <<lost, restart>> /\ restart.to <= sent /\ restart.to \in Nat
    BY <1>3 DEF Send, Network
  <2>4. ASSUME NEW p \in net'
        PROVE  restart'.to <= p[1] /\ sent' - Window <= p[1] /\ p[1] < sent'
    BY <1>1, <2>1, <2>2, <2>3
  <2>5. restart'.to <= sent'
    BY <1>1, <2>3
  <2> QED
    BY <2>3, <2>4, <2>5 DEF Network
<1>4. ASSUME NEW n \in Numbers, Lose(n) PROVE Network'
  <2>1. /\ IsFiniteSet(lost \cup {n})
        /\ Cardinality(lost \cup {n}) = IF n \in lost THEN Cardinality(lost) ELSE Cardinality(lost) + 1
    BY FS_AddElement DEF Network
  <2>2. Cardinality(lost) \in Nat
    BY FS_CardinalityType DEF Network
  <2>3. /\ net' \subseteq net /\ lost' = lost \cup {n} /\ UNCHANGED <<sent, restart>>
        /\ Cardinality(lost) < MaxLost
    BY <1>4 DEF Lose
  <2>4. IsFiniteSet(lost') /\ Cardinality(lost') <= MaxLost
    BY <1>1, <2>1, <2>2, <2>3
  <2> QED
    BY <2>3, <2>4 DEF Network
<1>5. ASSUME NEW n \in Numbers, Receive(n, "first") \/ Receive(n, "copy") PROVE Network'
  <2>1. PICK copy \in {"first", "copy"} : Receive(n, copy)
    BY <1>5
  <2>2. UNCHANGED <<sent, restart, lost>> /\ \A p \in net' : p \in net \/ p = <<n, "copy">>
    BY <2>1 DEF Receive
  <2>3. \A p \in net' : \E q \in net : p[1] = q[1]
    BY <2>2 DEF Numbers
  <2> QED
    BY <2>2, <2>3 DEF Network
<1>6. ASSUME NEW jump \in Jumps, Restart(jump) PROVE Network'
  <2>1. /\ net' = {} /\ restart' = [from |-> sent, to |-> sent + jump] /\ sent' = sent + jump
        /\ lost' = lost /\ sent > First
    BY <1>6 DEF Restart
  <2>2. jump \in Nat
    BY Constants
  <2>3. /\ restart'.from = sent /\ restart'.to = sent + jump
    BY <2>1
  <2>4. /\ restart'.to - restart'.from = jump /\ restart'.to # First /\ restart'.to <= sent'
        /\ restart'.from \in Nat /\ restart'.to \in Nat /\ First <= restart'.from
    BY <1>1, <2>1, <2>2, <2>3
  <2> QED
    BY <2>1, <2>4 DEF Network
<1> QED
  BY <1>2, <1>3, <1>4, <1>5, <1>6 DEF Next

\* A longer interval is the shorter one and what was added.
LEMMA Extends ==
  ASSUME NEW a \in Int, NEW s \in Int, NEW t \in Int
  PROVE  /\ \A m \in a..(t - 1) : m \in a..(s - 1) \/ m \in s..(t - 1)
         /\ \A m \in s..(t - 1) : m \in Int /\ s <= m /\ m < t
  OBVIOUS

\* What adds packets that were not received leaves the order as it is.
LEMMA StaysOrdered ==
  ASSUME Ordered, UNCHANGED <<buffer, last>>, sent \in Nat, sent' \in Nat, sent <= sent',
         Unread \subseteq Unread', refused \subseteq refused', sent..(sent' - 1) \subseteq Unread'
  PROVE  Ordered'
<1> DEFINE U == Unread
           V == Unread'
<1>1. U \subseteq V /\ U \cup refused \subseteq V \cup refused' /\ sent..(sent' - 1) \subseteq V
  OBVIOUS
<1>2. ASSUME buffer.origin = None PROVE 0..(sent' - 1) \subseteq V
  <2>1. 0..(sent - 1) \subseteq U
    BY <1>2 DEF Ordered
  <2> HIDE DEF U, V
  <2>2. \A m \in 0..(sent' - 1) : m \in 0..(sent - 1) \/ m \in sent..(sent' - 1)
    <3>1. 0 \in Int /\ sent \in Int /\ sent' \in Int
      OBVIOUS
    <3> QED
      BY <3>1, Extends
  <2> QED
    BY <1>1, <2>1, <2>2
<1>3. ASSUME buffer.origin # None
      PROVE  /\ Explained(buffer, V \cup refused', sent')
             /\ OnlyBegins(buffer, V \cup refused')
             /\ Beyond(buffer, V, sent')
  <2>1. /\ Explained(buffer, U \cup refused, sent) /\ OnlyBegins(buffer, U \cup refused)
        /\ Beyond(buffer, U, sent) /\ Base(buffer) \in Nat
    BY <1>3 DEF Ordered, Aligned
  <2> HIDE DEF U, V
  <2> DEFINE x == Base(buffer)
  <2>2. \A m \in x..(sent' - 1) : m \in x..(sent - 1) \/ m \in sent..(sent' - 1)
    <3>1. x \in Int /\ sent \in Int /\ sent' \in Int
      BY <2>1
    <3> QED
      BY <3>1, Extends
  <2>3. \A m \in (x + Capacity)..(sent' - 1) : m \in (x + Capacity)..(sent - 1) \/ m \in sent..(sent' - 1)
    <3> DEFINE a == x + Capacity
    <3>1. a \in Int /\ sent \in Int /\ sent' \in Int
      BY <2>1, Constants
    <3> HIDE DEF a
    <3>2. \A m \in a..(sent' - 1) : m \in a..(sent - 1) \/ m \in sent..(sent' - 1)
      BY <3>1, Extends
    <3> QED
      BY <3>2 DEF a
  <2>4. Explained(buffer, V \cup refused', sent')
    BY <1>1, <2>1, <2>2 DEF Explained
  <2>5. OnlyBegins(buffer, V \cup refused')
    BY <1>1, <2>1 DEF OnlyBegins
  <2>6. Beyond(buffer, V, sent')
    BY <1>1, <2>1, <2>3 DEF Beyond
  <2> QED
    BY <2>4, <2>5, <2>6
<1>4. buffer' = buffer /\ last' = last
  OBVIOUS
<1> QED
  BY <1>2, <1>3, <1>4 DEF Ordered

\* Nothing that the peer sends, the network loses or a restart leaves out was received.
LEMMA PeerOrdered ==
  ASSUME IInv, Network, Ordered,
         Send \/ (\E n \in Numbers : Lose(n)) \/ (\E jump \in Jumps : Restart(jump))
  PROVE  Ordered'
<1>1. sent \in Nat /\ First \in Nat
  BY Constants DEF IInv
<1>2. CASE Send
  <2>1. /\ UNCHANGED <<buffer, last, refused, restart, lost>> /\ sent' = sent + 1
        /\ net' = net \cup {<<sent, "first">>}
    BY <1>2 DEF Send
  <2>2. Unread \subseteq Unread'
    BY <2>1 DEF Unread, NeverSent
  <2>3. sent..(sent' - 1) \subseteq Unread'
    <3>1. \A m \in sent..(sent' - 1) : m = sent /\ m \in Int
      BY <1>1, <2>1
    <3> QED
      BY <2>1, <3>1 DEF Unread
  <2> QED
    BY <1>1, <2>1, <2>2, <2>3, StaysOrdered
<1>3. ASSUME NEW n \in Numbers, Lose(n) PROVE Ordered'
  <2>1. /\ UNCHANGED <<buffer, last, refused, restart, sent>>
        /\ net' = net \ {<<n, "first">>} /\ lost' = lost \cup {n}
    BY <1>3 DEF Lose
  <2>2. Unread \subseteq Unread'
    BY <2>1 DEF Unread, NeverSent
  <2>3. sent..(sent' - 1) \subseteq Unread'
    BY <1>1, <2>1
  <2> QED
    BY <1>1, <2>1, <2>2, <2>3, StaysOrdered
<1>4. ASSUME NEW jump \in Jumps, Restart(jump) PROVE Ordered'
  <2>1. /\ UNCHANGED <<buffer, last, refused, lost, net>> /\ sent' = sent + jump
        /\ restart'.from = sent /\ restart'.to = sent' /\ restart.to = First
    BY <1>4 DEF Restart
  <2>2. jump \in Nat
    BY Constants
  <2>3. restart.from = First
    BY <1>1, <2>1, Constants DEF Network
  <2>4. \A m \in Int : NeverSent(m) => m < First
    BY <1>1, <2>1, <2>3 DEF NeverSent
  <2>5. \A m \in Int : m < First \/ (sent <= m /\ m < sent') => NeverSent(m)'
    BY <2>1 DEF NeverSent
  <2>6. Unread \subseteq Unread'
    BY <2>1, <2>4, <2>5 DEF Unread
  <2>7. sent' \in Nat /\ sent <= sent'
    BY <1>1, <2>1, <2>2
  <2>8. sent..(sent' - 1) \subseteq Unread'
    <3>1. \A m \in sent..(sent' - 1) : m \in Int /\ sent <= m /\ m < sent'
      <4>1. sent \in Int /\ sent' \in Int
        BY <1>1, <2>7
      <4> QED
        BY <4>1, Extends
    <3> QED
      BY <2>5, <3>1 DEF Unread
  <2> QED
    BY <1>1, <2>1, <2>6, <2>7, <2>8, StaysOrdered
<1> QED
  BY <1>2, <1>3, <1>4

\* The buffer with n in it, before the frames are counted.
With(n) == Store(Room(buffer, n), n)

\* What is received and not refused is added in order.
LEMMA AddOrdered ==
  ASSUME Sizes, IInv, Network, Recognised, Ordered,
         NEW n \in Numbers, NEW copy, Receive(n, copy), ~TooLate(buffer, n)
  PROVE  /\ Fitting(With(n)) /\ Aligned(With(n)) /\ last < Base(With(n))
         /\ Explained(With(n), Unread' \cup refused', sent)
         /\ OnlyBegins(With(n), Unread' \cup refused')
         /\ Beyond(With(n), Unread', sent)
         /\ sent <= Base(With(n)) + Capacity + Window
<1> DEFINE c == With(n)
           U == Unread
           V == Unread'
<1>1. /\ UNCHANGED <<sent, restart, lost, refused>>
      /\ \A p \in net : p # <<n, "first">> => p \in net' \/ p = <<n, copy>>
      /\ copy # "first" /\ <<n, "first">> \in net => <<n, "first">> \in net'
  BY DEF Receive
<1>2. U \ {n} \subseteq V
  <2>1. \A m \in Int : m # n /\ <<m, "first">> \in net => <<m, "first">> \in net'
    BY <1>1
  <2> QED
    BY <1>1, <2>1 DEF Unread, NeverSent
<1>3. /\ n \in First..(sent - 1) /\ sent - Window <= n /\ sent \in Nat
      /\ n \in Nat /\ n < sent /\ sent <= n + Window /\ First <= n
  <2>1. n \in First..(sent - 1) /\ sent - Window <= n /\ sent \in Nat
    BY DEF Numbers, Network, IInv, Genuine
  <2> QED
    BY <2>1, Small
<1>4. Fitting(c)
  <2>1. Fitting(Room(buffer, n)) /\ Room(buffer, n).origin # None /\ Delta(Room(buffer, n), n) < Capacity
    BY <1>3, RoomFits DEF IInv
  <2> QED
    BY <1>3, <2>1, StoreFits DEF With
<1>5. refused' = refused
  BY <1>1
<1>6. CASE buffer.origin = None
  <2>1. c = Store([origin |-> SequenceNumber(n), packets |-> Empty], n)
    BY <1>6 DEF With, Room
  <2>2. Aligned(c) /\ Base(c) = n /\ Holds(c, n)
    BY <1>3, <2>1, BeginAligned
  <2>3. last < First /\ last \in Int /\ 0..(sent - 1) \subseteq U
    BY <1>6 DEF Ordered
  <2>4. U \ {n} \subseteq V \cup refused
    BY <1>2
  <2>5. last < Base(c)
    BY <1>3, <2>2, <2>3, Small
  <2> HIDE DEF c, U, V
  <2>6. Explained(c, V \cup refused, sent) /\ OnlyBegins(c, V \cup refused)
    BY <1>3, <2>2, <2>3, <2>4, BegunOrdered
  <2>7. Beyond(c, V, sent) /\ sent <= Base(c) + Capacity + Window
    BY <1>2, <1>3, <2>2, <2>3, BegunOrdered
  <2> QED
    BY <1>4, <1>5, <2>2, <2>5, <2>6, <2>7 DEF c, V
<1>7. CASE buffer.origin # None
  <2>1. /\ Aligned(buffer) /\ last < Base(buffer) /\ Explained(buffer, U \cup refused, sent)
        /\ OnlyBegins(buffer, U \cup refused) /\ Beyond(buffer, U, sent) /\ last \in Int
        /\ Fitting(buffer) /\ Base(buffer) \in Nat
    BY <1>7 DEF Ordered, IInv, Aligned
  <2>2. /\ Base(buffer) <= n /\ n - Base(buffer) < Modulus
        /\ n - Base(buffer) <= Modulus - MaxMisorder
    <3>1. /\ n < Base(buffer) => TooLate(buffer, n)
          /\ n >= Base(buffer) =>
               /\ n - Base(buffer) < Modulus
               /\ TooLate(buffer, n) <=> n - Base(buffer) > Modulus - MaxMisorder
      BY <1>7, RefusedWhen
    <3> QED
      BY <1>3, <2>1, <3>1, Small
  <2>3. Made(buffer, c, n)
    BY <1>3, <2>1, <2>2, AddMakes DEF With
  <2>4. Aligned(c) /\ last < Base(c)
    <3>1. Aligned(c) /\ Base(buffer) <= Base(c) /\ Base(c) \in Nat
      BY <2>3 DEF Made, Aligned
    <3> QED
      BY <2>1, <3>1
  <2> HIDE DEF c, U, V
  <2>5. /\ Explained(c, V \cup refused, sent) /\ OnlyBegins(c, V \cup refused) /\ Beyond(c, V, sent)
        /\ sent <= Base(c) + Capacity + Window
    BY <1>2, <1>3, <2>1, <2>2, <2>3, MadeOrdered
  <2> QED
    BY <1>4, <1>5, <2>4, <2>5 DEF c, V
<1> QED
  BY <1>6, <1>7

\* The greatest element of a set of numbers that has one.
LEMMA MaxIs ==
  ASSUME NEW S \in SUBSET Int, NEW x \in S, \A y \in S : y <= x
  PROVE  Max(S) = x
<1>1. \E z \in S : \A y \in S : z >= y
  OBVIOUS
<1>2. Max(S) \in S /\ \A y \in S : Max(S) >= y
  BY <1>1 DEF Max
<1> HIDE DEF Max
<1>3. Max(S) <= x /\ Max(S) >= x /\ Max(S) \in Int /\ x \in Int
  BY <1>2
<1> QED
  BY <1>3

\* A frame is the packets from the origin up to the first of another frame.
LEMMA FrameIs ==
  ASSUME Sizes, IInv, Network, Recognised, Ordered,
         NEW n \in Numbers, NEW copy, Receive(n, copy), ~TooLate(buffer, n)
  PROVE  /\ Ordered'
         /\ \/ frame' = {}
            \/ \E next \in Nat : /\ frame' = Base(With(n))..(next - 1)
                                /\ Base(With(n)) < next
                                /\ Timestamp(next - 1) < Timestamp(next)
<1> DEFINE c == With(n)
           x == Base(c)
           end == Min(FrameEnds(c))
           next == x + end
           d == Remove(c, end)
           U == Unread'
           R == refused'
<1>1. /\ Fitting(c) /\ Aligned(c) /\ last < x /\ Explained(c, U \cup R, sent)
      /\ OnlyBegins(c, U \cup R) /\ Beyond(c, U, sent) /\ sent <= x + Capacity + Window
  BY AddOrdered
<1>2. Add(n) /\ sent' = sent /\ sent \in Nat /\ last \in Int /\ x \in Nat
  BY <1>1 DEF Receive, IInv, Ordered, Aligned
<1>3. CASE Complete(c)
  <2>1. buffer' = d /\ frame' = {Held(c, i) : i \in 0..(end - 1)} /\ last' = Max(frame' \cup {last})
    BY <1>2, <1>3 DEF Add, With
  <2>2. FrameEnds(c) # {}
    BY <1>3 DEF Complete
  <2> HIDE DEF c, U, R
  <2>3. /\ Aligned(d) /\ Base(d) = next /\ end \in Nat \ {0}
        /\ {Held(c, i) : i \in 0..(end - 1)} = x..(next - 1)
        /\ Timestamp(next - 1) < Timestamp(next)
        /\ Explained(d, U \cup R, sent) /\ OnlyBegins(d, U \cup R) /\ Beyond(d, U, sent)
    BY <1>1, <1>2, <2>2, CompleteOrdered
  <2> HIDE DEF d, end, x
  <2>4. next \in Nat /\ next - 1 \in x..(next - 1) /\ x < next
    BY <1>2, <2>3
  <2>5. frame' = x..(next - 1)
    BY <2>1, <2>3
  <2>6. last' = next - 1
    <3> DEFINE S == frame' \cup {last}
               top == next - 1
    <3>1. S \in SUBSET Int /\ top \in S /\ \A y \in S : y <= top
      BY <1>1, <1>2, <2>4, <2>5
    <3> HIDE DEF S, top
    <3>2. Max(S) = top
      BY <3>1, MaxIs
    <3> QED
      BY <2>1, <3>2 DEF S, top
  <2>7. last' \in Int /\ last' < Base(d)
    BY <2>3, <2>4, <2>6
  <2>8. d.origin # None
    BY <2>3 DEF Aligned
  <2> HIDE DEF next
  <2>9. Ordered'
    BY <1>2, <2>1, <2>3, <2>7, <2>8 DEF Ordered, U, R
  <2> QED
    BY <2>3, <2>4, <2>5, <2>9 DEF x, c
<1>4. CASE ~Complete(c)
  <2>1. buffer' = c /\ frame' = {} /\ last' = last
    BY <1>2, <1>4 DEF Add, With
  <2>2. c.origin # None
    BY <1>1 DEF Aligned
  <2> HIDE DEF c
  <2>3. Ordered'
    BY <1>1, <1>2, <2>1, <2>2 DEF Ordered, U, R, x
  <2> QED
    BY <2>1, <2>3
<1> QED
  BY <1>3, <1>4

\* A late packet is refused, and noted.
LEMMA RefuseOrdered ==
  ASSUME Sizes, IInv, Network, Recognised, Ordered, NEW n \in Numbers,
         NEW copy \in {"first", "copy"}, Receive(n, copy), TooLate(buffer, n)
  PROVE  Ordered' /\ buffer' = buffer /\ frame' = {}
<1> DEFINE U == Unread
           V == Unread'
           x == Base(buffer)
<1>1. /\ UNCHANGED <<sent, restart, lost, buffer, last>> /\ frame' = {}
      /\ refused' = IF copy = "first" THEN refused \cup {n} ELSE refused
  BY DEF Receive, Refuse
<1>2. \A m \in Int : <<m, "first">> \in net => (m = n /\ copy = "first") \/ <<m, "first">> \in net'
  BY DEF Receive
<1>3. /\ \A m \in U : m \in V \/ (m = n /\ copy = "first")
      /\ U \subseteq V \cup {n}
  BY <1>1, <1>2 DEF Unread, NeverSent
<1>4. U \cup refused \subseteq V \cup refused'
  BY <1>1, <1>3
<1>5. buffer.origin # None
  BY DEF TooLate, Behind
<1>6. /\ Aligned(buffer) /\ last < x /\ last \in Int /\ Explained(buffer, U \cup refused, sent)
      /\ OnlyBegins(buffer, U \cup refused) /\ Beyond(buffer, U, sent) /\ x \in Nat
  BY <1>5 DEF Ordered, Aligned
<1>7. n \in Nat /\ (n >= x => n - x > Modulus - MaxMisorder)
  BY <1>5, RefusedWhen
<1> HIDE DEF U, V
<1>8. Explained(buffer, V \cup refused', sent) /\ OnlyBegins(buffer, V \cup refused')
  BY <1>4, <1>6 DEF Explained, OnlyBegins
<1>9. Beyond(buffer, V, sent)
  <2>1. ASSUME NEW m \in (x + Capacity)..(sent - 1), m - x <= Modulus - MaxMisorder PROVE m \in V
    <3>1. m \in U
      BY <1>6, <2>1 DEF Beyond
    <3>2. m # n
      BY <1>6, <1>7, <2>1, Small
    <3> QED
      BY <1>3, <3>1, <3>2
  <2> QED
    BY <2>1 DEF Beyond
<1> QED
  BY <1>1, <1>5, <1>6, <1>8, <1>9 DEF Ordered, V, x

\* The invariant holds at first,
LEMMA OrderInit == Init => OrderInv
<1> SUFFICES ASSUME Init PROVE OrderInv
  OBVIOUS
<1>1. First \in Nat /\ MaxLost \in Nat
  BY JitterAssumption
<1>2. Network
  BY <1>1, FS_EmptySet DEF Init, Network
<1>3. 0..(sent - 1) \subseteq Unread
  BY <1>1 DEF Init, Unread, NeverSent
<1>4. Ordered
  BY <1>1, <1>3 DEF Init, Ordered
<1> QED
  BY <1>2, <1>4, IInvInit DEF OrderInv

\* and every step keeps it.
LEMMA OrderStep ==
  ASSUME Sizes, OrderInv, [Next]_vars
  PROVE  OrderInv'
<1>1. IInv'
  <2>1. IInv /\ UNCHANGED vars => IInv'
    BY DEF IInv, Genuine, vars
  <2> QED
    BY <2>1, ReceiveStep, PeerStep DEF Next, OrderInv
<1>2. Network'
  BY NetworkStep DEF OrderInv
<1>3. ASSUME Recognised' PROVE Ordered'
  <2>1. CASE UNCHANGED vars
    BY <1>3, <2>1 DEF vars, OrderInv, Ordered, Recognised, Unread, NeverSent
  <2>2. CASE Send \/ (\E n \in Numbers : Lose(n)) \/ (\E jump \in Jumps : Restart(jump))
    <3>1. Recognised
      BY <1>3, <2>2 DEF Send, Lose, Restart, Recognised
    <3> QED
      BY <2>2, <3>1, PeerOrdered DEF OrderInv
  <2>3. ASSUME NEW n \in Numbers, NEW copy \in {"first", "copy"}, Receive(n, copy)
        PROVE  Ordered'
    <3>1. Recognised
      BY <1>3, <2>3 DEF Receive, Recognised
    <3> QED
      BY <2>3, <3>1, RefuseOrdered, FrameIs DEF OrderInv
  <2> QED
    BY <2>1, <2>2, <2>3 DEF Next
<1> QED
  BY <1>1, <1>2, <1>3 DEF OrderInv

\* The order holds in every behaviour of a buffer of these sizes.
THEOREM OrderInvariance == ASSUME Sizes PROVE Spec => []OrderInv
<1>1. OrderInv /\ [Next]_vars => OrderInv'
  BY Sizes, OrderStep
<1> QED
  BY <1>1, OrderInit, PTL DEF Spec

\* The quotient tells what a number was made of.
LEMMA Quotient ==
  ASSUME NEW f \in Nat \ {0}, NEW q \in Int, NEW r \in 0..(f - 1)
  PROVE  (q * f + r) \div f = q
<1> DEFINE x == q * f + r
           p == x \div f
<1>1. x \in Int /\ x = f * q + r
  OBVIOUS
<1> HIDE DEF x
<1>2. p \in Int /\ x % f \in 0..(f - 1) /\ x = f * p + (x % f)
  BY <1>1
<1>3. PICK s \in 0..(f - 1) : x = f * p + s
  BY <1>2
<1> HIDE DEF p
<1>4. (p - q >= 1 => f * (p - q) >= f) /\ (q - p >= 1 => f * (q - p) >= f)
  BY <1>2, AtLeastOne
<1>5. f * (p - q) = r - s /\ f * (q - p) = s - r
  BY <1>1, <1>2, <1>3
<1> QED
  BY <1>2, <1>4, <1>5 DEF p, x

\* A packet of the same frame has the same timestamp.
LEMMA SameFrameIs ==
  ASSUME NEW n \in Nat, NEW m \in SameFrame(n)
  PROVE  m \in Nat /\ Timestamp(m) = Timestamp(n)
<1> DEFINE q == n \div FrameSize
<1>1. FrameSize \in Nat \ {0}
  BY Constants
<1>2. q \in Nat
  <2>1. 0 <= n /\ 0 \in Nat
    OBVIOUS
  <2>2. 0 \div FrameSize = 0
    BY <1>1
  <2>3. 0 \div FrameSize <= q /\ q \in Int
    BY <1>1, <2>1, Quotients
  <2> QED
    BY <2>2, <2>3
<1>3. PICK i \in 0..(FrameSize - 1) : m = q * FrameSize + i
  BY DEF SameFrame, Timestamp
<1> HIDE DEF q
<1>4. m \in Nat
  <2>1. q * FrameSize \in Nat
    BY <1>1, <1>2
  <2> QED
    BY <1>1, <1>3, <2>1
<1>5. (q * FrameSize + i) \div FrameSize = q
  BY <1>1, <1>2, Quotient
<1> QED
  BY <1>3, <1>4, <1>5 DEF Timestamp, q

\* Only what arrives changes the buffer, and a frame is what add found complete.
LEMMA Changes ==
  ASSUME Sizes, OrderInv, [Next]_vars, Recognised, buffer' # buffer
  PROVE  \E n \in Numbers, copy \in {"first", "copy"} :
           Receive(n, copy) /\ ~TooLate(buffer, n)
<1>1. UNCHANGED buffer
         \/ \E n \in Numbers, copy \in {"first", "copy"} : Receive(n, copy)
  BY DEF Next, Send, Lose, Restart, vars
<1>2. PICK n \in Numbers, copy \in {"first", "copy"} : Receive(n, copy)
  BY <1>1
<1>3. ~TooLate(buffer, n)
  BY <1>2 DEF Receive, Refuse
<1> QED
  BY <1>2, <1>3

\* Frames leave in the order in which they were sent, none twice, whatever the network does.
THEOREM FramesInOrder == ASSUME Sizes PROVE Spec => InOrder
<1>1. OrderInv /\ [Next]_vars => (Recognised /\ buffer' # buffer => \A n \in frame' : n > last)
  <2> SUFFICES ASSUME OrderInv, [Next]_vars, Recognised, buffer' # buffer, NEW m \in frame'
               PROVE  m > last
    OBVIOUS
  <2>1. PICK n \in Numbers, copy \in {"first", "copy"} : Receive(n, copy) /\ ~TooLate(buffer, n)
    BY Changes
  <2>2. last < Base(With(n)) /\ Base(With(n)) \in Nat /\ last \in Int
    BY <2>1, AddOrdered DEF OrderInv, Aligned, Ordered
  <2>3. PICK next \in Nat : frame' = Base(With(n))..(next - 1)
    BY <2>1, FrameIs DEF OrderInv
  <2> QED
    BY <2>2, <2>3
<1>2. Spec => []OrderInv
  BY OrderInvariance
<1> QED
  BY <1>1, <1>2, PTL DEF Spec, InOrder

\* A frame lacks nothing but its beginning, and of that only what the buffer never had:
\* smart_remove splits no frame.
THEOREM FramesLackOnlyLost == ASSUME Sizes PROVE Spec => LacksOnlyLost
<1>1. OrderInv /\ [Next]_vars =>
        (Recognised /\ buffer' # buffer =>
           \A n \in frame' : \A m \in SameFrame(n) \ frame' :
             m < n /\ (m \in lost \cup refused \/ <<m, "first">> \in net' \/ NeverSent(m)))
  <2> SUFFICES ASSUME OrderInv, [Next]_vars, Recognised, buffer' # buffer,
                      NEW k \in frame', NEW m \in SameFrame(k) \ frame'
               PROVE  m < k /\ (m \in lost \cup refused \/ <<m, "first">> \in net' \/ NeverSent(m))
    OBVIOUS
  <2>1. PICK n \in Numbers, copy \in {"first", "copy"} : Receive(n, copy) /\ ~TooLate(buffer, n)
    BY Changes
  <2> DEFINE x == Base(With(n))
  <2>2. PICK next \in Nat : frame' = x..(next - 1) /\ x < next /\ Timestamp(next - 1) < Timestamp(next)
    BY <2>1, FrameIs DEF OrderInv
  <2>3. x \in Nat /\ OnlyBegins(With(n), Unread' \cup refused')
    BY <2>1, AddOrdered DEF OrderInv, Aligned
  <2>4. k \in Nat /\ x <= k /\ k <= next - 1 /\ next - 1 \in Nat
    BY <2>2, <2>3
  <2>5. m \in Nat /\ Timestamp(m) = Timestamp(k)
    BY <2>4, SameFrameIs
  <2>6. ~ (m >= x /\ m <= next - 1)
    BY <2>2, <2>3, <2>5
  <2> HIDE DEF x
  <2>7. m < next
    <3>1. /\ Timestamp(k) <= Timestamp(next - 1) /\ next <= m => Timestamp(next) <= Timestamp(m)
          /\ Timestamp(k) \in Int /\ Timestamp(next - 1) \in Int /\ Timestamp(next) \in Int
      BY <2>4, <2>5, Timestamps
    <3>2. Timestamp(k) <= Timestamp(next - 1)
      BY <2>4, Timestamps
    <3>3. next <= m => Timestamp(next) <= Timestamp(m)
      BY <2>5, Timestamps
    <3> QED
      BY <2>2, <2>4, <2>5, <3>1, <3>2, <3>3
  <2>8. m < x /\ m < k
    BY <2>3, <2>4, <2>5, <2>6, <2>7
  <2>9. Timestamp(m) = Timestamp(x)
    <3>1. Timestamp(m) <= Timestamp(x) /\ Timestamp(x) <= Timestamp(k) /\ Timestamp(x) \in Int
      BY <2>3, <2>4, <2>5, <2>8, Timestamps
    <3>2. Timestamp(m) \in Int
      BY <2>5, Timestamps
    <3> QED
      BY <2>5, <3>1, <3>2
  <2>10. m \in Unread' \cup refused'
    <3>1. m \in 0..(x - 1)
      BY <2>3, <2>5, <2>8
    <3> QED
      BY <2>3, <2>9, <3>1 DEF OnlyBegins, x
  <2>11. lost' = lost /\ refused' = refused /\ (NeverSent(m)' => NeverSent(m))
    BY <2>1 DEF Receive, NeverSent
  <2> QED
    BY <2>8, <2>10, <2>11 DEF Unread
<1>2. Spec => []OrderInv
  BY OrderInvariance
<1> QED
  BY <1>1, <1>2, PTL DEF Spec, LacksOnlyLost
-----------------------------------------------------------------------------
(* How long it is silent. *)

\* The peer's packets without the numbers that a restart left out: how many came before
\* the packet m, counted from 0, and the number of the packet that has that place.
Position(r, m) == IF m >= r.to THEN m - (r.to - r.from) ELSE m
Number(r, q) == IF q < r.from THEN q ELSE q + (r.to - r.from)

\* The numbers of a restart, or of none.
IsGap(r) == r.from \in Nat /\ r.to \in Nat /\ r.from <= r.to
Sent(r, m) == m \in Int /\ (m < r.from \/ r.to <= m)

\* Packets of L from a on and before z.
Count(L, a, z) == Cardinality({m \in L : a <= m /\ m < z})

\* Positions are in the order of the numbers, and at most as far apart.
LEMMA Positions ==
  ASSUME NEW r, IsGap(r), NEW a, NEW z, Sent(r, a), Sent(r, z)
  PROVE  /\ Position(r, a) \in Int
         /\ a <= z => /\ Position(r, a) <= Position(r, z)
                      /\ Position(r, z) - Position(r, a) <= z - a
         /\ a < z => Position(r, a) < Position(r, z)
         /\ (r.to <= a \/ z < r.from) /\ a <= z => Position(r, z) - Position(r, a) = z - a
  BY DEF IsGap, Sent, Position

\* Every position is that of a packet.
LEMMA Numbered ==
  ASSUME NEW r, IsGap(r), NEW q \in Int
  PROVE  Sent(r, Number(r, q)) /\ Position(r, Number(r, q)) = q
  BY DEF IsGap, Sent, Position, Number

\* Different positions are those of different packets.
LEMMA Apart ==
  ASSUME NEW r, IsGap(r), NEW p \in Int, NEW q \in Int, Number(r, p) = Number(r, q)
  PROVE  p = q
  BY Numbered

\* So many positions are those of at least as many packets.
LEMMA Filled ==
  ASSUME NEW r, IsGap(r), NEW L, IsFiniteSet(L), NEW u \in Int, NEW v \in Int,
         \A q \in u..v : Number(r, q) \in L
  PROVE  v - u + 1 <= Cardinality(L)
<1> DEFINE f == [q \in u..v |-> Number(r, q)]
<1>1. \A p, q \in u..v : f[p] = f[q] => p = q
  BY Apart
<1>2. f \in Injection(u..v, L)
  BY <1>1 DEF Injection, IsInjective
<1> HIDE DEF f
<1>3. Cardinality(u..v) <= Cardinality(L)
  BY <1>2, FS_Injection
<1>4. Cardinality(u..v) = IF u > v THEN 0 ELSE v - u + 1
  BY FS_Interval
<1>5. Cardinality(L) \in Nat
  BY FS_CardinalityType
<1> QED
  BY <1>3, <1>4, <1>5

\* Counting in two parts, and one packet.
LEMMA Counts ==
  ASSUME NEW L \in SUBSET Int, IsFiniteSet(L), NEW a \in Int, NEW m \in Int, NEW z \in Int,
         a <= m, m <= z
  PROVE  /\ IsFiniteSet({k \in L : a <= k /\ k < z})
         /\ Count(L, a, z) \in Nat /\ Count(L, a, m) \in Nat /\ Count(L, m, z) \in Nat
         /\ Count(L, a, z) = Count(L, a, m) + Count(L, m, z)
         /\ Count(L, a, z) <= Cardinality(L)
         /\ m < z /\ m \in L => Count(L, m, z) >= 1
<1> DEFINE A == {k \in L : a <= k /\ k < m}
           Z == {k \in L : m <= k /\ k < z}
           S == {k \in L : a <= k /\ k < z}
<1>1. S = A \cup Z /\ A \cap Z = {} /\ A \in SUBSET L /\ Z \in SUBSET L /\ S \in SUBSET L
  <2>1. \A k \in L : (a <= k /\ k < z) <=> (a <= k /\ k < m) \/ (m <= k /\ k < z)
    OBVIOUS
  <2>2. \A k \in L : ~ ((a <= k /\ k < m) /\ (m <= k /\ k < z))
    OBVIOUS
  <2> QED
    BY <2>1, <2>2, Zenon
<1>2. m < z /\ m \in L => Z # {}
  OBVIOUS
<1> HIDE DEF A, Z, S
<1>3. IsFiniteSet(A) /\ IsFiniteSet(Z) /\ IsFiniteSet(S) /\ Cardinality(S) <= Cardinality(L)
  BY <1>1, FS_Subset
<1>4. /\ Cardinality(A) \in Nat /\ Cardinality(Z) \in Nat /\ Cardinality(S) \in Nat
      /\ Cardinality(L) \in Nat
  BY <1>3, FS_CardinalityType
<1>5. Cardinality(S) = Cardinality(A) + Cardinality(Z) - Cardinality(A \cap Z)
  BY <1>1, <1>3, FS_Union
<1>6. Cardinality(A \cap Z) = 0 /\ (Z # {} => Cardinality(Z) # 0)
  BY <1>1, <1>3, FS_EmptySet
<1>7. Cardinality(S) = Cardinality(A) + Cardinality(Z) /\ (Z # {} => Cardinality(Z) >= 1)
  BY <1>4, <1>5, <1>6
<1>8. Count(L, a, m) = Cardinality(A) /\ Count(L, m, z) = Cardinality(Z) /\ Count(L, a, z) = Cardinality(S)
  BY DEF Count, A, Z, S
<1> QED
  BY <1>2, <1>3, <1>4, <1>7, <1>8 DEF S

\* Two packets count two.
LEMMA Two ==
  ASSUME NEW L \in SUBSET Int, IsFiniteSet(L), NEW a \in Int, NEW p \in L, NEW q \in L, NEW z \in Int,
         a <= p, p < q, q < z
  PROVE  Count(L, a, z) \in Nat /\ Count(L, a, z) >= 2
<1>1. p \in Int /\ q \in Int /\ a <= q /\ p <= q /\ q <= z /\ q <= q
  OBVIOUS
<1>2. /\ Count(L, a, z) = Count(L, a, q) + Count(L, q, z) /\ Count(L, a, z) \in Nat
      /\ Count(L, q, z) \in Nat /\ Count(L, q, z) >= 1
  BY ZenonT(60), <1>1, Counts
<1>3. /\ Count(L, a, q) = Count(L, a, p) + Count(L, p, q) /\ Count(L, a, p) \in Nat
      /\ Count(L, p, q) \in Nat /\ Count(L, p, q) >= 1
  BY ZenonT(60), <1>1, Counts
<1> QED
  BY <1>2, <1>3

\* A frame further on is one to stop at.
LEMMA StopsAt ==
  ASSUME Sizes, NEW b, Fitting(b), Aligned(b), NEW count \in Nat \ {0},
         NEW i \in Present(b), i >= count - 1 + FrameSize
  PROVE  FrameStarts(b, count) # {}
<1> DEFINE x == Base(b)
           t == Timestamp(x + count - 1)
           S == {k \in Present(b) : k >= count /\ Timestamp(Held(b, k)) # t}
           s == Min(S)
<1>1. /\ x \in Nat /\ FrameSize \in Nat \ {0} /\ Present(b) \in SUBSET Nat
      /\ \A k \in Present(b) : k \in Nat /\ Held(b, k) = x + k
  <2>1. \A k \in Present(b) : k \in Nat
    BY PresentIs, Small
  <2> QED
    BY <2>1, PresentIs, Small DEF Aligned
<1> HIDE DEF x
<1>2. i \in S
  <2> DEFINE y == x + count - 1
             z == x + i
  <2>1. y \in Nat /\ z \in Nat /\ y + FrameSize <= z /\ i >= count
    BY <1>1
  <2> HIDE DEF y, z
  <2>2. Timestamp(y) < Timestamp(z) /\ Timestamp(y) \in Int /\ Timestamp(z) \in Int
    BY <2>1, Timestamps
  <2>3. Timestamp(z) # Timestamp(y)
    BY <2>2
  <2> QED
    BY <1>1, <2>1, <2>3 DEF y, z
<1>3. s \in S /\ \A k \in S : s <= k
  <2>1. S \in SUBSET Nat /\ S # {}
    BY <1>1, <1>2
  <2> HIDE DEF S
  <2> QED
    BY <2>1, MinIsLeast
<1> HIDE DEF s
<1>4. s \in Present(b) /\ s >= count /\ Timestamp(Held(b, s)) # t
  BY <1>3
<1>5. ASSUME NEW j \in Present(b), j < s PROVE Timestamp(Held(b, j)) # Timestamp(Held(b, s))
  <2>1. CASE j >= count
    <3>1. j \notin S
      BY <1>1, <1>3, <1>4, <1>5
    <3> QED
      BY <1>4, <2>1, <3>1
  <2>2. CASE ~ (j >= count)
    <3> DEFINE y == x + count - 1
               u == x + j
               z == x + s
    <3>1. y \in Nat /\ u \in Nat /\ z \in Nat /\ u <= y /\ y <= z
      BY <1>1, <1>4, <2>2
    <3> HIDE DEF y, u, z
    <3>2. /\ Timestamp(u) <= Timestamp(y) /\ Timestamp(y) <= Timestamp(z)
          /\ Timestamp(u) \in Int /\ Timestamp(y) \in Int /\ Timestamp(z) \in Int
      BY <3>1, Timestamps
    <3>3. Timestamp(z) # Timestamp(y)
      BY <1>1, <1>4 DEF y, z
    <3>4. Timestamp(u) # Timestamp(z)
      BY <3>2, <3>3
    <3> QED
      BY <1>1, <1>4, <3>4 DEF u, z
  <2> QED
    BY <2>1, <2>2
<1> HIDE DEF S, t
<1>6. s \in FrameStarts(b, count)
  BY <1>4, <1>5 DEF FrameStarts
<1> QED
  BY <1>6

\* Where no frame ended, one of the FrameSize packets after the origin is missing.
LEMMA Breaks ==
  ASSUME Sizes, FrameSize < Capacity, NEW b, Fitting(b), Aligned(b), FrameEnds(b) = {}
  PROVE  \E m \in Nat : /\ Base(b) < m /\ m <= Base(b) + FrameSize /\ ~ Holds(b, m)
                        /\ \A k \in Base(b)..(m - 1) : Holds(b, k)
<1> DEFINE x == Base(b)
           S == {k \in 1..FrameSize : Held(b, k) = None}
           s == Min(S)
<1>1. /\ x \in Nat /\ FrameSize \in Nat \ {0} /\ b.origin \in Int /\ Capacity \in Nat
      /\ Held(b, 0) = x /\ x # None
      /\ \A i \in 0..(Capacity - 1) : Held(b, i) # None => Held(b, i) = x + i
  BY HeldIs, Small DEF Aligned
<1> HIDE DEF x
<1>2. S # {}
  <2> SUFFICES ASSUME S = {} PROVE FALSE
    OBVIOUS
  <2>1. \A i \in 0..FrameSize : Held(b, i) # None /\ Held(b, i) = x + i
    <3>1. \A i \in 0..FrameSize : i \in 0..(Capacity - 1) /\ (i = 0 \/ i \in 1..FrameSize)
      BY <1>1
    <3>2. \A i \in 0..FrameSize : Held(b, i) # None
      BY <1>1, <3>1
    <3> QED
      BY <1>1, <3>1, <3>2
  <2> HIDE DEF S
  <2> DEFINE T == {i \in 1..FrameSize : Timestamp(x + i) # Timestamp(x)}
             e == Min(T)
  <2>2. FrameSize \in T
    <3> DEFINE z == x + FrameSize
    <3>1. z \in Nat /\ x + FrameSize <= z
      BY <1>1
    <3> HIDE DEF z
    <3>2. Timestamp(x) < Timestamp(z) /\ Timestamp(x) \in Int /\ Timestamp(z) \in Int
      BY <1>1, <3>1, Timestamps
    <3>3. Timestamp(z) # Timestamp(x)
      BY <3>2
    <3> QED
      BY <1>1, <3>3 DEF z
  <2>3. e \in T /\ \A i \in T : e <= i
    <3>1. T \in SUBSET Nat /\ T # {}
      BY <1>1, <2>2
    <3> HIDE DEF T
    <3> QED
      BY <3>1, MinIsLeast
  <2> HIDE DEF e
  <2>4. e \in 1..FrameSize /\ Timestamp(x + e) # Timestamp(x)
    BY <2>3
  <2>5. Timestamp(x + (e - 1)) = Timestamp(x)
    <3>1. CASE e = 1
      <4>1. x + (e - 1) = x
        BY <1>1, <3>1
      <4> QED
        BY <4>1
    <3>2. CASE e # 1
      <4>1. e - 1 \in 1..FrameSize /\ ~ (e <= e - 1)
        BY <1>1, <2>4, <3>2
      <4>2. e - 1 \notin T
        BY <2>3, <4>1
      <4> QED
        BY <4>1, <4>2
    <3> QED
      BY <3>1, <3>2
  <2>6. e \in Slots \ {0} /\ e \in 0..FrameSize /\ e - 1 \in 0..FrameSize
    BY <1>1, <2>4 DEF Slots
  <2>7. Timestamp(Held(b, e)) # Timestamp(Held(b, e - 1))
    BY <2>1, <2>4, <2>5, <2>6
  <2>8. \A j \in 0..e : Held(b, j) # None
    BY <1>1, <2>1, <2>4
  <2>9. e \in FrameEnds(b)
    BY <2>6, <2>7, <2>8 DEF FrameEnds
  <2> QED
    BY <2>9
<1>3. s \in S /\ \A k \in S : s <= k
  <2>1. S \in SUBSET Nat
    BY <1>1
  <2> HIDE DEF S
  <2> QED
    BY <1>2, <2>1, MinIsLeast
<1> HIDE DEF s
<1>4. s \in 1..FrameSize /\ Held(b, s) = None
  BY <1>3
<1> DEFINE m == x + s
<1>5. m \in Nat /\ x < m /\ m <= x + FrameSize /\ m - x = s /\ m # None
  <2>1. m \in Nat /\ x < m /\ m <= x + FrameSize /\ m - x = s
    BY <1>1, <1>4
  <2> QED
    BY <2>1, Small
<1> HIDE DEF m
<1>6. ~ Holds(b, m)
  BY <1>4, <1>5, HeldIs DEF x
<1>7. ASSUME NEW k \in x..(m - 1) PROVE Holds(b, k)
  <2> DEFINE i == k - x
  <2>1. i \in 0..(Capacity - 1) /\ x + i = k /\ i < s /\ i \in Int /\ (i = 0 \/ i \in 1..FrameSize)
    BY <1>1, <1>4, <1>5
  <2> HIDE DEF i
  <2>2. Held(b, i) # None
    <3>1. CASE i = 0
      BY <1>1, <3>1
    <3>2. CASE i \in 1..FrameSize
      <4>1. ~ (s <= i)
        BY <1>4, <2>1, <3>2
      <4> QED
        BY <1>3, <3>2, <4>1
    <3> QED
      BY <2>1, <3>1, <3>2
  <2>3. Held(b, i) = k
    BY <1>1, <2>1, <2>2
  <2> QED
    BY <1>1, <2>1, <2>3, HeldHolds
<1> QED
  BY <1>5, <1>6, <1>7 DEF x

\* Where the origin goes when n is added.
LEMMA Moves ==
  ASSUME Sizes, NEW b, Fitting(b), Aligned(b), NEW n \in Nat,
         Base(b) <= n, n - Base(b) < Modulus
  PROVE  LET c == Store(Room(b, n), n)
             stops == FrameStarts(b, n - Base(b) - Capacity + 1)
         IN  \/ Base(c) = Base(b)
             \/ /\ n >= Base(b) + Capacity
                /\ \/ \E i \in stops : Base(c) = Base(b) + i
                   \/ Base(c) = n /\ (stops = {} \/ 2 * (n - Base(b)) > Modulus)
<1> DEFINE d == n - Base(b)
           begun == [origin |-> SequenceNumber(n), packets |-> Empty]
           c == Store(Room(b, n), n)
           stops == FrameStarts(b, n - Base(b) - Capacity + 1)
<1>1. /\ Base(b) \in Nat /\ b.origin = SequenceNumber(Base(b)) /\ b.origin # None
      /\ n \in Int /\ Base(b) \in Int
  BY Small DEF Aligned
<1>2. d \in 0..(Modulus - 1) /\ d \in Nat
  BY <1>1, Small
<1>3. Delta(b, n) = d /\ (d > 0 => Misorder(b, n) = Modulus - d) /\ (d = 0 => Misorder(b, n) = 0)
  BY <1>1, <1>2, DeltaIs
<1>4. Behind(b, n) <=> 2 * d > Modulus
  BY <1>1, <1>2, <1>3, Small DEF Behind
<1>5. Excess(b, n) = n - Base(b) - Capacity + 1
  BY <1>3 DEF Excess
<1>6. Base(Store(begun, n)) = n
  BY BeginAligned
<1>7. CASE Behind(b, n)
  <2>1. c = Store(begun, n)
    BY <1>7 DEF Room
  <2>2. n >= Base(b) + Capacity /\ 2 * (n - Base(b)) > Modulus
    BY <1>1, <1>2, <1>4, <1>7, Small DEF Sizes
  <2> QED
    BY <1>6, <2>1, <2>2
<1>8. CASE ~Behind(b, n) /\ Delta(b, n) >= Capacity /\ stops = {}
  <2>1. c = Store(begun, n)
    BY <1>1, <1>5, <1>8 DEF Room
  <2>2. n >= Base(b) + Capacity
    BY <1>1, <1>2, <1>3, <1>8, Small
  <2> QED
    BY <1>6, <1>8, <2>1, <2>2
<1>9. CASE ~Behind(b, n) /\ Delta(b, n) >= Capacity /\ stops # {}
  <2> DEFINE s == Min(stops)
             r == Remove(b, s)
  <2>1. Room(b, n) = r
    BY <1>1, <1>5, <1>9 DEF Room
  <2>2. n - Base(b) - Capacity + 1 \in Int
    BY <1>1, Small
  <2>3. s \in 0..(Capacity - 1) /\ s >= d - Capacity + 1 /\ Held(b, s) # None
    BY <1>9, <2>2, FirstStart
  <2>4. s \in stops
    <3>1. stops \in SUBSET Nat
      BY Small DEF FrameStarts, Present, Slots
    <3> HIDE DEF stops
    <3> QED
      BY <1>9, <3>1, MinIsLeast
  <2> HIDE DEF s
  <2>5. Aligned(r) /\ Base(r) = Base(b) + s
    BY <2>3, RemoveAligned
  <2>6. Fitting(r)
    BY <1>1, <2>3, RemoveFits, Small
  <2>7. Base(r) <= n /\ n < Base(r) + Capacity /\ n >= Base(b) + Capacity
    BY <1>1, <1>2, <1>3, <1>9, <2>3, <2>5, Small
  <2> HIDE DEF r
  <2>8. Base(c) = Base(r)
    BY <2>1, <2>5, <2>6, <2>7, StoreAligned
  <2> HIDE DEF stops, c
  <2> QED
    BY <2>4, <2>5, <2>7, <2>8 DEF stops, c
<1>10. CASE ~Behind(b, n) /\ ~ (Delta(b, n) >= Capacity)
  <2>1. Room(b, n) = b
    BY <1>1, <1>10 DEF Room
  <2>2. n < Base(b) + Capacity
    BY <1>1, <1>2, <1>3, <1>10, Small
  <2>3. Base(c) = Base(b)
    BY <2>1, <2>2, StoreAligned
  <2> QED
    BY <2>3
<1> QED
  BY <1>7, <1>8, <1>9, <1>10

\* The sizes once more, so that a restart is heard and a frame fits beside the packets on
\* their way; at most one frame is kept back.
Ample ==
  /\ FrameSize + Window < Capacity /\ FrameSize + 3 * Window <= MaxMisorder
  /\ 2 * (Capacity + Window) <= Modulus
  /\ MaxMisorder + Capacity + MaxLost + Window <= Modulus
  /\ Prefetch <= 1

\* No restart, or one whose numbers never look like late ones for long.
Heard ==
  \/ restart.to = First
  \/ (restart.from - restart.to) % Modulus >= MaxMisorder + Capacity + MaxLost + Window

\* Every packet is lost once, or received, and copied then.
Fresh ==
  /\ lost \subseteq First..(sent - 1)
  /\ \A m \in lost : <<m, "first">> \notin net
  /\ \A p \in net : p[2] = "copy" => p[1] \notin Unread

\* For how long the packets from x on may have been silent beside their own number: one
\* capacity for every loss before x, and one for a restart before x.
Slack(r, L, x) ==
  Window + Capacity * Count(L, 0, x)
    + (IF r.to # First /\ r.to <= x THEN Capacity + Window ELSE 0)

\* The peer's numbers, the losses and what they bound.
LEMMA PeerFacts ==
  ASSUME Sizes, IInv, Network, Fresh
  PROVE  /\ IsGap(restart) /\ sent \in Nat /\ First <= sent /\ Sent(restart, sent)
         /\ IsFiniteSet(lost) /\ Cardinality(lost) <= MaxLost /\ Cardinality(lost) \in Nat
         /\ lost \in SUBSET Int /\ lost \in SUBSET Nat
         /\ First <= restart.from
         /\ \A m \in Int : First <= m /\ Sent(restart, m) => First <= Position(restart, m)
         /\ \A q \in Int : First <= q => First <= Number(restart, q)
         /\ \A m \in Int : First <= m => (NeverSent(m) <=> ~ Sent(restart, m))
<1>1. sent \in Nat /\ First <= sent /\ First \in Nat
  BY Small DEF IInv
<1>2. IsGap(restart) /\ restart.to <= sent /\ First <= restart.from
  BY Constants DEF Network, IsGap
<1>3. Cardinality(lost) \in Nat
  BY FS_CardinalityType DEF Network
<1>4. lost \in SUBSET Int /\ lost \in SUBSET Nat
  BY <1>1 DEF Fresh
<1> QED
  BY <1>1, <1>2, <1>3, <1>4 DEF Network, Sent, IsGap, NeverSent, Position, Number

\* Where everything from the position u on was not received, it was lost, but for the
\* packets on their way.
LEMMA Bound ==
  ASSUME Sizes, IInv, Network, Fresh, NEW u \in Int, NEW lo \in Int, NEW z \in Int,
         Sent(restart, z), z <= sent, First <= u,
         \A m \in First..(z - 1) :
           Sent(restart, m) /\ Position(restart, m) >= u => m \in Unread /\ lo <= m
  PROVE  Position(restart, z) - u <= Window + Count(lost, lo, z)
<1> DEFINE L == {k \in lost : lo <= k /\ k < z}
           v == Position(restart, z) - Window - 1
<1>1. /\ IsGap(restart) /\ sent \in Nat /\ First \in Nat /\ Window \in Nat
      /\ IsFiniteSet(lost) /\ lost \in SUBSET Int /\ Position(restart, z) \in Int
  BY PeerFacts, Positions, Small
<1>2. IsFiniteSet(L)
  <2>1. L \in SUBSET lost
    OBVIOUS
  <2> HIDE DEF L
  <2> QED
    BY <1>1, <2>1, FS_Subset
<1>3. ASSUME NEW q \in u..v PROVE Number(restart, q) \in L
  <2> DEFINE m == Number(restart, q)
  <2>1. q \in Int /\ u <= q /\ q < Position(restart, z) - Window
    BY <1>1
  <2>2. Sent(restart, m) /\ Position(restart, m) = q /\ First <= m /\ m \in Int
    <3>1. First <= q
      BY <1>1, <2>1
    <3> QED
      BY <1>1, <2>1, <3>1, Numbered, PeerFacts DEF Sent
  <2> HIDE DEF m
  <2>3. m < z
    <3>1. z <= m => Position(restart, z) <= Position(restart, m)
      BY <1>1, <2>2, Positions
    <3> QED
      BY <1>1, <2>1, <2>2, <3>1
  <2>4. Position(restart, z) - Position(restart, m) <= z - m
    BY <1>1, <2>2, <2>3, Positions
  <2>5. m < sent - Window
    BY <1>1, <2>1, <2>2, <2>4
  <2>6. m \in Unread /\ lo <= m
    BY <1>1, <2>1, <2>2, <2>3
  <2>7. <<m, "first">> \notin net
    <3>1. ASSUME <<m, "first">> \in net PROVE FALSE
      <4>1. sent - Window <= <<m, "first">>[1]
        BY <3>1 DEF Network
      <4> QED
        BY <1>1, <2>2, <2>5, <4>1
    <3> QED
      BY <3>1
  <2>8. ~ NeverSent(m)
    BY <2>2, PeerFacts
  <2>9. m \in lost
    BY <2>6, <2>7, <2>8 DEF Unread
  <2> QED
    BY <2>3, <2>6, <2>9 DEF m
<1>4. v - u + 1 <= Cardinality(L)
  <2>1. v \in Int
    BY <1>1
  <2> HIDE DEF v, L
  <2> QED
    BY <1>1, <1>2, <1>3, <2>1, Filled
<1>5. Count(lost, lo, z) = Cardinality(L) /\ Cardinality(L) \in Nat
  BY <1>2, FS_CardinalityType DEF Count
<1> QED
  BY <1>1, <1>4, <1>5

\* How long it is silent follows from where the origin is: what the buffer holds is
\* received, what it refused lies before the origin, and a frame that waits for the next
\* one has seen nothing arrive since.
Paced ==
  /\ silent \in Nat /\ silent <= Position(restart, sent) - First /\ refused \subseteq Nat
  /\ \A m \in Nat : Holds(buffer, m) => m \notin Unread
  /\ buffer.origin = None => refused = {} /\ silent = Position(restart, sent) - First
  /\ buffer.origin # None =>
       /\ \A m \in refused : m < Base(buffer)
       /\ silent <= Position(restart, sent) - Position(restart, Base(buffer))
                      + Slack(restart, lost, Base(buffer))
       /\ FrameEnds(buffer) # {} =>
            \A m \in First..(sent - 1) :
              Position(restart, m) >= Position(restart, sent) - silent => m \in Unread

\* The packet at the origin, and what follows it.
LEMMA OriginIs ==
  ASSUME Sizes, IInv, Network, Fresh, Ordered, Paced, buffer.origin # None
  PROVE  LET x == Base(buffer)
         IN  /\ x \in Nat /\ First <= x /\ x < sent /\ Sent(restart, x) /\ Position(restart, x) \in Int
             /\ Holds(buffer, x) /\ x \notin Unread
             /\ \A m \in Nat : Holds(buffer, m) => x <= m /\ m < x + Capacity
             /\ \A m \in x..(sent - 1) : Holds(buffer, m) \/ m \in Unread
<1> DEFINE x == Base(buffer)
<1>1. Aligned(buffer) /\ Fitting(buffer) /\ x \in Nat /\ Explained(buffer, Unread \cup refused, sent)
  BY DEF Ordered, IInv, Aligned
<1>2. buffer.origin % Capacity \in Slots
  <2>1. buffer.origin \in Int
    BY <1>1, HeldIs
  <2> QED
    BY <2>1, Constants, Division DEF Slots
<1>3. Holds(buffer, x) /\ x # None
  BY <1>1, <1>2, Small DEF Holds, Base
<1>4. x \in First..(sent - 1)
  BY <1>2, <1>3 DEF IInv, Genuine, Base
<1>5. sent \in Nat /\ First \in Nat /\ Capacity \in Nat /\ IsGap(restart)
  BY PeerFacts, Small
<1>6. x \notin Unread
  BY <1>1, <1>3 DEF Paced
<1>7. ~ NeverSent(x)
  BY <1>1, <1>6 DEF Unread
<1>8. ASSUME NEW m \in Nat, Holds(buffer, m) PROVE x <= m /\ m < x + Capacity
  <2>1. m - x \in 0..(Capacity - 1)
    BY <1>1, <1>8, HeldIs
  <2> QED
    BY <1>1, <1>5, <2>1
<1>9. ASSUME NEW m \in x..(sent - 1) PROVE Holds(buffer, m) \/ m \in Unread
  <2>1. m \in refused => m < x
    BY DEF Paced
  <2>2. ~ (m < x)
    BY <1>1, <1>5
  <2> QED
    BY <1>1, <2>1, <2>2 DEF Explained
<1> HIDE DEF x
<1>10. First <= x /\ x < sent /\ x \in Int
  BY <1>1, <1>4, <1>5
<1>11. Sent(restart, x) /\ Position(restart, x) \in Int
  <2>1. Sent(restart, x)
    BY <1>7, <1>10, PeerFacts
  <2> QED
    BY <1>5, <2>1, Positions
<1> QED
  BY <1>1, <1>3, <1>6, <1>8, <1>9, <1>10, <1>11 DEF x

\* Before z, the positions after the origin are a bufferful, what is on its way, and what
\* was lost beyond the bufferful.
LEMMA Reach ==
  ASSUME Sizes, IInv, Network, Fresh, Ordered, Paced, buffer.origin # None,
         NEW z \in Int, Sent(restart, z), Base(buffer) <= z, z <= sent
  PROVE  Position(restart, z) - Position(restart, Base(buffer))
           <= Capacity + Window + Count(lost, Base(buffer) + Capacity, z)
<1> DEFINE x == Base(buffer)
           u == Position(restart, x) + Capacity
           lo == x + Capacity
<1>1. /\ x \in Nat /\ First <= x /\ Sent(restart, x) /\ Position(restart, x) \in Int
      /\ \A m \in Nat : Holds(buffer, m) => m < x + Capacity
      /\ \A m \in x..(sent - 1) : Holds(buffer, m) \/ m \in Unread
  BY OriginIs
<1>2. /\ IsGap(restart) /\ sent \in Nat /\ First \in Nat /\ Capacity \in Nat \ {0} /\ Window \in Nat
      /\ First <= Position(restart, x)
  BY <1>1, PeerFacts, Small
<1> HIDE DEF x
<1>3. u \in Int /\ lo \in Int /\ First <= u
  BY <1>1, <1>2
<1>4. ASSUME NEW m \in First..(z - 1), Sent(restart, m), Position(restart, m) >= u
      PROVE  m \in Unread /\ lo <= m
  <2>1. m \in Int /\ m \in Nat /\ m < sent /\ Position(restart, m) \in Int
    BY <1>2, <1>4, Positions
  <2>2. m > x
    <3>1. m <= x => Position(restart, m) <= Position(restart, x)
      BY <1>1, <1>2, <1>4, <2>1, Positions
    <3> QED
      BY <1>1, <1>2, <1>4, <2>1, <3>1
  <2>3. Position(restart, m) - Position(restart, x) <= m - x
    BY <1>1, <1>2, <1>4, <2>1, <2>2, Positions
  <2>4. lo <= m
    BY <1>1, <1>2, <1>4, <2>1, <2>3
  <2>5. m \in x..(sent - 1) /\ ~ (m < x + Capacity)
    BY <1>1, <1>2, <2>1, <2>2, <2>4
  <2> QED
    BY <1>1, <2>1, <2>4, <2>5
<1>5. Position(restart, z) - u <= Window + Count(lost, lo, z)
  <2> HIDE DEF u, lo
  <2> QED
    BY <1>3, <1>4, Bound
<1>6. Count(lost, lo, z) \in Int
  <2>1. IsFiniteSet({k \in lost : lo <= k /\ k < z})
    <3>1. {k \in lost : lo <= k /\ k < z} \in SUBSET lost
      OBVIOUS
    <3> QED
      BY <3>1, PeerFacts, FS_Subset
  <2> QED
    BY <2>1, FS_CardinalityType DEF Count
<1>7. Position(restart, z) \in Int
  BY <1>2, Positions
<1> QED
  BY <1>1, <1>2, <1>5, <1>6, <1>7 DEF x

\* No packet of a restart that is heard is so far ahead that it looks late.
LEMMA InReach ==
  ASSUME Sizes, Ample, IInv, Network, Fresh, Heard, Ordered, Paced, buffer.origin # None
  PROVE  sent - Base(buffer) <= Modulus - MaxMisorder
<1> DEFINE x == Base(buffer)
           jump == restart.to - restart.from
           k == Count(lost, x + Capacity, sent)
<1>1. /\ x \in Nat /\ Sent(restart, x) /\ x < sent /\ Position(restart, x) \in Int
  BY OriginIs
<1>2. /\ IsGap(restart) /\ sent \in Nat /\ Sent(restart, sent) /\ IsFiniteSet(lost)
      /\ Cardinality(lost) <= MaxLost /\ Cardinality(lost) \in Nat
      /\ Capacity \in Nat /\ Window \in Nat /\ MaxLost \in Nat /\ MaxMisorder \in Nat
      /\ Modulus \in Nat /\ restart.to <= sent
  BY PeerFacts, Small DEF Network
<1>3. k \in Nat /\ k <= MaxLost
  <2> DEFINE L == {m \in lost : x + Capacity <= m /\ m < sent}
  <2>1. L \in SUBSET lost /\ k = Cardinality(L)
    BY DEF Count
  <2> HIDE DEF L
  <2>2. Cardinality(L) \in Nat /\ Cardinality(L) <= Cardinality(lost)
    BY <1>2, <2>1, FS_Subset, FS_CardinalityType
  <2> QED
    BY <1>2, <2>1, <2>2
<1>4. Position(restart, sent) - Position(restart, x) <= Capacity + Window + k
  BY <1>1, <1>2, Reach
<1>5. jump \in Nat /\ jump + MaxMisorder + Capacity + MaxLost + Window <= Modulus
  <2>1. CASE restart.to = First /\ restart.from = First
    BY <2>1, <1>2, Small DEF Ample
  <2>2. CASE restart.to # First /\ jump \in Jumps
    <3>1. jump \in 1..(Modulus - 1)
      BY <2>2, JitterAssumption
    <3>2. (restart.from - restart.to) % Modulus >= MaxMisorder + Capacity + MaxLost + Window
      BY <2>2 DEF Heard
    <3>3. (restart.from - restart.to) % Modulus = Modulus - jump
      <4> DEFINE r == Modulus - jump
                 y == restart.from - restart.to
      <4>1. r \in 0..(Modulus - 1) /\ r \in Int /\ Modulus \in Nat \ {0}
        BY <3>1, Small
      <4>2. y = Modulus * (-1) + r
        BY <1>2, <4>1 DEF IsGap
      <4> HIDE DEF r, y
      <4>3. (Modulus * (-1) + r) % Modulus = r
        BY <4>1, Remainder
      <4> QED
        BY <4>2, <4>3 DEF r, y
    <3> QED
      BY <1>2, <3>1, <3>2, <3>3
  <2> QED
    BY <2>1, <2>2 DEF Network
<1>6. Position(restart, sent) = sent - jump /\ Position(restart, x) <= x
  BY <1>1, <1>2 DEF Position, IsGap
<1> HIDE DEF x, jump, k
<1>7. sent - x <= Modulus - MaxMisorder
  BY <1>1, <1>2, <1>3, <1>4, <1>5, <1>6
<1> QED
  BY <1>7 DEF x

\* What is missing behind the origin, and was sent too long ago to be on its way, was lost
\* or left out by the restart.
LEMMA Lacks ==
  ASSUME Sizes, IInv, Network, Fresh, Ordered, Paced, buffer.origin # None,
         NEW m \in Nat, Base(buffer) <= m, m < sent - Window, ~ Holds(buffer, m)
  PROVE  m \in lost \/ ~ Sent(restart, m)
<1>1. sent \in Nat /\ Window \in Nat /\ First \in Nat
  BY PeerFacts, Small
<1>2. Base(buffer) \in Nat /\ First <= Base(buffer)
  BY OriginIs
<1>3. m \in Base(buffer)..(sent - 1) /\ First <= m /\ m \in Int
  BY <1>1, <1>2
<1>4. m \in Unread
  BY <1>3, OriginIs
<1>5. <<m, "first">> \notin net
  <2>1. ASSUME <<m, "first">> \in net PROVE FALSE
    <3>1. sent - Window <= <<m, "first">>[1]
      BY <2>1 DEF Network
    <3> QED
      BY <1>1, <3>1
  <2> QED
    BY <2>1
<1>6. NeverSent(m) <=> ~ Sent(restart, m)
  BY <1>3, PeerFacts
<1> QED
  BY <1>4, <1>5, <1>6 DEF Unread

\* Multiples of c.
LEMMA Times ==
  ASSUME NEW c \in Nat \ {0}, NEW j \in Nat, NEW k \in Nat
  PROVE  /\ c * k \in Nat /\ c * k >= k
         /\ k >= 1 => c * k >= c
         /\ k >= 2 => c * k >= 2 * c + k - 2
         /\ c * (j + k) = c * j + c * k
<1>1. \A i \in Nat : c * i \in Nat
  OBVIOUS
<1>2. \A i \in Nat : (c - 1) * i \in Nat /\ (c - 1) * i = c * i - i
  <2>1. \A i \in Nat : (c - 1) * i = c * i - i
    OBVIOUS
  <2>2. c - 1 \in Nat
    OBVIOUS
  <2>3. \A b, i \in Nat : b * i \in Nat
    OBVIOUS
  <2>4. \A i \in Nat : (c - 1) * i \in Nat
    BY <2>2, <2>3
  <2> QED
    BY <2>1, <2>4
<1>3. c * k >= k
  <2>1. (c - 1) * k \in Nat /\ (c - 1) * k = c * k - k /\ c * k \in Nat
    BY <1>1, <1>2
  <2> QED
    BY <2>1
<1>4. k >= 1 => c * k >= c
  BY AtLeastOne
<1>5. ASSUME k >= 2 PROVE c * k >= 2 * c + k - 2
  <2>1. k - 2 \in Nat
    BY <1>5
  <2>2. (c - 1) * (k - 2) \in Nat /\ (c - 1) * (k - 2) = c * (k - 2) - (k - 2)
    BY <1>2, <2>1
  <2>3. c * (k - 2) = c * k - 2 * c
    OBVIOUS
  <2>4. c * k \in Nat
    BY <1>1
  <2> QED
    BY <2>2, <2>3, <2>4
<1>6. c * (j + k) = c * j + c * k
  OBVIOUS
<1> QED
  BY <1>1, <1>3, <1>4, <1>5, <1>6

\* Further on there is a capacity more for every loss, and one for the restart.
LEMMA SlackGrows ==
  ASSUME Sizes, IInv, Network, Fresh, NEW x \in Nat, NEW y \in Nat, x <= y, First <= x
  PROVE  /\ Slack(restart, lost, x) \in Nat /\ Slack(restart, lost, y) \in Nat
         /\ Count(lost, x, y) \in Nat /\ Capacity * Count(lost, x, y) \in Nat
         /\ Slack(restart, lost, y) >= Slack(restart, lost, x) + Capacity * Count(lost, x, y)
         /\ x < restart.from /\ restart.to <= y =>
              Slack(restart, lost, y) >= Slack(restart, lost, x) + Capacity * Count(lost, x, y)
                                           + Capacity + Window
<1> DEFINE i == Count(lost, 0, x)
           j == Count(lost, x, y)
           k == Count(lost, 0, y)
           px == IF restart.to # First /\ restart.to <= x THEN Capacity + Window ELSE 0
           py == IF restart.to # First /\ restart.to <= y THEN Capacity + Window ELSE 0
<1>1. /\ Capacity \in Nat \ {0} /\ Window \in Nat /\ First \in Nat /\ IsFiniteSet(lost)
      /\ lost \in SUBSET Int /\ IsGap(restart)
  BY PeerFacts, Small
<1>2. i \in Nat /\ j \in Nat /\ k = i + j
  <2>1. 0 \in Int /\ x \in Int /\ y \in Int /\ 0 <= x
    OBVIOUS
  <2> QED
    BY <1>1, <2>1, Counts
<1>3. px \in Nat /\ py \in Nat /\ px <= py
  BY <1>1 DEF IsGap
<1>4. x < restart.from /\ restart.to <= y => py = Capacity + Window /\ px = 0
  BY <1>1 DEF Network, IsGap
<1>5. Slack(restart, lost, x) = Window + Capacity * i + px /\ Slack(restart, lost, y) = Window + Capacity * k + py
  BY DEF Slack
<1> HIDE DEF i, j, k, px, py
<1>6. Capacity * k = Capacity * i + Capacity * j /\ Capacity * i \in Nat /\ Capacity * j \in Nat
  BY <1>1, <1>2, Times
<1> DEFINE ci == Capacity * i
           cj == Capacity * j
           ck == Capacity * k
<1>7. ck = ci + cj /\ ci \in Nat /\ cj \in Nat
  BY <1>6
<1>8. Slack(restart, lost, x) = Window + ci + px /\ Slack(restart, lost, y) = Window + ck + py
  BY <1>5
<1> HIDE DEF ci, cj, ck
<1>9. /\ Slack(restart, lost, x) \in Nat /\ Slack(restart, lost, y) \in Nat
      /\ Slack(restart, lost, y) >= Slack(restart, lost, x) + cj
      /\ x < restart.from /\ restart.to <= y =>
           Slack(restart, lost, y) >= Slack(restart, lost, x) + cj + Capacity + Window
  BY <1>1, <1>3, <1>4, <1>7, <1>8
<1> QED
  BY <1>2, <1>7, <1>9 DEF j, cj

\* A buffer that waits for a missing packet moves on by no more than a loss or the restart
\* has to pay for: the missing packet at least, and another one where smart_remove leaves
\* no packet at all.
LEMMA MovesOn ==
  ASSUME Sizes, Ample, IInv, Network, Fresh, Ordered, Paced, buffer.origin # None,
         FrameEnds(buffer) = {}, NEW n \in Nat, n < sent, Sent(restart, n),
         Base(buffer) <= n, n - Base(buffer) < Modulus,
         NEW y \in Nat, y = Base(With(n)), Sent(restart, y), Base(buffer) <= y
  PROVE  Position(restart, y) - Position(restart, Base(buffer)) + Slack(restart, lost, Base(buffer))
           <= Slack(restart, lost, y)
<1> DEFINE x == Base(buffer)
           stops == FrameStarts(buffer, n - x - Capacity + 1)
           k == Count(lost, x, y)
           ck == Capacity * k
           D == Position(restart, y) - Position(restart, x)
<1>1. /\ Aligned(buffer) /\ Fitting(buffer)
      /\ x \in Nat /\ First <= x /\ x < sent /\ Sent(restart, x) /\ Position(restart, x) \in Int
      /\ \A m \in Nat : Holds(buffer, m) => m < x + Capacity
  BY OriginIs DEF Ordered, IInv
<1>2. /\ IsGap(restart) /\ sent \in Nat /\ IsFiniteSet(lost) /\ lost \in SUBSET Int
      /\ Capacity \in Nat \ {0} /\ Window \in Nat \ {0} /\ FrameSize \in Nat \ {0} /\ Modulus \in Nat
      /\ FrameSize + Window < Capacity /\ 2 * (Capacity + Window) <= Modulus
  BY PeerFacts, Small DEF Ample
<1>3. Position(restart, y) \in Int /\ Position(restart, y) >= Position(restart, x) /\ D <= y - x
      /\ D \in Int
  BY <1>1, <1>2, Positions
<1>4. /\ Slack(restart, lost, x) \in Nat /\ Slack(restart, lost, y) \in Nat /\ k \in Nat /\ ck \in Nat
      /\ Slack(restart, lost, y) >= Slack(restart, lost, x) + ck
      /\ x < restart.from /\ restart.to <= y =>
           Slack(restart, lost, y) >= Slack(restart, lost, x) + ck + Capacity + Window
  BY <1>1, SlackGrows
<1>5. ck >= k /\ (k >= 1 => ck >= Capacity) /\ (k >= 2 => ck >= 2 * Capacity + k - 2)
  BY <1>2, <1>4, Times
<1> HIDE DEF ck
<1>6. CASE D <= ck \/ (x < restart.from /\ restart.to <= y /\ D <= ck + Capacity + Window)
  <2>1. D + Slack(restart, lost, x) <= Slack(restart, lost, y)
    <3> HIDE DEF D, k
    <3> QED
      BY <1>2, <1>3, <1>4, <1>6
  <2> QED
    BY <2>1
<1>7. CASE y = x
  <2>1. D <= ck
    BY <1>3, <1>4, <1>7
  <2> QED
    BY <1>6, <2>1
<1>8. ASSUME n >= x + Capacity
      PROVE  \E m \in Nat : /\ x < m /\ m <= x + FrameSize /\ ~ Holds(buffer, m)
                            /\ \A i \in x..(m - 1) : Holds(buffer, i)
                            /\ m \in lost \/ ~ Sent(restart, m)
  <2>1. PICK m \in Nat : /\ x < m /\ m <= x + FrameSize /\ ~ Holds(buffer, m)
                         /\ \A i \in x..(m - 1) : Holds(buffer, i)
    BY <1>1, <1>2, Breaks
  <2>2. x <= m /\ m < sent - Window
    BY <1>1, <1>2, <1>8, <2>1
  <2> QED
    BY <2>1, <2>2, Lacks
\* The packet m pays for the way to y.
<1>9. ASSUME NEW m \in Nat, x < m, m < y, m \in lost \/ ~ Sent(restart, m)
      PROVE  (m \in lost /\ k >= 1) \/ (x < restart.from /\ restart.to <= y)
  <2>1. CASE m \in lost
    <3>1. x \in Int /\ m \in Int /\ y \in Int /\ x <= m /\ m <= y
      BY <1>1, <1>9
    <3>2. k = Count(lost, x, m) + Count(lost, m, y) /\ Count(lost, x, m) \in Nat /\ Count(lost, m, y) >= 1
          /\ Count(lost, m, y) \in Nat
      BY ZenonT(60), <1>2, <1>9, <2>1, <3>1, Counts
    <3> HIDE DEF k
    <3> QED
      BY <2>1, <3>2
  <2>2. CASE ~ Sent(restart, m)
    BY <1>1, <1>2, <1>9, <2>2 DEF Sent, IsGap
  <2> QED
    BY <1>9, <2>1, <2>2
<1>10. ASSUME n >= x + Capacity, NEW i \in stops, y = x + i
       PROVE  D <= ck \/ (x < restart.from /\ restart.to <= y /\ D <= ck + Capacity + Window)
  <2>1. PICK m \in Nat : /\ x < m /\ m <= x + FrameSize /\ ~ Holds(buffer, m)
                         /\ \A j \in x..(m - 1) : Holds(buffer, j)
                         /\ m \in lost \/ ~ Sent(restart, m)
    BY <1>8, <1>10
  <2>2. i \in 1..(Capacity - 1) /\ Holds(buffer, y) /\ Held(buffer, i) = y
    <3>1. i \in Present(buffer) /\ i >= n - x - Capacity + 1
      BY <1>10 DEF FrameStarts
    <3>2. i \in 0..(Capacity - 1) /\ Held(buffer, i) = x + i
      BY <1>1, <3>1, PresentIs
    <3>3. buffer.origin \in Int /\ i \in Int
      BY <1>1, <1>2, <3>2, HeldIs
    <3>4. Holds(buffer, Held(buffer, i))
      BY <3>3, HeldHolds
    <3> QED
      BY <1>1, <1>2, <1>10, <3>1, <3>2, <3>4
  <2>3. m < y
    <3> SUFFICES ASSUME y <= m PROVE FALSE
      BY <1>1, <2>1
    <3>1. y < m
      <4>1. y # m
        BY <2>1, <2>2
      <4> QED
        BY <1>1, <2>1, <4>1
    <3>2. ASSUME NEW j \in 0..i PROVE Held(buffer, j) = x + j /\ Held(buffer, j) # None
      <4>1. x + j \in x..(m - 1) /\ x + j \in Nat /\ (x + j) - x = j
        BY <1>1, <1>10, <2>1, <2>2, <3>1
      <4>2. Holds(buffer, x + j)
        BY <2>1, <4>1
      <4>3. Held(buffer, (x + j) - x) = x + j
        BY <1>1, <4>1, <4>2, HeldIs
      <4>4. Held(buffer, j) = x + j /\ x + j # None
        BY <4>1, <4>3, Small
      <4> QED
        BY <4>4
    <3>3. i - 1 \in 0..i /\ i \in 0..i /\ i \in Slots \ {0}
      BY <1>2, <2>2 DEF Slots
    <3> DEFINE w == x + (i - 1)
    <3>4. w \in Nat /\ w < x + i /\ w \in x..(m - 1)
      BY <1>1, <1>10, <2>1, <2>2, <3>1
    <3>5. Holds(buffer, w) /\ Held(buffer, i - 1) = w
      BY <2>1, <3>2, <3>3, <3>4
    <3> HIDE DEF w
    <3>6. n - x - Capacity + 1 \in Int
      BY <1>1, <1>2
    <3>7. Timestamp(w) # Timestamp(x + i)
      BY <1>1, <3>4, <3>5, <3>6, StopsBetween
    <3>8. i \in FrameEnds(buffer)
      BY <1>10, <2>2, <3>2, <3>3, <3>5, <3>7 DEF FrameEnds
    <3> QED
      BY <3>8
  <2>4. D <= Capacity
    BY <1>1, <1>2, <1>3, <1>10, <2>2
  <2>5. (m \in lost /\ k >= 1) \/ (x < restart.from /\ restart.to <= y)
    BY <1>9, <2>1, <2>3
  <2> HIDE DEF D, k
  <2> QED
    BY <1>2, <1>3, <1>4, <1>5, <2>4, <2>5
<1>11. ASSUME n >= x + Capacity, y = n, stops = {} \/ 2 * (n - x) > Modulus
       PROVE  D <= ck \/ (x < restart.from /\ restart.to <= y /\ D <= ck + Capacity + Window)
  <2> DEFINE beyond == Count(lost, x + Capacity, y)
             within == Count(lost, x, x + Capacity)
  <2>1. D <= Capacity + Window + beyond
    <3>1. y \in Int /\ y <= sent
      BY <1>1, <1>2, <1>11
    <3> QED
      BY <3>1, Reach
  <2>2. beyond \in Nat /\ within \in Nat /\ k = within + beyond
    <3>1. x \in Int /\ x + Capacity \in Int /\ y \in Int /\ x <= x + Capacity /\ x + Capacity <= y
      BY <1>1, <1>2, <1>11
    <3> QED
      BY ZenonT(60), <1>2, <3>1, Counts
  <2>3. PICK m \in Nat : /\ x < m /\ m <= x + FrameSize /\ ~ Holds(buffer, m)
                         /\ m \in lost \/ ~ Sent(restart, m)
    BY <1>8, <1>11
  <2>4. m < y /\ m < x + Capacity
    BY <1>1, <1>2, <1>11, <2>3
  <2>5. CASE x < restart.from /\ restart.to <= y
    <3> HIDE DEF D, k, beyond, within
    <3> QED
      BY <1>2, <1>3, <1>4, <1>5, <2>1, <2>2, <2>5
  <2>6. CASE ~ (x < restart.from /\ restart.to <= y)
    <3>1. m \in lost
      BY <1>9, <2>3, <2>4, <2>6
    <3>2. within >= 1
      <4>1. x \in Int /\ m \in Int /\ x + Capacity \in Int /\ x <= m /\ m <= x + Capacity
        BY <1>1, <1>2, <2>3, <2>4
      <4>2. /\ within = Count(lost, x, m) + Count(lost, m, x + Capacity) /\ Count(lost, x, m) \in Nat
            /\ Count(lost, m, x + Capacity) \in Nat /\ Count(lost, m, x + Capacity) >= 1
        BY <1>2, <2>4, <3>1, <4>1, Counts
      <4> HIDE DEF within
      <4> QED
        BY <4>2
    <3>3. CASE beyond >= 1
      <4> HIDE DEF D, k, beyond, within
      <4>1. k >= 2 /\ k >= beyond + 1
        BY <2>2, <3>2, <3>3
      <4> QED
        BY <1>2, <1>3, <1>4, <1>5, <2>1, <2>2, <3>3, <4>1
    <3>4. CASE D <= Capacity
      <4> HIDE DEF D, k, beyond, within
      <4>1. k >= 1
        BY <2>2, <3>2
      <4> QED
        BY <1>2, <1>3, <1>4, <1>5, <3>4, <4>1
    <3>5. CASE beyond = 0 /\ D > Capacity
      <4> DEFINE e == n - x - Capacity
                 c == e + 1
                 p == x + e + FrameSize
                 q == p + 1
      <4>1. D = y - x
        BY <1>1, <1>2, <1>11, <2>6, Positions DEF Sent
      <4>2. D <= Capacity + Window
        <5> HIDE DEF D, beyond
        <5> QED
          BY <1>2, <1>3, <2>1, <3>5
      <4>3. e \in Nat \ {0} /\ stops = {} /\ c \in Nat \ {0} /\ c = n - x - Capacity + 1
        <5>1. n - x > Capacity /\ n - x <= Capacity + Window
          BY <1>11, <3>5, <4>1, <4>2
        <5>2. ~ (2 * (n - x) > Modulus)
          BY <1>1, <1>2, <5>1
        <5>3. stops = {}
          BY <1>11, <5>2
        <5> QED
          BY <1>1, <1>2, <5>1, <5>3
      <4>4. FrameStarts(buffer, c) = {}
        BY <4>3
      <4>5. ASSUME NEW s \in {p, q} PROVE s \in lost /\ s \in Nat /\ x < s /\ s < y
        <5>1. s \in Nat /\ x < s /\ s < y /\ x <= s /\ s < sent - Window /\ s - x >= c - 1 + FrameSize
          BY <1>1, <1>2, <1>11, <4>3
        <5> HIDE DEF stops, c, p, q, e
        <5>2. ~ Holds(buffer, s)
          <6> SUFFICES ASSUME Holds(buffer, s) PROVE FALSE
            OBVIOUS
          <6>1. s - x \in Present(buffer)
            BY <1>1, <5>1, PresentIs
          <6>2. FrameStarts(buffer, c) # {}
            BY <1>1, <4>3, <5>1, <6>1, StopsAt
          <6> QED
            BY <4>4, <6>2
        <5>3. s \in lost \/ ~ Sent(restart, s)
          BY <5>1, <5>2, Lacks
        <5>4. s \in lost
          BY <1>9, <2>6, <5>1, <5>3
        <5> QED
          BY <5>1, <5>4
      <4>6. p \in Nat /\ q \in Nat /\ x < p /\ p < q /\ q < y /\ p \in lost /\ q \in lost
        <5>1. p < q
          BY <1>1, <1>2, <4>3
        <5> HIDE DEF p, q
        <5> QED
          BY <4>5, <5>1
      <4> HIDE DEF p, q, e, c
      <4>7. k >= 2
        <5>1. x \in Int /\ p \in Int /\ q \in Int /\ y \in Int /\ x <= p /\ p < q /\ q < y
          BY <1>1, <4>6
        <5> HIDE DEF x
        <5>2. Count(lost, x, y) \in Nat /\ Count(lost, x, y) >= 2
          BY <1>2, <4>6, <5>1, Two
        <5> QED
          BY <5>2
      <4> HIDE DEF D, k
      <4> QED
        BY <1>2, <1>3, <1>4, <1>5, <4>2, <4>7
    <3>6. beyond >= 1 \/ D <= Capacity \/ (beyond = 0 /\ D > Capacity)
      <4> HIDE DEF D, beyond
      <4> QED
        BY <1>2, <1>3, <2>2
    <3> QED
      BY <3>3, <3>4, <3>5, <3>6
  <2> QED
    BY <2>5, <2>6
<1>12. \/ y = x
       \/ /\ n >= x + Capacity
          /\ \/ \E i \in stops : y = x + i
             \/ y = n /\ (stops = {} \/ 2 * (n - x) > Modulus)
  BY <1>1, Moves DEF With
<1> HIDE DEF D, stops, x, k
<1> QED
  BY <1>6, <1>7, <1>10, <1>11, <1>12

\* There is a delay and a packet for every loss in what may be silent.
LEMMA SlackLeast ==
  ASSUME Sizes, IInv, Network, Fresh, NEW x \in Nat
  PROVE  /\ Slack(restart, lost, x) \in Nat /\ Count(lost, 0, x) \in Nat
         /\ Slack(restart, lost, x) >= Window + Count(lost, 0, x)
<1> DEFINE i == Count(lost, 0, x)
           p == IF restart.to # First /\ restart.to <= x THEN Capacity + Window ELSE 0
           ci == Capacity * i
<1>1. Capacity \in Nat \ {0} /\ Window \in Nat /\ IsFiniteSet(lost) /\ lost \in SUBSET Int
  BY PeerFacts, Small
<1>2. i \in Nat
  <2>1. 0 \in Int /\ x \in Int /\ 0 <= x /\ x <= x
    OBVIOUS
  <2> QED
    BY <1>1, <2>1, Counts
<1>3. p \in Nat
  BY <1>1
<1>4. ci \in Nat /\ ci >= i
  <2> HIDE DEF i
  <2> QED
    BY <1>1, <1>2, Times
<1>5. Slack(restart, lost, x) = Window + ci + p
  BY DEF Slack
<1> HIDE DEF i, p, ci
<1>6. Slack(restart, lost, x) \in Nat /\ Slack(restart, lost, x) >= Window + i
  BY <1>1, <1>2, <1>3, <1>4, <1>5
<1> QED
  BY <1>2, <1>6 DEF i

\* What arrives is received; a copy of it was received before.
LEMMA Arrives ==
  ASSUME Sizes, IInv, Network, Fresh, NEW n \in Numbers, NEW copy \in {"first", "copy"}, Receive(n, copy)
  PROVE  /\ UNCHANGED <<sent, restart, lost>> /\ Fresh'
         /\ n \in Nat /\ First <= n /\ n < sent /\ Sent(restart, n)
         /\ Unread' \subseteq Unread /\ n \notin Unread' /\ Unread \subseteq Unread' \cup {n}
<1>1. /\ UNCHANGED <<sent, restart, lost>> /\ <<n, copy>> \in net
      /\ \/ net' = net \ {<<n, copy>>}
         \/ copy = "first" /\ net' = (net \ {<<n, copy>>}) \cup {<<n, "copy">>}
  BY DEF Receive
<1>2. n \in First..(sent - 1) /\ restart.to <= n
  BY DEF Numbers, Network, IInv, Genuine
<1>3. n \in Nat /\ First <= n /\ n < sent /\ Sent(restart, n) /\ n \in Int
  BY <1>2, Small DEF Sent, IInv
<1>4. \A m \in Int : <<m, "first">> \in net' => <<m, "first">> \in net
  BY <1>1
<1>5. Unread' \subseteq Unread
  BY <1>1, <1>4 DEF Unread, NeverSent
<1>6. \A m \in Int : m # n /\ <<m, "first">> \in net => <<m, "first">> \in net'
  BY <1>1
<1>7. Unread \subseteq Unread' \cup {n}
  BY <1>1, <1>6 DEF Unread, NeverSent
<1>8. n \notin Unread'
  <2>1. CASE copy = "first"
    <3>1. <<n, "first">> \notin net' /\ n \notin lost
      BY <1>1, <2>1 DEF Fresh
    <3>2. ~ NeverSent(n)
      BY <1>3, PeerFacts
    <3>3. ~ NeverSent(n)'
      BY <1>1, <3>2 DEF NeverSent
    <3> QED
      BY <1>1, <3>1, <3>3 DEF Unread
  <2>2. CASE copy = "copy"
    <3>1. <<n, copy>>[2] = "copy" /\ <<n, copy>>[1] = n
      BY <2>2
    <3>2. n \notin Unread
      BY <1>1, <3>1 DEF Fresh
    <3> QED
      BY <1>5, <3>2
  <2> QED
    BY <2>1, <2>2
<1>9. Fresh'
  <2>1. ASSUME NEW p \in net', p[2] = "copy" PROVE p[1] \notin Unread'
    <3>1. p \in net \/ p = <<n, "copy">>
      BY <1>1
    <3>2. CASE p \in net
      BY <1>5, <2>1, <3>2 DEF Fresh
    <3>3. CASE p = <<n, "copy">>
      BY <1>8, <3>3
    <3> QED
      BY <3>1, <3>2, <3>3
  <2>2. lost' \subseteq First..(sent' - 1)
    BY <1>1 DEF Fresh
  <2>3. \A m \in lost' : <<m, "first">> \notin net'
    <3>1. \A m \in lost : m \in Int
      BY PeerFacts
    <3> QED
      BY <1>1, <1>4, <3>1 DEF Fresh
  <2> QED
    BY <2>1, <2>2, <2>3 DEF Fresh
<1> QED
  BY <1>1, <1>3, <1>5, <1>7, <1>8, <1>9

\* Of what arrives, add refuses just what lies before the origin.
LEMMA RefusedBefore ==
  ASSUME Sizes, Ample, IInv, Network, Fresh, Heard, Recognised, Ordered, Paced,
         buffer.origin # None, NEW n \in Numbers
  PROVE  /\ n \in Nat /\ Base(buffer) \in Nat
         /\ TooLate(buffer, n) <=> n < Base(buffer)
         /\ n >= Base(buffer) => n - Base(buffer) < Modulus
<1>1. /\ n \in Nat /\ n < sent
      /\ n < Base(buffer) => TooLate(buffer, n)
      /\ n >= Base(buffer) =>
           /\ n - Base(buffer) < Modulus
           /\ TooLate(buffer, n) <=> n - Base(buffer) > Modulus - MaxMisorder
  BY RefusedWhen
<1>2. sent - Base(buffer) <= Modulus - MaxMisorder
  BY InReach
<1>3. /\ Base(buffer) \in Nat /\ sent \in Nat /\ Modulus \in Nat /\ MaxMisorder \in Nat
  BY OriginIs, PeerFacts, Small
<1> QED
  BY <1>1, <1>2, <1>3

\* The new origin can pay for the silence so far.
LEMMA AddPaces ==
  ASSUME Sizes, Ample, IInv, Network, Fresh, Heard, Recognised, Ordered, Paced,
         NEW n \in Numbers, NEW copy \in {"first", "copy"}, Receive(n, copy), ~TooLate(buffer, n),
         NEW c, c = With(n), NEW y, y = Base(c)
  PROVE  /\ Fitting(c) /\ Aligned(c)
         /\ y \in Nat /\ First <= y /\ y < sent /\ Sent(restart, y)
         /\ \A m \in Nat : Holds(c, m) => m = n \/ Holds(buffer, m)
         /\ \A m \in refused : m < y
         /\ silent <= Position(restart, sent) - Position(restart, y) + Slack(restart, lost, y)
<1>1. Fitting(c) /\ Aligned(c) /\ y \in Nat
  BY AddOrdered DEF Aligned
<1>2. n \in Nat /\ First <= n /\ n < sent /\ Sent(restart, n)
  BY Arrives
<1>3. /\ IsGap(restart) /\ sent \in Nat /\ First \in Nat /\ Sent(restart, sent)
      /\ Position(restart, sent) \in Int /\ Window \in Nat /\ silent \in Nat
  BY PeerFacts, Positions, Small DEF Paced
<1>4. Slack(restart, lost, y) \in Nat /\ Slack(restart, lost, y) >= Window + Count(lost, 0, y)
      /\ Count(lost, 0, y) \in Nat
  BY <1>1, SlackLeast
<1>5. CASE buffer.origin = None
  <2>1. c = Store([origin |-> SequenceNumber(n), packets |-> Empty], n)
    BY <1>5 DEF With, Room
  <2>2. y = n /\ \A m \in Nat : Holds(c, m) <=> m = n
    BY <1>2, <2>1, BeginAligned
  <2>3. 0..(sent - 1) \subseteq Unread /\ refused = {} /\ silent = Position(restart, sent) - First
    BY <1>5 DEF Ordered, Paced
  <2>4. Position(restart, n) - First <= Window + Count(lost, 0, n)
    <3>1. \A m \in First..(n - 1) : m \in Unread /\ 0 <= m
      BY <1>2, <1>3, <2>3
    <3>2. First \in Int /\ 0 \in Int /\ n \in Int /\ n <= sent /\ First <= First
      BY <1>2, <1>3
    <3> QED
      BY <1>2, <3>1, <3>2, Bound
  <2>5. Position(restart, n) \in Int
    BY <1>2, <1>3, Positions
  <2>6. silent <= Position(restart, sent) - Position(restart, y) + Slack(restart, lost, y)
    BY <1>3, <1>4, <2>2, <2>3, <2>4, <2>5
  <2> QED
    BY <1>1, <1>2, <2>2, <2>3, <2>6
<1>6. CASE buffer.origin # None
  <2> DEFINE x == Base(buffer)
  <2>1. /\ x \in Nat /\ First <= x /\ x < sent /\ Sent(restart, x) /\ Position(restart, x) \in Int
        /\ Aligned(buffer) /\ Fitting(buffer)
    BY <1>6, OriginIs DEF Ordered, IInv
  <2>2. x <= n /\ n - x < Modulus
    <3>1. ~ (n < x)
      BY <1>6, RefusedBefore
    <3>2. x <= n
      BY <1>2, <2>1, <3>1
    <3> QED
      BY <1>6, <3>2, RefusedBefore
  <2>3. Made(buffer, c, n)
    BY <1>2, <2>1, <2>2, AddMakes DEF With
  <2>4. /\ x <= y /\ y <= n /\ \A m \in Nat : Holds(c, m) => m = n \/ Holds(buffer, m)
    BY <2>3 DEF Made
  <2>5. \A m \in refused : m < y
    <3>1. \A m \in refused : m < x /\ m \in Int
      BY <1>6 DEF Paced
    <3> QED
      BY <1>1, <2>1, <2>4, <3>1
  <2>6. Holds(c, y) /\ (y = n \/ Holds(buffer, y))
    <3>1. c.origin \in Int
      BY <1>1, HeldIs
    <3>2. c.origin % Capacity \in Slots
      BY <3>1, Constants, Division DEF Slots
    <3>3. Holds(c, y)
      BY <3>2 DEF Holds, Base
    <3> QED
      BY <1>1, <2>4, <3>3
  <2>7. First <= y /\ y < sent /\ Sent(restart, y) /\ Position(restart, y) \in Int
    <3>1. First <= y /\ y < sent /\ y \in Int
      BY <1>1, <1>2, <1>3, <2>1, <2>4
    <3>2. CASE y = n
      BY <1>2, <1>3, <3>1, <3>2, Positions
    <3>3. CASE Holds(buffer, y)
      <4>1. y \notin Unread
        BY <1>1, <3>3 DEF Paced
      <4>2. ~ NeverSent(y)
        BY <3>1, <4>1 DEF Unread
      <4>3. Sent(restart, y)
        BY <3>1, <4>2, PeerFacts
      <4> QED
        BY <1>3, <3>1, <4>3, Positions
    <3> QED
      BY <2>6, <3>2, <3>3
  <2>8. silent <= Position(restart, sent) - Position(restart, y) + Slack(restart, lost, y)
    <3>1. CASE FrameEnds(buffer) = {}
      <4>1. silent <= Position(restart, sent) - Position(restart, x) + Slack(restart, lost, x)
        BY <1>6 DEF Paced
      <4>2. Position(restart, y) - Position(restart, x) + Slack(restart, lost, x)
              <= Slack(restart, lost, y)
        BY <1>1, <1>2, <1>6, <2>2, <2>4, <2>7, <3>1, MovesOn
      <4>3. Slack(restart, lost, x) \in Nat
        BY <2>1, SlackLeast
      <4> HIDE DEF x
      <4> QED
        BY <1>3, <1>4, <2>1, <2>7, <4>1, <4>2, <4>3
    <3>2. CASE FrameEnds(buffer) # {}
      <4> DEFINE u == Position(restart, sent) - silent
      <4>1. /\ \A m \in First..(sent - 1) : Position(restart, m) >= u => m \in Unread
            /\ First <= u /\ u \in Int
        <5>1. silent <= Position(restart, sent) - First
          BY DEF Paced
        <5>2. First <= u /\ u \in Int
          BY <1>3, <5>1
        <5> QED
          BY <1>6, <3>2, <5>2 DEF Paced
      <4>2. CASE y \notin Unread
        <5>1. y \in First..(sent - 1)
          BY <1>1, <1>3, <2>7
        <5>2. ~ (Position(restart, y) >= u)
          BY <4>1, <4>2, <5>1
        <5> QED
          BY <1>3, <1>4, <2>7, <5>2
      <4>3. CASE y \in Unread
        <5>1. y = n
          BY <1>1, <2>6, <4>3 DEF Paced
        <5>2. \A m \in First..(n - 1) : Position(restart, m) >= u => m \in Unread /\ 0 <= m
          BY <1>2, <1>3, <4>1
        <5>3. 0 \in Int /\ n \in Int /\ n <= sent
          BY <1>2, <1>3
        <5> HIDE DEF u
        <5>4. Position(restart, n) - u <= Window + Count(lost, 0, n)
          BY <1>2, <4>1, <5>2, <5>3, Bound
        <5> QED
          BY <1>3, <1>4, <2>7, <5>1, <5>4 DEF u
      <4> QED
        BY <4>2, <4>3
    <3> QED
      BY <3>1, <3>2
  <2> QED
    BY <1>1, <2>4, <2>5, <2>7, <2>8
<1> QED
  BY <1>5, <1>6

\* What is added keeps the pace,
LEMMA AddKeepsPace ==
  ASSUME Sizes, Ample, IInv, Network, Fresh, Heard, Recognised, Ordered, Paced,
         NEW n \in Numbers, NEW copy \in {"first", "copy"}, Receive(n, copy), ~TooLate(buffer, n)
  PROVE  Paced'
<1> DEFINE c == With(n)
           y == Base(c)
           end == Min(FrameEnds(c))
           d == Remove(c, end)
           P(m) == Position(restart, m)
<1>1. /\ Fitting(c) /\ Aligned(c) /\ y \in Nat /\ First <= y /\ y < sent /\ Sent(restart, y)
      /\ \A m \in Nat : Holds(c, m) => m = n \/ Holds(buffer, m)
      /\ \A m \in refused : m < y
      /\ silent <= P(sent) - P(y) + Slack(restart, lost, y)
  BY AddPaces
<1>2. /\ UNCHANGED <<sent, restart, lost>> /\ n \in Nat
      /\ Unread' \subseteq Unread /\ n \notin Unread'
  BY Arrives
<1>3. /\ refused' = refused /\ Add(n)
  BY DEF Receive
<1>4. /\ IsGap(restart) /\ sent \in Nat /\ First \in Nat /\ Sent(restart, sent) /\ P(sent) \in Int
      /\ silent \in Nat /\ silent <= P(sent) - First /\ refused \subseteq Nat
  BY PeerFacts, Positions, Small DEF Paced
<1>5. \A m \in Nat : Holds(c, m) => m \notin Unread'
  BY <1>1, <1>2 DEF Paced
<1>6. CASE Complete(c)
  <2>1. buffer' = d /\ silent' = 0
    BY <1>3, <1>6 DEF Add, With
  <2>2. end \in 1..(Capacity - 1) /\ \A j \in 0..end : Held(c, j) # None
    BY <1>6, FirstEnd DEF Complete
  <2> DEFINE z == y + end
  <2>3. end \in 0..(Capacity - 1) /\ end \in 0..end /\ z \in Nat /\ y < z
    BY <1>1, <2>2, Small
  <2> HIDE DEF end, c
  <2>4. /\ Aligned(d) /\ Base(d) = z
        /\ \A m \in Nat : Holds(d, m) <=> Holds(c, m) /\ m >= z
    BY <1>1, <2>2, <2>3, RemoveAligned
  <2>5. Holds(c, z)
    <3>1. Held(c, end) = z /\ c.origin \in Int
      BY <1>1, <2>2, <2>3, HeldIs
    <3>2. end \in Int
      BY <2>2
    <3> HIDE DEF z
    <3> QED
      BY <3>1, <3>2, HeldHolds
  <2> HIDE DEF d, y, z
  <2>6. z < sent /\ First <= z /\ z \in Int
    <3>1. z = n \/ Holds(buffer, z)
      BY <1>1, <2>3, <2>5
    <3>2. n < sent
      BY Arrives
    <3>3. ASSUME Holds(buffer, z) PROVE z < sent
      <4>1. z # None
        BY <2>3, Small
      <4>2. z \in First..(sent - 1)
        BY <3>3, <4>1 DEF Holds, IInv, Genuine
      <4> QED
        BY <1>4, <4>2
    <3> QED
      BY <1>1, <1>4, <2>3, <3>1, <3>2, <3>3
  <2>7. Sent(restart, z)
    <3>1. z \notin Unread'
      BY <1>5, <2>3, <2>5
    <3>2. ~ NeverSent(z)
      BY <1>2, <2>6, <3>1 DEF Unread, NeverSent
    <3> QED
      BY <2>6, <3>2, PeerFacts
  <2>8. 0 <= P(sent) - P(z) + Slack(restart, lost, z)
    <3>1. P(z) \in Int /\ P(z) <= P(sent)
      BY <1>4, <2>6, <2>7, Positions
    <3>2. Slack(restart, lost, z) \in Nat
      BY <2>3, SlackLeast
    <3> QED
      BY <1>4, <3>1, <3>2
  <2>9. ASSUME NEW m \in First..(sent - 1), P(m) >= P(sent) - 0 PROVE m \in Unread'
    <3>1. m \in Int /\ First <= m /\ m < sent
      BY <1>4
    <3>2. ~ Sent(restart, m)
      <4>1. Sent(restart, m) => P(m) < P(sent) /\ P(m) \in Int
        BY <1>4, <3>1, Positions
      <4> QED
        BY <1>4, <2>9, <4>1
    <3>3. NeverSent(m)
      BY <3>1, <3>2, PeerFacts
    <3> QED
      BY <1>2, <3>1, <3>3 DEF Unread, NeverSent
  <2>10. \A m \in refused : m < z
    BY <1>1, <1>4, <2>3
  <2>11. 0 <= P(sent) - First /\ d.origin # None /\ \A m \in Nat : Holds(d, m) => m \notin Unread'
    BY <1>4, <1>5, <2>4 DEF Aligned
  <2>12. /\ buffer'.origin # None /\ Base(buffer') = z
         /\ \A m \in Nat : Holds(buffer', m) => m \notin Unread'
    BY <2>1, <2>4, <2>11
  <2> QED
    BY <1>2, <1>3, <1>4, <2>1, <2>8, <2>9, <2>10, <2>11, <2>12 DEF Paced
<1>7. CASE ~Complete(c)
  <2>1. buffer' = c /\ silent' = silent
    BY <1>3, <1>7 DEF Add, With
  <2>2. FrameEnds(c) = {}
    <3> SUFFICES ASSUME FrameEnds(c) # {} PROVE FALSE
      OBVIOUS
    <3> DEFINE E == FrameEnds(c)
    <3>1. E \in SUBSET (0..(Capacity - 1))
      BY DEF FrameEnds, Slots
    <3>2. IsFiniteSet(0..(Capacity - 1))
      <4>1. 0 \in Int /\ Capacity - 1 \in Int
        BY Small
      <4> QED
        BY <4>1, FS_Interval
    <3>3. ~ (Cardinality(E) >= Prefetch)
      BY <1>7 DEF Complete
    <3> HIDE DEF E
    <3>4. IsFiniteSet(E) /\ Cardinality(E) \in Nat /\ (E = {} \/ Cardinality(E) # 0)
      BY <3>1, <3>2, FS_Subset, FS_CardinalityType, FS_EmptySet
    <3>5. E # {}
      BY DEF E
    <3>6. Prefetch \in Nat /\ Prefetch <= 1
      BY JitterAssumption DEF Ample
    <3> QED
      BY <3>3, <3>4, <3>5, <3>6
  <2>3. c.origin # None
    BY <1>1 DEF Aligned
  <2> HIDE DEF c
  <2>4. /\ buffer'.origin # None /\ Base(buffer') = y /\ FrameEnds(buffer') = {}
        /\ \A m \in Nat : Holds(buffer', m) => m \notin Unread'
    BY <1>5, <2>1, <2>2, <2>3
  <2> HIDE DEF y
  <2> QED
    BY <1>1, <1>2, <1>3, <1>4, <2>1, <2>4 DEF Paced
<1> QED
  BY <1>6, <1>7

\* so does what is refused,
LEMMA RefuseKeepsPace ==
  ASSUME Sizes, Ample, IInv, Network, Fresh, Heard, Recognised, Ordered, Paced,
         NEW n \in Numbers, NEW copy \in {"first", "copy"}, Receive(n, copy), TooLate(buffer, n)
  PROVE  Paced'
<1> DEFINE x == Base(buffer)
           u == Position(restart, sent) - silent
<1>1. /\ UNCHANGED <<buffer, sent, restart, lost, silent>>
      /\ refused' = IF copy = "first" THEN refused \cup {n} ELSE refused
  BY DEF Receive, Refuse
<1>2. buffer.origin # None
  BY DEF TooLate, Behind
<1>3. /\ n \in Nat /\ First <= n /\ n < sent /\ Sent(restart, n)
      /\ Unread' \subseteq Unread /\ Unread \subseteq Unread' \cup {n}
  BY Arrives
<1>4. n < x
  BY <1>2, RefusedBefore
<1>5. /\ x \in Nat /\ First <= x /\ x < sent /\ Sent(restart, x) /\ x \notin Unread
  BY <1>2, OriginIs
<1>6. /\ IsGap(restart) /\ sent \in Nat /\ First \in Nat /\ Sent(restart, sent)
      /\ Position(restart, sent) \in Int
  BY PeerFacts, Positions, Small
<1>7. /\ silent \in Nat /\ silent <= Position(restart, sent) - First /\ refused \subseteq Nat
      /\ \A m \in Nat : Holds(buffer, m) => m \notin Unread
      /\ \A m \in refused : m < x
      /\ silent <= Position(restart, sent) - Position(restart, x) + Slack(restart, lost, x)
      /\ FrameEnds(buffer) # {} =>
           \A m \in First..(sent - 1) : Position(restart, m) >= u => m \in Unread
  BY <1>2 DEF Paced
<1>8. ASSUME FrameEnds(buffer) # {}, NEW m \in First..(sent - 1), Position(restart, m) >= u
      PROVE  m \in Unread'
  <2>1. m \in Unread
    BY <1>7, <1>8
  <2>2. m # n
    <3>1. x \in First..(sent - 1)
      BY <1>5, <1>6
    <3>2. ~ (Position(restart, x) >= u)
      BY <1>5, <1>7, <1>8, <3>1
    <3>3. Position(restart, n) <= Position(restart, x)
          /\ Position(restart, n) \in Int /\ Position(restart, x) \in Int
      BY <1>3, <1>4, <1>5, <1>6, Positions
    <3>4. u \in Int
      BY <1>6, <1>7
    <3> HIDE DEF u
    <3>5. ~ (Position(restart, n) >= u)
      BY <3>2, <3>3, <3>4
    <3> QED
      BY <1>8, <3>5
  <2> QED
    BY <1>3, <2>1, <2>2
<1>9. \A m \in Nat : Holds(buffer, m) => m \notin Unread'
  BY <1>3, <1>7
<1>10. refused' \subseteq Nat /\ \A m \in refused' : m < x
  BY <1>1, <1>3, <1>4, <1>7
<1> QED
  BY <1>1, <1>2, <1>7, <1>8, <1>9, <1>10 DEF Paced

\* and so do the peer, losses and a restart.
LEMMA PeerKeepsPace ==
  ASSUME Sizes, IInv, Network, Fresh,
         Send \/ (\E n \in Numbers : Lose(n)) \/ (\E jump \in Jumps : Restart(jump))
  PROVE  Fresh' /\ (Ordered /\ Paced => Paced')
<1>1. /\ sent \in Nat /\ First \in Nat /\ First <= sent /\ IsGap(restart) /\ Sent(restart, sent)
      /\ restart.to <= sent /\ First <= restart.from /\ lost \subseteq Nat /\ IsFiniteSet(lost)
      /\ Capacity \in Nat \ {0} /\ Window \in Nat /\ lost \in SUBSET Int
  BY PeerFacts, Small DEF Network
<1>2. CASE Send
  <2>1. /\ UNCHANGED <<buffer, refused, restart, lost>> /\ sent' = sent + 1 /\ silent' = silent + 1
        /\ net' = net \cup {<<sent, "first">>}
    BY <1>2 DEF Send
  <2>2. \A p \in net : p[1] < sent /\ p[1] \in Int
    BY <1>1 DEF Network, IInv, Genuine
  <2>3. Unread \subseteq Unread' /\ sent \in Unread' /\ Unread' \subseteq Unread \cup {sent}
    BY <1>1, <2>1 DEF Unread, NeverSent
  <2>4. Fresh'
    <3>1. \A m \in lost : m < sent /\ First <= m /\ m \in Int
      BY <1>1 DEF Fresh
    <3>2. lost' \subseteq First..(sent' - 1)
      BY <1>1, <2>1, <3>1
    <3>3. \A m \in lost' : <<m, "first">> \notin net'
      <4>1. ASSUME NEW m \in lost PROVE <<m, "first">> \notin net /\ m # sent
        BY <1>1, <3>1 DEF Fresh
      <4> QED
        BY <2>1, <4>1
    <3>4. ASSUME NEW p \in net', p[2] = "copy" PROVE p[1] \notin Unread'
      <4>1. p # <<sent, "first">>
        BY <3>4
      <4>2. p \in net
        BY <2>1, <4>1
      <4>3. p[1] \notin Unread /\ p[1] # sent
        BY <1>1, <2>2, <3>4, <4>2 DEF Fresh
      <4> QED
        BY <2>3, <4>3
    <3> QED
      BY <3>2, <3>3, <3>4 DEF Fresh
  <2>5. ASSUME Ordered, Paced PROVE Paced'
    <3>1. /\ Position(restart, sent') = Position(restart, sent) + 1 /\ Position(restart, sent) \in Int
      BY <1>1, <2>1 DEF Position, IsGap
    <3>2. ASSUME NEW m \in Nat, Holds(buffer, m) PROVE m \notin Unread'
      <4>1. m \notin Unread
        BY <2>5, <3>2 DEF Paced
      <4>2. m # None
        BY Small
      <4>3. m \in First..(sent - 1)
        BY <3>2, <4>2 DEF Holds, IInv, Genuine
      <4>4. m # sent
        BY <1>1, <4>3
      <4> QED
        BY <2>3, <4>1, <4>4
    <3>3. silent \in Nat /\ silent <= Position(restart, sent) - First /\ refused \subseteq Nat
      BY <2>5 DEF Paced
    <3>4. silent' \in Nat /\ silent' <= Position(restart, sent') - First
      BY <1>1, <2>1, <3>1, <3>3
    <3>5. buffer.origin = None => refused = {} /\ silent' = Position(restart, sent') - First
      BY <1>1, <2>1, <2>5, <3>1 DEF Paced
    <3>6. ASSUME buffer.origin # None
          PROVE  LET x == Base(buffer)
                 IN  /\ \A m \in refused : m < x
                     /\ silent' <= Position(restart, sent') - Position(restart, x) + Slack(restart, lost, x)
                     /\ FrameEnds(buffer) # {} =>
                          \A m \in First..(sent' - 1) :
                            Position(restart, m) >= Position(restart, sent') - silent' => m \in Unread'
      <4> DEFINE x == Base(buffer)
      <4>1. x \in Nat /\ Position(restart, x) \in Int
        BY <2>5, <3>6, OriginIs
      <4>2. Slack(restart, lost, x) \in Nat
        BY <4>1, SlackLeast
      <4>3. /\ \A m \in refused : m < x
            /\ silent <= Position(restart, sent) - Position(restart, x) + Slack(restart, lost, x)
            /\ FrameEnds(buffer) # {} =>
                 \A m \in First..(sent - 1) :
                   Position(restart, m) >= Position(restart, sent) - silent => m \in Unread
        BY <2>5, <3>6 DEF Paced
      <4> HIDE DEF x
      <4>4. silent' <= Position(restart, sent') - Position(restart, x) + Slack(restart, lost, x)
        BY <2>1, <3>1, <3>3, <4>1, <4>2, <4>3
      <4>5. Position(restart, sent') - silent' = Position(restart, sent) - silent
        BY <2>1, <3>1, <3>3
      <4>6. ASSUME FrameEnds(buffer) # {}, NEW m \in First..(sent' - 1),
                   Position(restart, m) >= Position(restart, sent') - silent'
            PROVE  m \in Unread'
        <5>1. m = sent \/ m \in First..(sent - 1)
          BY <1>1, <2>1, <4>6
        <5>2. m \in First..(sent - 1) => m \in Unread
          BY <4>3, <4>5, <4>6
        <5> QED
          BY <2>3, <5>1, <5>2
      <4> QED
        BY <4>3, <4>4, <4>6 DEF x
    <3> QED
      BY <2>1, <3>2, <3>3, <3>4, <3>5, <3>6 DEF Paced
  <2> QED
    BY <2>4, <2>5
<1>3. ASSUME NEW n \in Numbers, Lose(n) PROVE Fresh' /\ (Ordered /\ Paced => Paced')
  <2>1. /\ UNCHANGED <<buffer, refused, restart, sent, silent>> /\ <<n, "first">> \in net
        /\ net' = net \ {<<n, "first">>} /\ lost' = lost \cup {n}
    BY <1>3 DEF Lose
  <2>2. n \in First..(sent - 1)
    BY DEF Numbers, IInv, Genuine
  <2>3. Unread' = Unread
    <3>1. n \in Int
      BY <2>2
    <3> QED
      BY <2>1, <3>1 DEF Unread, NeverSent
  <2>4. Fresh'
    BY <2>1, <2>2, <2>3 DEF Fresh
  <2>5. ASSUME Ordered, Paced PROVE Paced'
    <3>1. ASSUME buffer.origin # None
          PROVE  silent <= Position(restart, sent) - Position(restart, Base(buffer))
                             + Slack(restart, lost', Base(buffer))
      <4> DEFINE x == Base(buffer)
                 K == {m \in lost : 0 <= m /\ m < x}
                 M == {m \in lost' : 0 <= m /\ m < x}
                 k == Cardinality(K)
                 j == Cardinality(M)
                 p == IF restart.to # First /\ restart.to <= x THEN Capacity + Window ELSE 0
      <4>1. x \in Nat /\ Position(restart, x) \in Int /\ Position(restart, sent) \in Int
        BY <1>1, <2>5, <3>1, OriginIs, Positions
      <4>2. IsFiniteSet(lost')
        BY <1>1, <2>1, FS_AddElement
      <4>3. K \in SUBSET M /\ M \in SUBSET lost'
        BY <2>1
      <4> HIDE DEF K, M
      <4>4. k \in Nat /\ j \in Nat /\ k <= j
        BY <4>2, <4>3, FS_Subset, FS_CardinalityType
      <4>5. Slack(restart, lost, x) = Window + Capacity * k + p
            /\ Slack(restart, lost', x) = Window + Capacity * j + p
        BY DEF Slack, Count, K, M
      <4>6. p \in Nat
        BY <1>1
      <4> HIDE DEF k, j, p
      <4>7. Capacity * j >= Capacity * k /\ Capacity * j \in Nat /\ Capacity * k \in Nat
        <5> DEFINE i == j - k
        <5>1. i \in Nat /\ j = k + i
          BY <4>4
        <5> HIDE DEF i
        <5>2. Capacity * (k + i) = Capacity * k + Capacity * i /\ Capacity * i \in Nat
          BY <1>1, <4>4, <5>1, Times
        <5>3. Capacity * k \in Nat
          BY <1>1, <4>4, Times
        <5> QED
          BY <5>1, <5>2, <5>3
      <4>8. silent <= Position(restart, sent) - Position(restart, x) + Slack(restart, lost, x)
            /\ silent \in Nat
        BY <2>5, <3>1 DEF Paced
      <4> HIDE DEF x
      <4> DEFINE cj == Capacity * j
                 ck == Capacity * k
      <4>9. cj >= ck /\ cj \in Nat /\ ck \in Nat
        BY <4>7
      <4>10. /\ Slack(restart, lost, x) = Window + ck + p
             /\ Slack(restart, lost', x) = Window + cj + p
        BY <4>5
      <4> HIDE DEF cj, ck
      <4>11. silent <= Position(restart, sent) - Position(restart, x) + Slack(restart, lost', x)
        BY <1>1, <4>1, <4>6, <4>8, <4>9, <4>10
      <4> QED
        BY <4>11 DEF x
    <3> QED
      BY <2>1, <2>3, <2>5, <3>1 DEF Paced
  <2> QED
    BY <2>4, <2>5
<1>4. ASSUME NEW jump \in Jumps, Restart(jump) PROVE Fresh' /\ (Ordered /\ Paced => Paced')
  <2>1. /\ UNCHANGED <<buffer, refused, lost, silent>> /\ net = {} /\ net' = {} /\ sent' = sent + jump
        /\ restart'.from = sent /\ restart'.to = sent' /\ restart.to = First /\ sent > First
    BY <1>4 DEF Restart
  <2>2. jump \in Nat /\ restart.from = First
    BY <1>1, <2>1, Constants DEF Network
  <2>3. sent' \in Nat /\ sent <= sent'
    BY <1>1, <2>1, <2>2
  <2>4. /\ \A m \in Int : NeverSent(m) <=> m < First
        /\ \A m \in Int : NeverSent(m)' <=> m < First \/ (sent <= m /\ m < sent')
    BY <1>1, <2>1, <2>2 DEF NeverSent
  <2>5. /\ Unread \subseteq Unread'
        /\ \A m \in Int : m < sent /\ m \in Unread' => m \in Unread
        /\ \A m \in Int : sent <= m /\ m < sent' => m \in Unread'
    <3>1. /\ \A m \in Int : m \in Unread <=> NeverSent(m) \/ m \in lost
          /\ \A m \in Int : m \in Unread' <=> NeverSent(m)' \/ m \in lost
      BY <2>1 DEF Unread
    <3>2. Unread \subseteq Int
      BY DEF Unread
    <3>3. \A m \in Int : m \in Unread => m \in Unread'
      BY <2>4, <3>1
    <3>4. \A m \in Int : m < sent /\ NeverSent(m)' => NeverSent(m)
      BY <1>1, <2>4
    <3>5. \A m \in Int : m < sent /\ m \in Unread' => m \in Unread
      BY <3>1, <3>4
    <3>6. \A m \in Int : sent <= m /\ m < sent' => m \in Unread'
      BY <2>4, <3>1
    <3> QED
      BY <3>2, <3>3, <3>5, <3>6
  <2>6. Fresh'
    <3>1. \A m \in lost : First <= m /\ m < sent /\ m \in Int
      BY <1>1 DEF Fresh
    <3>2. lost' \subseteq First..(sent' - 1)
      BY <1>1, <2>1, <2>3, <3>1
    <3> QED
      BY <2>1, <3>2 DEF Fresh
  <2>7. ASSUME Ordered, Paced PROVE Paced'
    <3>1. /\ Position(restart, sent) = sent /\ Position(restart', sent') = sent
          /\ \A m \in Int : Position(restart, m) = m
          /\ \A m \in Int : m < sent => Position(restart', m) = m
      BY <1>1, <2>1, <2>2, <2>3 DEF Position
    <3>2. ASSUME NEW m \in Nat, Holds(buffer, m) PROVE m \notin Unread'
      <4>1. m \notin Unread
        BY <2>7, <3>2 DEF Paced
      <4>2. m # None
        BY Small
      <4>3. m \in First..(sent - 1)
        BY <3>2, <4>2 DEF Holds, IInv, Genuine
      <4> QED
        BY <1>1, <2>5, <4>1, <4>3
    <3>3. ASSUME buffer.origin # None
          PROVE  LET x == Base(buffer)
                 IN  /\ \A m \in refused : m < x
                     /\ silent <= Position(restart', sent') - Position(restart', x) + Slack(restart', lost, x)
                     /\ FrameEnds(buffer) # {} =>
                          \A m \in First..(sent' - 1) :
                            Position(restart', m) >= Position(restart', sent') - silent => m \in Unread'
      <4> DEFINE x == Base(buffer)
      <4>1. x \in Nat /\ x < sent /\ x \in Int
        BY <2>7, <3>3, OriginIs
      <4>2. /\ \A m \in refused : m < x
            /\ silent <= Position(restart, sent) - Position(restart, x) + Slack(restart, lost, x)
            /\ FrameEnds(buffer) # {} =>
                 \A m \in First..(sent - 1) :
                   Position(restart, m) >= Position(restart, sent) - silent => m \in Unread
        BY <2>7, <3>3 DEF Paced
      <4>3. ~ (restart'.to <= x)
        BY <2>1, <2>3, <4>1, <1>1
      <4>4. Slack(restart', lost, x) = Slack(restart, lost, x)
        BY <2>1, <4>3 DEF Slack
      <4>5. ASSUME FrameEnds(buffer) # {}, NEW m \in First..(sent' - 1),
                   Position(restart', m) >= Position(restart', sent') - silent
            PROVE  m \in Unread'
        <5>1. m \in Int /\ First <= m /\ m < sent'
          <6>1. First \in Int /\ sent' \in Int
            BY <1>1, <2>3
          <6> QED
            BY <6>1, Extends
        <5>2. CASE m < sent
          <6>1. m \in First..(sent - 1)
            BY <1>1, <5>1, <5>2
          <6>2. Position(restart, m) >= Position(restart, sent) - silent
            BY <3>1, <4>5, <5>1, <5>2
          <6> QED
            BY <2>5, <4>2, <4>5, <6>1, <6>2
        <5>3. CASE ~ (m < sent)
          BY <1>1, <2>5, <5>1, <5>3
        <5> QED
          BY <5>2, <5>3
      <4> HIDE DEF x
      <4>6. silent <= Position(restart', sent') - Position(restart', x) + Slack(restart', lost, x)
        BY <3>1, <4>1, <4>2, <4>4
      <4> QED
        BY <4>2, <4>5, <4>6 DEF x
    <3>4. /\ silent \in Nat /\ silent <= Position(restart', sent') - First /\ refused \subseteq Nat
          /\ buffer.origin = None => refused = {} /\ silent = Position(restart', sent') - First
      BY <2>7, <3>1 DEF Paced
    <3> QED
      BY <2>1, <3>2, <3>3, <3>4 DEF Paced
  <2> QED
    BY <2>6, <2>7
<1> QED
  BY <1>2, <1>3, <1>4

\* With that, it is never silent for longer than the bound.
LEMMA PacedIsHeard ==
  ASSUME Sizes, Ample, IInv, Network, Fresh, Ordered, Paced
  PROVE  NotSilent
<1> DEFINE P(m) == Position(restart, m)
           cM == Capacity * MaxLost
<1>1. /\ IsGap(restart) /\ sent \in Nat /\ First \in Nat /\ First <= sent /\ Sent(restart, sent)
      /\ P(sent) \in Int /\ IsFiniteSet(lost) /\ lost \in SUBSET Int
      /\ Cardinality(lost) <= MaxLost /\ Cardinality(lost) \in Nat
      /\ Capacity \in Nat \ {0} /\ Window \in Nat /\ MaxLost \in Nat /\ MaxMisorder \in Nat
      /\ FrameSize \in Nat /\ FrameSize + 3 * Window <= MaxMisorder
  BY PeerFacts, Positions, Small DEF Ample
<1>2. silent \in Nat /\ silent <= P(sent) - First
  BY DEF Paced
<1>3. cM \in Nat /\ cM >= MaxLost /\ (1 + MaxLost) * Capacity = Capacity + cM
  BY <1>1, Times
<1> HIDE DEF cM
<1>4. SUFFICES silent <= MaxMisorder + Capacity + cM
  BY <1>1, <1>3 DEF NotSilent
<1>5. ASSUME NEW a \in Int, NEW m \in Int, NEW z \in Int, a <= m, m <= z
      PROVE  /\ Count(lost, a, z) \in Nat /\ Count(lost, a, m) \in Nat /\ Count(lost, m, z) \in Nat
             /\ Count(lost, a, z) = Count(lost, a, m) + Count(lost, m, z)
             /\ Count(lost, a, z) <= MaxLost
             /\ m < z /\ m \in lost => Count(lost, m, z) >= 1
  <2>1. /\ Count(lost, a, z) \in Nat /\ Count(lost, a, m) \in Nat /\ Count(lost, m, z) \in Nat
        /\ Count(lost, a, z) = Count(lost, a, m) + Count(lost, m, z)
        /\ Count(lost, a, z) <= Cardinality(lost)
        /\ m < z /\ m \in lost => Count(lost, m, z) >= 1
    BY ZenonT(60), <1>1, <1>5, Counts
  <2> QED
    BY <1>1, <2>1
\* Nothing that could be received has arrived since the position u.
<1>6. ASSUME NEW u \in Int, First <= u, u = P(sent) - silent,
             \A m \in First..(sent - 1) : P(m) >= u => m \in Unread
      PROVE  silent <= MaxMisorder + Capacity + cM
  <2>1. \A m \in First..(sent - 1) : Sent(restart, m) /\ P(m) >= u => m \in Unread /\ 0 <= m
    BY <1>1, <1>6
  <2>2. 0 \in Int /\ sent \in Int /\ sent <= sent /\ 0 <= sent
    BY <1>1
  <2>3. P(sent) - u <= Window + Count(lost, 0, sent)
    BY <1>1, <1>6, <2>1, <2>2, Bound
  <2>4. Count(lost, 0, sent) \in Nat /\ Count(lost, 0, sent) <= MaxLost
    BY <1>5, <2>2
  <2> QED
    BY <1>1, <1>2, <1>3, <1>6, <2>3, <2>4
<1>7. CASE buffer.origin = None
  <2>1. 0..(sent - 1) \subseteq Unread /\ silent = P(sent) - First
    BY <1>7 DEF Ordered, Paced
  <2>2. First = P(sent) - silent /\ First \in Int /\ First <= First
    BY <1>1, <2>1
  <2>3. \A m \in First..(sent - 1) : P(m) >= First => m \in Unread
    BY <1>1, <2>1
  <2> HIDE DEF P
  <2> QED
    BY <1>6, <2>2, <2>3
<1>8. CASE buffer.origin # None /\ FrameEnds(buffer) # {}
  <2> DEFINE u == P(sent) - silent
  <2>1. \A m \in First..(sent - 1) : P(m) >= u => m \in Unread
    BY <1>8 DEF Paced
  <2>2. u \in Int /\ First <= u
    BY <1>1, <1>2
  <2> HIDE DEF P
  <2> QED
    BY <1>6, <2>1, <2>2
<1>9. CASE buffer.origin # None /\ FrameEnds(buffer) = {}
  <2> DEFINE x == Base(buffer)
             D == P(sent) - P(x)
             before == Count(lost, 0, x)
             within == Count(lost, x, x + Capacity)
             beyond == IF x + Capacity <= sent THEN Count(lost, x + Capacity, sent) ELSE 0
             p == IF restart.to # First /\ restart.to <= x THEN Capacity + Window ELSE 0
             cb == Capacity * before
  <2>1. /\ x \in Nat /\ x \in Int /\ First <= x /\ x < sent /\ Sent(restart, x) /\ P(x) \in Int
        /\ Aligned(buffer) /\ Fitting(buffer)
    BY <1>9, OriginIs DEF Ordered, IInv
  <2>2. silent <= P(sent) - P(x) + Slack(restart, lost, x)
    BY <1>9 DEF Paced
  <2>3. Slack(restart, lost, x) = Window + cb + p /\ p \in Nat /\ p <= Capacity + Window
    <3>1. p \in Nat /\ p <= Capacity + Window
      BY <1>1
    <3> QED
      BY <3>1 DEF Slack
  <2>4. D <= sent - x /\ D \in Int
    BY <1>1, <2>1, Positions
  <2>5. D <= Capacity + Window + beyond
    <3>1. CASE x + Capacity <= sent
      <4>1. D <= Capacity + Window + Count(lost, x + Capacity, sent)
        BY <1>1, <1>9, <2>1, Reach
      <4> QED
        BY <3>1, <4>1
    <3>2. CASE ~ (x + Capacity <= sent)
      <4>1. beyond = 0
        BY <3>2
      <4> HIDE DEF D, beyond
      <4> QED
        BY <1>1, <2>1, <2>4, <3>2, <4>1
    <3> QED
      BY <3>1, <3>2
  <2>6. before \in Nat /\ within \in Nat /\ beyond \in Nat /\ before + within + beyond <= MaxLost
    <3> HIDE DEF x
    <3>1. 0 \in Int /\ x + Capacity \in Int /\ 0 <= x /\ x <= x + Capacity /\ 0 <= x + Capacity
      BY <1>1, <2>1
    <3>2. /\ before \in Nat /\ within \in Nat /\ Count(lost, 0, x + Capacity) = before + within
          /\ Count(lost, 0, x + Capacity) <= MaxLost
      BY <1>5, <2>1, <3>1
    <3>3. CASE x + Capacity <= sent
      <4>1. sent \in Int
        BY <1>1
      <4>2. /\ Count(lost, 0, sent) = Count(lost, 0, x + Capacity) + Count(lost, x + Capacity, sent)
            /\ Count(lost, x + Capacity, sent) \in Nat /\ Count(lost, 0, sent) <= MaxLost
        BY <1>5, <3>1, <3>3, <4>1
      <4>3. beyond = Count(lost, x + Capacity, sent)
        BY <3>3
      <4> HIDE DEF before, within, beyond
      <4> QED
        BY <3>2, <4>2, <4>3
    <3>4. CASE ~ (x + Capacity <= sent)
      <4>1. beyond = 0
        BY <3>4
      <4> HIDE DEF before, within, beyond
      <4> QED
        BY <3>2, <4>1
    <3> QED
      BY <3>3, <3>4
  <2> HIDE DEF before, beyond
  <2>7. cb \in Nat /\ cb + beyond <= cM
    <3> DEFINE r == MaxLost - before
    <3>1. r \in Nat /\ MaxLost = before + r /\ beyond <= r
      <4> HIDE DEF within
      <4> QED
        BY <1>1, <2>6
    <3> HIDE DEF r
    <3>2. /\ Capacity * (before + r) = Capacity * before + Capacity * r
          /\ Capacity * r \in Nat /\ Capacity * r >= r /\ Capacity * before \in Nat
      BY <1>1, <2>6, <3>1, Times
    <3>3. cM = cb + Capacity * r
      BY <3>1, <3>2 DEF cM
    <3> DEFINE cr == Capacity * r
    <3>4. cr \in Nat /\ cr >= r /\ cb \in Nat /\ cM = cb + cr
      BY <3>2, <3>3
    <3> HIDE DEF cr, cb
    <3> QED
      BY <2>6, <3>1, <3>4
  <2>8. within >= 1 => cb + Capacity + beyond <= cM
    <3> SUFFICES ASSUME within >= 1 PROVE cb + Capacity + beyond <= cM
      OBVIOUS
    <3> DEFINE r == MaxLost - before - 1
    <3>1. r \in Nat /\ MaxLost = before + (1 + r) /\ beyond <= r
      <4> HIDE DEF within
      <4> QED
        BY <1>1, <2>6
    <3> HIDE DEF r
    <3>2. /\ Capacity * (before + (1 + r)) = Capacity * before + Capacity * (1 + r)
          /\ Capacity * (1 + r) = Capacity * 1 + Capacity * r
          /\ Capacity * r \in Nat /\ Capacity * r >= r /\ Capacity * before \in Nat
      <4>1. 1 + r \in Nat /\ 1 \in Nat
        BY <3>1
      <4>2. Capacity * (before + (1 + r)) = Capacity * before + Capacity * (1 + r)
        BY <1>1, <2>6, <4>1, Times
      <4> QED
        BY <1>1, <2>6, <3>1, <4>1, <4>2, Times
    <3> DEFINE cr == Capacity * r
    <3>3. cr \in Nat /\ cr >= r /\ cb \in Nat /\ cM = cb + Capacity + cr
      <4>1. Capacity * 1 = Capacity
        BY <1>1
      <4> QED
        BY <1>1, <3>1, <3>2, <4>1 DEF cM
    <3> HIDE DEF cr, cb
    <3> QED
      BY <1>1, <2>6, <3>1, <3>3
  <2>9. PICK m \in Nat : x < m /\ m <= x + FrameSize /\ ~ Holds(buffer, m)
    <3>1. FrameSize < Capacity
      BY <1>1 DEF Ample
    <3> QED
      BY <1>9, <2>1, <3>1, Breaks
  <2>10. silent <= D + Window + cb + p
    <3> DEFINE s == Slack(restart, lost, x)
    <3>1. silent <= D + s /\ s = Window + cb + p
      BY <2>2, <2>3
    <3> HIDE DEF D, p, cb, s
    <3> QED
      BY <1>1, <1>2, <2>3, <2>4, <2>7, <3>1
  <2>11. CASE ~ (m < sent - Window)
    <3>1. D <= FrameSize + Window
      <4> HIDE DEF D
      <4> QED
        BY <1>1, <2>1, <2>4, <2>9, <2>11
    <3> HIDE DEF D, p, cb
    <3> QED
      BY <1>1, <1>2, <1>3, <2>3, <2>4, <2>6, <2>7, <2>10, <2>11, <3>1
  <2>12. CASE m < sent - Window /\ m \in lost
    <3>1. within >= 1
      <4> HIDE DEF x
      <4>1. m \in Int /\ x + Capacity \in Int /\ x <= m /\ m <= x + Capacity /\ m < x + Capacity
        BY <1>1, <2>1, <2>9 DEF Ample
      <4>2. /\ within = Count(lost, x, m) + Count(lost, m, x + Capacity) /\ Count(lost, x, m) \in Nat
            /\ Count(lost, m, x + Capacity) \in Nat /\ Count(lost, m, x + Capacity) >= 1
        BY <1>5, <2>1, <2>12, <4>1
      <4> HIDE DEF within
      <4> QED
        BY <4>2
    <3> HIDE DEF D, p, cb
    <3> QED
      BY <1>1, <1>2, <1>3, <2>3, <2>4, <2>5, <2>6, <2>7, <2>8, <2>10, <3>1
  <2>13. CASE m < sent - Window /\ m \notin lost
    <3>1. ~ Sent(restart, m)
      <4>1. Base(buffer) <= m
        BY <2>1, <2>9
      <4> QED
        BY <1>9, <2>9, <2>13, <4>1, Lacks
    <3>2. p = 0
      BY <1>1, <2>1, <2>9, <3>1 DEF Sent, IsGap
    <3> HIDE DEF D, p, cb
    <3> QED
      BY <1>1, <1>2, <1>3, <2>4, <2>5, <2>6, <2>7, <2>10, <3>2
  <2> QED
    BY <2>11, <2>12, <2>13
<1> QED
  BY <1>7, <1>8, <1>9

\* The inductive invariant of the silence.
VoiceInv == OrderInv /\ Fresh /\ (Heard => Paced)

\* A restart that is heard is recognised.
LEMMA HeardIsRecognised ==
  ASSUME Sizes, Network, Heard
  PROVE  Recognised
<1> DEFINE a == restart.from - restart.to
           d == a % Modulus
<1>1. a \in Int /\ Modulus \in Nat \ {0} /\ Window \in Nat
      /\ MaxMisorder \in Nat /\ Capacity \in Nat /\ MaxLost \in Nat
  BY Small DEF Network
<1>2. d \in Int
  <2> HIDE DEF a
  <2>1. a % Modulus \in 0..(Modulus - 1)
    BY <1>1, Division
  <2> QED
    BY <1>1, <2>1
<1>3. restart.to = First \/ d >= MaxMisorder + Capacity + MaxLost + Window
  BY DEF Heard
<1> HIDE DEF d
<1>4. restart.to = First \/ d >= MaxMisorder + Capacity + MaxLost
  BY <1>1, <1>2, <1>3
<1> QED
  BY <1>4 DEF Recognised, d

\* It holds at first,
LEMMA VoiceInit == ASSUME Sizes PROVE Init => VoiceInv
<1> SUFFICES ASSUME Init PROVE VoiceInv
  OBVIOUS
<1>1. First \in Nat /\ \A m \in Nat : m # None
  BY Small
<1>2. Fresh
  BY DEF Init, Fresh
<1>3. ASSUME NEW m \in Nat PROVE ~ Holds(buffer, m)
  BY <1>1 DEF Init, Empty, Holds
<1>4. Position(restart, sent) = First
  BY <1>1 DEF Init, Position
<1>5. Paced
  BY <1>1, <1>3, <1>4 DEF Init, Paced
<1> QED
  BY <1>2, <1>5, OrderInit DEF VoiceInv

\* and every step keeps it.
LEMMA VoiceStep ==
  ASSUME Sizes, Ample, VoiceInv, [Next]_vars
  PROVE  VoiceInv'
<1>1. OrderInv'
  BY OrderStep DEF VoiceInv
<1>2. /\ IInv /\ Network /\ Fresh
      /\ Heard => Recognised /\ Ordered /\ Paced
  BY HeardIsRecognised DEF VoiceInv, OrderInv
<1>3. Heard' => Heard
  BY DEF Next, Send, Lose, Receive, Restart, vars, Heard
<1>4. CASE UNCHANGED vars
  <2>1. Fresh'
    BY <1>2, <1>4 DEF vars, Fresh, Unread, NeverSent
  <2>2. Paced => Paced'
    BY <1>4 DEF vars, Paced, Unread, NeverSent
  <2> QED
    BY <1>1, <1>2, <1>3, <2>1, <2>2 DEF VoiceInv
<1>5. CASE Send \/ (\E n \in Numbers : Lose(n)) \/ (\E jump \in Jumps : Restart(jump))
  <2>1. Fresh' /\ (Ordered /\ Paced => Paced')
    BY <1>2, <1>5, PeerKeepsPace
  <2> QED
    BY <1>1, <1>2, <1>3, <2>1 DEF VoiceInv
<1>6. ASSUME NEW n \in Numbers, NEW copy \in {"first", "copy"}, Receive(n, copy)
      PROVE  VoiceInv'
  <2>1. Fresh'
    BY <1>2, <1>6, Arrives
  <2>2. ASSUME Heard PROVE Paced'
    <3>1. CASE TooLate(buffer, n)
      BY <1>2, <1>6, <2>2, <3>1, RefuseKeepsPace
    <3>2. CASE ~TooLate(buffer, n)
      BY <1>2, <1>6, <2>2, <3>2, AddKeepsPace
    <3> QED
      BY <3>1, <3>2
  <2> QED
    BY <1>1, <1>3, <2>1, <2>2 DEF VoiceInv
<1> QED
  BY <1>4, <1>5, <1>6 DEF Next

\* The voice does not stay away longer than the losses and a restart explain, whatever is
\* late or doubled and across the wrap, unless the peer restarts shortly behind its old
\* numbers.
THEOREM VoiceReturns == ASSUME Sizes, Ample PROVE Spec => [](Heard => NotSilent)
<1>1. VoiceInv /\ [Next]_vars => VoiceInv'
  BY Sizes, Ample, VoiceStep
<1>2. Init => VoiceInv
  BY Sizes, VoiceInit
<1>3. VoiceInv => (Heard => NotSilent)
  BY Sizes, Ample, HeardIsRecognised, PacedIsHeard DEF VoiceInv, OrderInv
<1> QED
  BY <1>1, <1>2, <1>3, PTL DEF Spec
=============================================================================
