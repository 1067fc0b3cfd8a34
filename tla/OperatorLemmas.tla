----------------------------- MODULE OperatorLemmas -----------------------------
(***************************************************************************)
(* What the operators of the modules without variables do, whoever calls    *)
(* them.                                                                    *)
(*                                                                          *)
(* Arithmetic on wrapping sequence numbers, for every Modulus, and what the *)
(* operations of a SequenceBuffer preserve and do, for every capacity C and *)
(* set of values V.                                                         *)
(*                                                                          *)
(* What Connection and NetworkSimulator keep when all channels are          *)
(* unreliable ones: the messages in the queues and in the packets stay among *)
(* those that were sent, whatever set V they are from, and the simulator     *)
(* holds only packets that were given to it.  What generate_packet makes of  *)
(* the bits of a packet, whatever the channels are.                          *)
(***************************************************************************)
EXTENDS Connection, NetworkSimulator, TLAPS

-----------------------------------------------------------------------------
(* The remainder.                                                            *)

\* Quotient and remainder of an integer by a positive number.
LEMMA Euclid ==
  ASSUME NEW m \in Nat, m > 0, NEW x \in Int
  PROVE  /\ x \div m \in Int
         /\ x % m \in 0 .. m - 1
         /\ x = m * (x \div m) + (x % m)
OBVIOUS

\* A positive multiple of m is at least m.
LEMMA MultipleAbove ==
  ASSUME NEW m \in Nat, NEW q \in Int, q >= 1 PROVE q * m >= m
OBVIOUS

\* A negative multiple of m is at most -m.
LEMMA MultipleBelow ==
  ASSUME NEW m \in Nat, NEW q \in Int, q <= -1 PROVE q * m <= -m
OBVIOUS

\* A number has one remainder only.
LEMMA UniqueRemainder ==
  ASSUME NEW m \in Nat, m > 0,
         NEW q \in Int, NEW r \in 0 .. m - 1,
         NEW p \in Int, NEW t \in 0 .. m - 1,
         m * q + r = m * p + t
  PROVE  r = t
<1>1. (q - p) * m = t - r
  OBVIOUS
<1>2. ~(q - p >= 1)
  BY <1>1, MultipleAbove
<1>3. ~(q - p <= -1)
  BY <1>1, MultipleBelow
<1> QED
  BY <1>1, <1>2, <1>3

\* Adding a multiple of m does not change the remainder.
LEMMA ModShift ==
  ASSUME NEW m \in Nat, m > 0, NEW x \in Int, NEW k \in Int
  PROVE  (x + k * m) % m = x % m
<1> DEFINE y == x + k * m
<1>1. y \in Int
  OBVIOUS
<1>2. y \div m \in Int /\ y % m \in 0 .. m - 1 /\ y = m * (y \div m) + (y % m)
  BY <1>1, Euclid
<1>3. x \div m \in Int /\ x % m \in 0 .. m - 1 /\ x = m * (x \div m) + (x % m)
  BY Euclid
<1>4. y = m * (x \div m + k) + (x % m)
  BY <1>3
<1>5. x \div m + k \in Int
  BY <1>3
<1> HIDE DEF y
<1>6. y % m = x % m
  BY <1>2, <1>3, <1>4, <1>5, UniqueRemainder
<1> QED
  BY <1>6 DEF y

\* Adding m does not change the remainder by m.
LEMMA ModNext ==
  ASSUME NEW m \in Nat, m > 0, NEW x \in Int
  PROVE  (x + m) % m = x % m
<1> DEFINE k == 1
<1>1. k \in Int /\ k * m = m
  OBVIOUS
<1> HIDE DEF k
<1>2. (x + k * m) % m = x % m
  BY <1>1, ModShift
<1> QED
  BY <1>1, <1>2

\* Two numbers with the same remainder that are less than m apart are equal.
LEMMA ModGap ==
  ASSUME NEW m \in Nat, m > 0, NEW x \in Int, NEW y \in Int,
         x % m = y % m, x - y < m, y - x < m
  PROVE  x = y
<1>1. x \div m \in Int /\ x % m \in 0 .. m - 1 /\ x = m * (x \div m) + (x % m)
  BY Euclid
<1>2. y \div m \in Int /\ y % m \in 0 .. m - 1 /\ y = m * (y \div m) + (y % m)
  BY Euclid
<1> DEFINE q == x \div m - y \div m
<1>3. q \in Int /\ q * m = x - y
  BY <1>1, <1>2
<1> HIDE DEF q
<1>4. ~(q >= 1)
  BY <1>3, MultipleAbove
<1>5. ~(q <= -1)
  BY <1>3, MultipleBelow
<1>6. q = 0
  BY <1>3, <1>4, <1>5
<1> QED
  BY <1>3, <1>6

-----------------------------------------------------------------------------
(* Sequence numbers.                                                         *)

\* The modulus is twice Half.
LEMMA HalfOfModulus == Half \in Nat /\ Half >= 2 /\ Modulus = 2 * Half /\ Modulus \in Nat
BY ModulusAssumption DEF Half

\* The number after a sequence number, with the wrap to zero.
LEMMA NextNumber ==
  ASSUME NEW s \in SeqNum
  PROVE  /\ WrappingAdd(s, 1) \in SeqNum
         /\ WrappingAdd(s, 1) = IF s = Modulus - 1 THEN 0 ELSE s + 1
BY ModulusAssumption DEF SeqNum, WrappingAdd

\* How far s is behind h - 1, without the remainder.
LEMMA BehindCases ==
  ASSUME NEW h \in SeqNum, NEW s \in SeqNum
  PROVE  /\ Behind(h, s) \in SeqNum
         /\ Behind(h, s) = IF s < h THEN h - 1 - s ELSE h - 1 - s + Modulus
BY ModulusAssumption DEF SeqNum, Behind

\* How far e is behind s, when s is the most recent number.
LEMMA BehindNext ==
  ASSUME NEW s \in SeqNum, NEW e \in SeqNum
  PROVE  /\ Behind(WrappingAdd(s, 1), e) \in SeqNum
         /\ Behind(WrappingAdd(s, 1), e) = IF e <= s THEN s - e ELSE s - e + Modulus
<1> DEFINE h == WrappingAdd(s, 1)
<1>1. h \in SeqNum /\ h = IF s = Modulus - 1 THEN 0 ELSE s + 1
  BY NextNumber
<1> HIDE DEF h
<1>2. Behind(h, e) \in SeqNum
  BY <1>1, BehindCases
<1>3. Behind(h, e) = IF e < h THEN h - 1 - e ELSE h - 1 - e + Modulus
  BY <1>1, BehindCases
<1>4. Behind(h, e) = IF e <= s THEN s - e ELSE s - e + Modulus
  BY <1>1, <1>3, ModulusAssumption DEF SeqNum
<1> QED
  BY <1>2, <1>4 DEF h

\* wrapping_sub, without the remainder.
LEMMA SubtractCases ==
  ASSUME NEW s \in SeqNum, NEW n \in SeqNum
  PROVE  /\ WrappingSub(s, n) \in SeqNum
         /\ WrappingSub(s, n) = IF n <= s THEN s - n ELSE s - n + Modulus
BY ModulusAssumption DEF SeqNum, WrappingSub

-----------------------------------------------------------------------------
(* Sequence numbers that stand for numbers that do not wrap.                 *)

\* The sequence number of an integer, and the multiple of the modulus between
\* the two.
LEMMA Wrapped ==
  ASSUME NEW x \in Int
  PROVE  /\ x % Modulus \in SeqNum
         /\ x \in SeqNum => x % Modulus = x
         /\ \E k \in Int : x % Modulus = x + k * Modulus
<1>1. Modulus \in Nat /\ Modulus > 0
  BY ModulusAssumption
<1>2. /\ x \div Modulus \in Int /\ x % Modulus \in 0 .. Modulus - 1
      /\ x = Modulus * (x \div Modulus) + (x % Modulus)
  BY <1>1, Euclid
<1>3. x \in SeqNum => x % Modulus = x
  BY <1>1 DEF SeqNum
<1> DEFINE k == -(x \div Modulus)
<1>4. k \in Int /\ x % Modulus = x + k * Modulus
  BY <1>1, <1>2
<1> HIDE DEF k
<1> QED
  BY <1>2, <1>3, <1>4 DEF SeqNum

\* Wrapping before an addition or subtraction changes nothing after it.
LEMMA WrappedSum ==
  ASSUME NEW x \in Int, NEW y \in Int
  PROVE  /\ ((x % Modulus) + y) % Modulus = (x + y) % Modulus
         /\ (y - (x % Modulus)) % Modulus = (y - x) % Modulus
<1>1. Modulus \in Nat /\ Modulus > 0
  BY ModulusAssumption
<1>2. PICK k \in Int : x % Modulus = x + k * Modulus
  BY Wrapped
<1>3. (x % Modulus) + y = (x + y) + k * Modulus
  BY <1>1, <1>2
<1>4. y - (x % Modulus) = (y - x) + (-k) * Modulus
  <2>1. (-k) * Modulus = -(k * Modulus) /\ k * Modulus \in Int
    BY <1>1
  <2> QED
    BY <1>1, <1>2, <2>1
<1>5. ((x + y) + k * Modulus) % Modulus = (x + y) % Modulus
  BY <1>1, ModShift, x + y \in Int
<1>6. ((y - x) + (-k) * Modulus) % Modulus = (y - x) % Modulus
  BY <1>1, ModShift, y - x \in Int, -k \in Int
<1> QED
  BY <1>3, <1>4, <1>5, <1>6

\* Wrapping a number that is less than one round away.
LEMMA WrappedNear ==
  ASSUME NEW d \in Int
  PROVE  /\ 0 <= d /\ d < Modulus => d % Modulus = d
         /\ d < 0 /\ -Modulus <= d => d % Modulus = d + Modulus
<1>1. Modulus \in Nat /\ Modulus > 0
  BY ModulusAssumption
<1>2. 0 <= d /\ d < Modulus => d % Modulus = d
  BY <1>1, Wrapped DEF SeqNum
<1>3. d < 0 /\ -Modulus <= d => d % Modulus = d + Modulus
  <2> SUFFICES ASSUME d < 0, -Modulus <= d PROVE d % Modulus = d + Modulus
    OBVIOUS
  <2>1. (d + Modulus) % Modulus = d % Modulus
    BY <1>1, ModNext
  <2>2. d + Modulus \in SeqNum
    BY <1>1 DEF SeqNum
  <2>3. (d + Modulus) % Modulus = d + Modulus
    BY <2>2, Wrapped, <1>1, d + Modulus \in Int
  <2> QED
    BY <2>1, <2>3
<1> QED
  BY <1>2, <1>3

\* Differences of wrapped numbers are wrapped differences.
LEMMA WrappedDifference ==
  ASSUME NEW x \in Int, NEW y \in Int
  PROVE  ((x % Modulus) - (y % Modulus)) % Modulus = (x - y) % Modulus
<1> DEFINE a == x % Modulus
<1>1. a \in Int /\ y % Modulus \in Int
  BY Wrapped, ModulusAssumption DEF SeqNum
<1> HIDE DEF a
<1>2. (a - (y % Modulus)) % Modulus = (a - y) % Modulus
  BY <1>1, WrappedSum
<1>3. ((x % Modulus) + (-y)) % Modulus = (x + (-y)) % Modulus
  BY WrappedSum, -y \in Int
<1>4. a + (-y) = a - y /\ x + (-y) = x - y
  BY <1>1
<1>5. (a - y) % Modulus = (x - y) % Modulus
  BY <1>3, <1>4 DEF a
<1> QED
  BY <1>2, <1>5 DEF a

\* wrapping_add and wrapping_sub of a wrapped number.
LEMMA WrappedAdd ==
  ASSUME NEW x \in Int, NEW n \in Int
  PROVE  /\ WrappingAdd(x % Modulus, n) = (x + n) % Modulus
         /\ WrappingSub(x % Modulus, n) = (x - n) % Modulus
<1>1. ((x % Modulus) + (-n)) % Modulus = (x + (-n)) % Modulus
  BY WrappedSum, -n \in Int
<1>2. x % Modulus \in Int
  BY Wrapped, ModulusAssumption DEF SeqNum
<1>3. (x % Modulus) - n = (x % Modulus) + (-n) /\ x - n = x + (-n)
  BY <1>2
<1> QED
  BY <1>1, <1>3, WrappedSum DEF WrappingAdd, WrappingSub

\* Numbers less than Modulus apart are told apart.
LEMMA WrappedApart ==
  ASSUME NEW x \in Int, NEW y \in Int, x - y < Modulus, y - x < Modulus,
         x % Modulus = y % Modulus
  PROVE  x = y
BY ModGap, ModulusAssumption

\* The distance below a pointer.
LEMMA WrappedBehind ==
  ASSUME NEW h \in Int, NEW x \in Int
  PROVE  /\ Behind(h % Modulus, x % Modulus) = (h - 1 - x) % Modulus
         /\ 0 <= h - 1 - x /\ h - 1 - x < Modulus
               => Behind(h % Modulus, x % Modulus) = h - 1 - x
         /\ h - 1 - x < 0 /\ -Modulus <= h - 1 - x
               => Behind(h % Modulus, x % Modulus) = h - 1 - x + Modulus
<1>1. Modulus \in Nat /\ Modulus > 0
  BY ModulusAssumption
<1>2. Behind(h % Modulus, x % Modulus) = (h - 1 - x) % Modulus
  <2> DEFINE a == h % Modulus
             b == x % Modulus
  <2>1. a \in Int /\ b \in Int
    BY Wrapped, <1>1 DEF SeqNum
  <2>2. (a - b) % Modulus = (h - x) % Modulus
    BY WrappedDifference, Zenon
  <2> HIDE DEF a, b
  <2>3. (((a - b) % Modulus) + (-1)) % Modulus = ((a - b) + (-1)) % Modulus
    BY <2>1, WrappedSum, a - b \in Int
  <2>4. (((h - x) % Modulus) + (-1)) % Modulus = ((h - x) + (-1)) % Modulus
    BY WrappedSum, h - x \in Int
  <2>5. (a - b) + (-1) = a - 1 - b /\ (h - x) + (-1) = h - 1 - x
    BY <2>1
  <2>6. (a - 1 - b) % Modulus = (h - 1 - x) % Modulus
    BY <2>2, <2>3, <2>4, <2>5
  <2> QED
    BY <2>6 DEF Behind, a, b
<1> QED
  BY <1>2, WrappedNear, h - 1 - x \in Int

\* sequence_greater_than compares numbers that are less than Half apart.
LEMMA WrappedGreater ==
  ASSUME NEW x \in Int, NEW y \in Int
  PROVE  /\ 0 < x - y /\ x - y < Half
               => SequenceGreaterThan(x % Modulus, y % Modulus)
         /\ -Half < x - y /\ x - y <= 0
               => ~SequenceGreaterThan(x % Modulus, y % Modulus)
<1> DEFINE a == x % Modulus
           b == y % Modulus
<1>1. Modulus \in Nat /\ Half \in Nat /\ Half >= 2 /\ Modulus = 2 * Half
  BY HalfOfModulus
<1>2. a \in 0 .. Modulus - 1 /\ b \in 0 .. Modulus - 1
  BY Wrapped DEF SeqNum
<1>4. (a - b) % Modulus = (x - y) % Modulus
  BY WrappedDifference, Zenon
<1> HIDE DEF a, b
<1>5. /\ a >= b => (a - b) % Modulus = a - b
      /\ a < b => (a - b) % Modulus = a - b + Modulus
  <2>1. a - b \in Int /\ a - b < Modulus /\ -Modulus <= a - b
    BY <1>1, <1>2
  <2> QED
    BY <1>2, <2>1, WrappedNear
<1>6. 0 <= x - y /\ x - y < Half => (x - y) % Modulus = x - y
  BY <1>1, WrappedNear, x - y \in Int
<1>7. -Half < x - y /\ x - y < 0 => (x - y) % Modulus = x - y + Modulus
  BY <1>1, WrappedNear, x - y \in Int
<1>8. ASSUME 0 < x - y, x - y < Half PROVE SequenceGreaterThan(a, b)
  BY <1>1, <1>2, <1>4, <1>5, <1>6, <1>8 DEF SequenceGreaterThan
<1>9. ASSUME -Half < x - y, x - y <= 0 PROVE ~SequenceGreaterThan(a, b)
  BY <1>1, <1>2, <1>4, <1>5, <1>6, <1>7, <1>9 DEF SequenceGreaterThan
<1> QED
  BY <1>8, <1>9 DEF a, b

-----------------------------------------------------------------------------
(* Buffers.                                                                  *)

\* The only requirement SequenceBuffer::new asserts of its capacity.
ValidSize(C) == C \in 1 .. Modulus - 1

\* The requirement it leaves to its callers: no two numbers of one window share
\* a slot, across the wrap as well, and a window is at most half the numbers.
GoodSize(C) == C \in 2 .. Half /\ Modulus % C = 0

\* The buffers that hold nothing stale.
GoodBuffers(C, V) == {b \in BufferType(C, V) : InWindow(b)}

\* The fields of a buffer, and of each of its slots.
LEMMA BufferShape ==
  ASSUME NEW C, ValidSize(C), NEW V,
         NEW b \in BufferType(C, V)
  PROVE  /\ b.capacity = C
         /\ b.sequence \in SeqNum
         /\ b.slots \in [0 .. C - 1 -> [seq : SeqNum, val : V] \cup {Empty}]
         /\ \A i \in 0 .. C - 1 :
               \/ b.slots[i] = Empty /\ b.slots[i].seq = NoSeq
               \/ /\ b.slots[i] \in [seq : SeqNum, val : V]
                  /\ b.slots[i].seq \in SeqNum
                  /\ b.slots[i].val \in V
<1>1. /\ b.capacity = C
      /\ b.sequence \in SeqNum
      /\ b.slots \in [0 .. C - 1 -> [seq : SeqNum, val : V] \cup {Empty}]
  BY DEF BufferType
<1>2. ASSUME NEW i \in 0 .. C - 1, b.slots[i] # Empty
      PROVE  /\ b.slots[i] \in [seq : SeqNum, val : V]
             /\ b.slots[i].seq \in SeqNum
             /\ b.slots[i].val \in V
  <2>1. b.slots[i] \in [seq : SeqNum, val : V]
    BY <1>1, <1>2
  <2> QED
    BY <2>1
<1>3. Empty.seq = NoSeq
  BY DEF Empty
<1> QED
  BY <1>1, <1>2, <1>3

\* A valid capacity is positive and below the modulus; every sequence number
\* has a slot.
LEMMA CapacityRange ==
  ASSUME NEW C, ValidSize(C)
  PROVE  /\ C \in Nat /\ C >= 1 /\ C < Modulus
         /\ \A s \in SeqNum : s % C \in 0 .. C - 1
BY ModulusAssumption DEF SeqNum, ValidSize

-----------------------------------------------------------------------------
(* Type correctness.                                                         *)

\* remove_entries gives a buffer.
LEMMA RemoveEntriesType ==
  ASSUME NEW C, ValidSize(C), NEW V,
         NEW b \in BufferType(C, V), NEW start \in SeqNum, NEW end \in SeqNum
  PROVE  RemoveEntries(b, start, end) \in BufferType(C, V)
BY DEF BufferType, RemoveEntries, Empty

\* insert_with gives a buffer.
LEMMA InsertWithType ==
  ASSUME NEW C, ValidSize(C), NEW V,
         NEW b \in BufferType(C, V), NEW s \in SeqNum, NEW v \in V
  PROVE  InsertWith(b, s, v) \in BufferType(C, V)
<1> DEFINE cleared == [RemoveEntries(b, b.sequence, s)
                          EXCEPT !.sequence = WrappingAdd(s, 1)]
           room == IF Advances(b, s) THEN cleared ELSE b
<1>1. RemoveEntries(b, b.sequence, s) \in BufferType(C, V)
  BY BufferShape, RemoveEntriesType
<1>2. cleared \in BufferType(C, V)
  BY <1>1, NextNumber DEF BufferType
<1>3. room \in BufferType(C, V)
  BY <1>2
<1>4. InsertWith(b, s, v)
        = IF TooOld(b, s) THEN b
          ELSE [room EXCEPT !.slots[SequenceIndex(b, s)] = Slot(s, v)]
  BY DEF InsertWith
<1>5. SequenceIndex(b, s) \in 0 .. C - 1
  BY BufferShape, CapacityRange DEF SequenceIndex
<1>6. Slot(s, v) \in [seq : SeqNum, val : V]
  BY DEF Slot
<1> HIDE DEF room
<1>7. [room EXCEPT !.slots[SequenceIndex(b, s)] = Slot(s, v)] \in BufferType(C, V)
  BY <1>3, <1>5, <1>6 DEF BufferType
<1> QED
  BY <1>4, <1>7

\* take gives a buffer.
LEMMA TakeType ==
  ASSUME NEW C, ValidSize(C), NEW V,
         NEW b \in BufferType(C, V), NEW s \in SeqNum
  PROVE  Take(b, s) \in BufferType(C, V)
<1>1. SequenceIndex(b, s) \in 0 .. C - 1
  BY BufferShape, CapacityRange DEF SequenceIndex
<1>2. [b EXCEPT !.slots[SequenceIndex(b, s)] = Empty] \in BufferType(C, V)
  BY <1>1 DEF BufferType
<1> QED
  BY <1>2 DEF Take

\* new gives a buffer.
LEMMA NewBufferType ==
  ASSUME NEW C, ValidSize(C), NEW V
  PROVE  NewBuffer(C) \in BufferType(C, V)
BY ModulusAssumption DEF NewBuffer, BufferType, Empty, SeqNum

\* reset gives a buffer.
LEMMA ResetType ==
  ASSUME NEW C, ValidSize(C), NEW V,
         NEW b \in BufferType(C, V)
  PROVE  ResetBuffer(b) \in BufferType(C, V)
<1>1. b.slots \in [0 .. C - 1 -> [seq : SeqNum, val : V] \cup {Empty}]
  BY BufferShape
<1>2. [i \in DOMAIN b.slots |-> Empty]
          \in [0 .. C - 1 -> [seq : SeqNum, val : V] \cup {Empty}]
  BY <1>1
<1>3. 0 \in SeqNum
  BY ModulusAssumption DEF SeqNum
<1> HIDE DEF Empty
<1> QED
  BY <1>2, <1>3 DEF ResetBuffer, BufferType

-----------------------------------------------------------------------------
(* What an insert does to the slots.                                         *)

\* The last number remove_entries visits when s is inserted, and the slots it
\* clears, for the pointer h.
LastCleared(h, s) == IF s < h THEN s + (Modulus - 1) ELSE s

\* remove_entries from h to s empties slot i.
Cleared(C, h, s, i) == \/ LastCleared(h, s) - h >= C
                    \/ \E t \in h .. LastCleared(h, s) : t % C = i

\* Every field and slot of the buffer after an insert_with that is not too old.
LEMMA InsertFields ==
  ASSUME NEW C, ValidSize(C), NEW V,
         NEW b \in BufferType(C, V), NEW s \in SeqNum, NEW v \in V, ~TooOld(b, s)
  PROVE  /\ InsertWith(b, s, v).sequence
               = IF Advances(b, s) THEN WrappingAdd(s, 1) ELSE b.sequence
         /\ InsertWith(b, s, v).slots[s % C] = Slot(s, v)
         /\ \A i \in 0 .. C - 1 :
               i # s % C =>
                   InsertWith(b, s, v).slots[i]
                     = IF Advances(b, s) /\ Cleared(C, b.sequence, s, i)
                       THEN Empty ELSE b.slots[i]
<1> DEFINE kept == [i \in 0 .. C - 1 |->
                      IF Cleared(C, b.sequence, s, i) THEN Empty ELSE b.slots[i]]
           removed == RemoveEntries(b, b.sequence, s)
           room == IF Advances(b, s)
                   THEN [removed EXCEPT !.sequence = WrappingAdd(s, 1)]
                   ELSE b
<1>1. removed \in BufferType(C, V) /\ removed.slots = kept
  <2>1. removed \in BufferType(C, V)
    BY BufferShape, RemoveEntriesType
  <2>2. DOMAIN b.slots = 0 .. C - 1 /\ b.capacity = C
    BY BufferShape
  <2> HIDE DEF Empty
  <2>3. removed = [b EXCEPT !.slots = kept]
    BY <2>2 DEF RemoveEntries, Cleared, LastCleared
  <2> HIDE DEF removed, kept
  <2>4. removed.slots = kept
    BY <2>3 DEF BufferType
  <2> QED
    BY <2>1, <2>4
<1>2. /\ room \in BufferType(C, V)
      /\ room.sequence = IF Advances(b, s) THEN WrappingAdd(s, 1) ELSE b.sequence
      /\ room.slots = IF Advances(b, s) THEN kept ELSE b.slots
  <2> HIDE DEF removed, kept
  <2> QED
    BY <1>1, NextNumber DEF BufferType
<1>3. InsertWith(b, s, v) = [room EXCEPT !.slots[s % C] = Slot(s, v)]
  BY BufferShape DEF InsertWith, SequenceIndex
<1>4. s % C \in 0 .. C - 1
  BY CapacityRange
<1> HIDE DEF room
<1>5. /\ InsertWith(b, s, v).sequence = room.sequence
      /\ InsertWith(b, s, v).slots = [room.slots EXCEPT ![s % C] = Slot(s, v)]
  BY <1>2, <1>3 DEF BufferType
<1>6. DOMAIN room.slots = 0 .. C - 1
  BY <1>2, BufferShape
<1>7. InsertWith(b, s, v).slots[s % C] = Slot(s, v)
  BY <1>4, <1>5, <1>6
<1>8. ASSUME NEW i \in 0 .. C - 1, i # s % C
      PROVE  InsertWith(b, s, v).slots[i] = room.slots[i]
  BY <1>5, <1>6, <1>8
<1> HIDE DEF Empty, Cleared, TooOld, Advances
<1> QED
  BY <1>2, <1>5, <1>7, <1>8

-----------------------------------------------------------------------------
(* The window.  An entry with number e just below the pointer h is followed  *)
(* from its unwrapped number u, the member of h - C .. h - 1 that is  *)
(* e or e - Modulus.                                                          *)

\* The modulus is a multiple of a good capacity, so numbers keep their slots
\* when they wrap.
LEMMA CapacityDivides ==
  ASSUME NEW C, ValidSize(C),
         GoodSize(C)
  PROVE  /\ C \in Nat /\ C >= 2 /\ C <= Half
         /\ Modulus \div C \in Int
         /\ Modulus = (Modulus \div C) * C
BY HalfOfModulus, Euclid DEF GoodSize

\* A number's slot stays the same one round, or one window, further.
LEMMA SameRemainder ==
  ASSUME NEW C, ValidSize(C), GoodSize(C),
         NEW x \in Int
  PROVE  /\ (x + Modulus) % C = x % C
         /\ (x - Modulus) % C = x % C
         /\ (x + C) % C = x % C
<1> DEFINE k == Modulus \div C
<1>1. k \in Int /\ Modulus = k * C /\ C \in Nat /\ C > 0
  BY CapacityDivides
<1> HIDE DEF k
<1>2. (x + k * C) % C = x % C
  BY <1>1, ModShift
<1>3. (x + (-k) * C) % C = x % C
  BY <1>1, ModShift, -k \in Int
<1>4. (-k) * C = - Modulus
  BY <1>1
<1>5. (x + C) % C = x % C
  BY <1>1, ModNext
<1>6. x - Modulus = x + (- Modulus)
  BY ModulusAssumption
<1> QED
  BY <1>1, <1>2, <1>3, <1>4, <1>5, <1>6

\* The number just inserted is the most recent one.
LEMMA BehindItself ==
  ASSUME NEW s \in SeqNum PROVE Behind(WrappingAdd(s, 1), s) = 0
BY BehindNext, ModulusAssumption DEF SeqNum

\* Another number of the same slot is at least a whole window behind.
LEMMA SameSlot ==
  ASSUME NEW C, ValidSize(C), GoodSize(C),
         NEW s \in SeqNum, NEW e \in SeqNum,
         e # s, e % C = s % C
  PROVE  Behind(WrappingAdd(s, 1), e) >= C
<1> DEFINE a == Behind(WrappingAdd(s, 1), e)
<1>1. a \in SeqNum /\ a = IF e <= s THEN s - e ELSE s - e + Modulus
  BY BehindNext
<1>2. (e - Modulus) % C = e % C
  BY SameRemainder, ModulusAssumption DEF SeqNum
<1> DEFINE u == IF e <= s THEN e ELSE e - Modulus
<1>3. u \in Int /\ u % C = s % C /\ a = s - u /\ u # s
  BY <1>1, <1>2, ModulusAssumption DEF SeqNum
<1> HIDE DEF a, u
<1>4. a >= 0 /\ s \in Int /\ C \in Nat /\ C > 0
  BY <1>1, CapacityDivides, ModulusAssumption DEF SeqNum
<1>5. ~(s - u < C /\ u - s < C)
  BY <1>3, <1>4, ModGap
<1>6. ~(a < C)
  BY <1>3, <1>4, <1>5
<1> QED
  BY <1>3, <1>4, <1>6 DEF a

\* Moving the pointer past s clears exactly the entries that fall out of the
\* window, but for the slot s itself is about to overwrite: that is the one
\* remove_entries misses when its range wraps.
LEMMA ClearedIsLeftBehind ==
  ASSUME NEW C, ValidSize(C), GoodSize(C),
         NEW h \in SeqNum, NEW s \in SeqNum, NEW e \in SeqNum,
         SequenceGreaterThan(WrappingAdd(s, 1), h),
         Behind(h, e) < C, e % C # s % C
  PROVE  Cleared(C, h, s, e % C)
             <=> Behind(WrappingAdd(s, 1), e) >= C
<1> DEFINE u == IF e < h THEN e ELSE e - Modulus
           S == IF s < h THEN s + Modulus ELSE s
           last == LastCleared(h, s)
<1>1. /\ C \in Nat /\ C >= 2 /\ C <= Half
      /\ Half \in Nat /\ Modulus = 2 * Half
  BY CapacityDivides, HalfOfModulus
<1>2. /\ u \in Int /\ S \in Int /\ last \in Int
      /\ last = IF s < h THEN S - 1 ELSE S
      /\ h \in Int /\ h <= S
  BY <1>1 DEF SeqNum, LastCleared
<1>3. u < h /\ h - u <= C
  <2>1. Behind(h, e) = IF e < h THEN h - 1 - e ELSE h - 1 - e + Modulus
    BY BehindCases
  <2> QED
    BY <1>1, <2>1 DEF SeqNum
<1>4. S + 1 - h <= Half
  <2>1. WrappingAdd(s, 1) = IF s = Modulus - 1 THEN 0 ELSE s + 1
    BY NextNumber
  <2> QED
    BY <1>1, <2>1 DEF SeqNum, SequenceGreaterThan
<1>5. Behind(WrappingAdd(s, 1), e) = S - u
  <2>1. /\ Behind(WrappingAdd(s, 1), e) \in 0 .. Modulus - 1
        /\ Behind(WrappingAdd(s, 1), e) = IF e <= s THEN s - e ELSE s - e + Modulus
    BY BehindNext DEF SeqNum
  <2>2. S - u >= 0 /\ S - u < Modulus
    BY <1>1, <1>2, <1>3, <1>4
  <2> QED
    BY <1>1, <2>1, <2>2 DEF SeqNum
<1>6. u % C = e % C /\ S % C = s % C
  BY SameRemainder DEF SeqNum
<1>7. (u + C) % C = e % C
  BY <1>2, <1>6, SameRemainder
<1> HIDE DEF u, S, last
<1>8. ASSUME Cleared(C, h, s, e % C) PROVE S - u >= C
  <2>1. CASE last - h >= C
    BY <2>1, <1>1, <1>2, <1>3
  <2>2. CASE \E t \in h .. last : t % C = e % C
    <3>1. PICK t \in h .. last : t % C = e % C
      BY <2>2
    <3>2. t \in Int /\ t >= h /\ t <= S
      BY <1>2, <3>1
    <3>3. ~(t - u < C)
      BY <1>1, <1>2, <1>3, <1>6, <3>1, <3>2, ModGap
    <3> QED
      BY <1>1, <1>2, <3>2, <3>3
  <2> QED
    BY <1>8, <2>1, <2>2 DEF Cleared, last
<1>9. ASSUME S - u >= C PROVE Cleared(C, h, s, e % C)
  <2>1. u + C >= h /\ u + C <= S /\ u + C \in Int
    BY <1>1, <1>2, <1>3, <1>9
  <2>2. u + C # S
    BY <1>6, <1>7
  <2>3. u + C \in h .. last
    BY <1>2, <2>1, <2>2
  <2> QED
    BY <1>7, <2>3 DEF Cleared, last
<1> QED
  BY <1>5, <1>8, <1>9

\* A number that neither moves the pointer nor is too old is in the window.
LEMMA AcceptedInPlace ==
  ASSUME NEW C, ValidSize(C), GoodSize(C), NEW V,
         NEW b \in BufferType(C, V), NEW s \in SeqNum,
         ~Advances(b, s), ~TooOld(b, s)
  PROVE  Behind(b.sequence, s) < C
<1> DEFINE h == b.sequence
<1>1. /\ C \in Nat /\ C >= 2 /\ C <= Half
      /\ Half \in Nat /\ Modulus = 2 * Half /\ C \in SeqNum
  BY CapacityDivides, HalfOfModulus DEF SeqNum
<1>2. h \in SeqNum
  BY BufferShape
<1>3. WrappingAdd(s, 1) = IF s = Modulus - 1 THEN 0 ELSE s + 1
  BY NextNumber
<1>4. WrappingSub(h, C)
         = IF C <= h THEN h - C ELSE h - C + Modulus
  BY <1>1, <1>2, SubtractCases
<1>5. Behind(h, s) = IF s < h THEN h - 1 - s ELSE h - 1 - s + Modulus
  BY <1>2, BehindCases
<1>6. ~SequenceGreaterThan(WrappingAdd(s, 1), h)
  BY DEF Advances
<1>7. ~SequenceGreaterThan(WrappingSub(h, C), s)
  BY BufferShape DEF TooOld, SequenceLessThan
<1> HIDE DEF h
<1>8. Behind(h, s) < C
  BY <1>1, <1>2, <1>3, <1>4, <1>5, <1>6, <1>7 DEF SeqNum, SequenceGreaterThan
<1> QED
  BY <1>8 DEF h

\* What moves the pointer is 1 .. Half ahead of it.
LEMMA AdvanceRange ==
  ASSUME NEW h \in SeqNum, NEW s \in SeqNum
  PROVE  /\ SequenceGreaterThan(WrappingAdd(s, 1), h) => (s + 1 - h) % Modulus \in 1 .. Half
         /\ (s + 1 - h) % Modulus \in 1 .. Half - 1 => SequenceGreaterThan(WrappingAdd(s, 1), h)
<1>1. WrappingAdd(s, 1) = IF s = Modulus - 1 THEN 0 ELSE s + 1
  BY NextNumber
<1>2. (s + 1 - h) % Modulus = IF s + 1 < h THEN s + 1 - h + Modulus
                             ELSE IF s + 1 - h = Modulus THEN 0 ELSE s + 1 - h
  BY ModulusAssumption DEF SeqNum
<1> QED
  BY <1>1, <1>2, HalfOfModulus DEF SeqNum, SequenceGreaterThan


-----------------------------------------------------------------------------
(* Nothing stale survives.                                                   *)

\* A good buffer, slot by slot: each entry is in its own slot and inside the
\* window.
LEMMA GoodSlots ==
  ASSUME NEW C, ValidSize(C), NEW V,
         NEW b \in BufferType(C, V)
  PROVE  b \in GoodBuffers(C, V) <=>
           \A i \in 0 .. C - 1 :
              b.slots[i].seq # NoSeq =>
                 /\ b.slots[i].seq % C = i
                 /\ Behind(b.sequence, b.slots[i].seq) < C
<1>1. b.capacity = C /\ DOMAIN b.slots = 0 .. C - 1
  BY BufferShape
<1> QED
  BY <1>1 DEF GoodBuffers, InWindow

\* An insert keeps, outside its own slot, exactly what stays in the window.
LEMMA InsertSlots ==
  ASSUME NEW C, ValidSize(C), GoodSize(C), NEW V,
         NEW b \in GoodBuffers(C, V), NEW s \in SeqNum, NEW v \in V,
         ~TooOld(b, s), NEW i \in 0 .. C - 1, i # s % C
  PROVE  LET n == InsertWith(b, s, v)
         IN  n.slots[i] = IF \/ b.slots[i].seq = NoSeq
                             \/ Behind(n.sequence, b.slots[i].seq) >= C
                          THEN Empty ELSE b.slots[i]
<1> DEFINE n == InsertWith(b, s, v)
           e == b.slots[i].seq
<1>1. b \in BufferType(C, V) /\ b.sequence \in SeqNum
  BY BufferShape DEF GoodBuffers
<1>2. /\ n.sequence = IF Advances(b, s) THEN WrappingAdd(s, 1) ELSE b.sequence
      /\ n.slots[i] = IF Advances(b, s) /\ Cleared(C, b.sequence, s, i)
                      THEN Empty ELSE b.slots[i]
  BY <1>1, InsertFields
<1>3. \/ b.slots[i] = Empty /\ e = NoSeq
      \/ e \in SeqNum /\ e # NoSeq
  <2>1. e \in SeqNum => e # NoSeq
    BY ModulusAssumption DEF SeqNum, NoSeq
  <2> QED
    BY <1>1, <2>1, BufferShape
<1>4. e # NoSeq => e % C = i /\ Behind(b.sequence, e) < C
  BY <1>1, GoodSlots
<1> HIDE DEF n, e
<1>5. CASE e = NoSeq
  BY <1>2, <1>3, <1>5 DEF e, n, NoSeq, SeqNum
<1>6. CASE e # NoSeq /\ Advances(b, s)
  <2>1. Cleared(C, b.sequence, s, i) <=> Behind(WrappingAdd(s, 1), e) >= C
    BY <1>1, <1>3, <1>4, <1>6, ClearedIsLeftBehind DEF Advances
  <2> QED
    BY <1>2, <1>6, <2>1 DEF e, n
<1>7. CASE e # NoSeq /\ ~Advances(b, s)
  <2>1. Behind(b.sequence, e) \in Int /\ C \in Int
    <3>1. Behind(b.sequence, e) \in SeqNum
      BY <1>1, <1>3, <1>7, BehindCases
    <3>2. C \in Nat
      BY CapacityRange
    <3> QED
      BY <3>1, <3>2 DEF SeqNum
  <2>2. ~(Behind(n.sequence, e) >= C)
    BY <1>2, <1>4, <1>7, <2>1
  <2> QED
    BY <1>2, <1>7, <2>2 DEF e, n
<1> QED
  BY <1>5, <1>6, <1>7

\* The number inserted is in the window afterwards.
LEMMA InsertedInWindow ==
  ASSUME NEW C, ValidSize(C), GoodSize(C), NEW V,
         NEW b \in BufferType(C, V), NEW s \in SeqNum, NEW v \in V,
         ~TooOld(b, s)
  PROVE  Behind(InsertWith(b, s, v).sequence, s) < C
<1>1. InsertWith(b, s, v).sequence
         = IF Advances(b, s) THEN WrappingAdd(s, 1) ELSE b.sequence
  BY InsertFields
<1>2. CASE Advances(b, s)
  BY <1>1, <1>2, BehindItself, CapacityDivides
<1>3. CASE ~Advances(b, s)
  BY <1>1, <1>3, AcceptedInPlace
<1> QED
  BY <1>2, <1>3

\* insert_with leaves nothing in the buffer that is out of place or out of the
\* window.
LEMMA InsertWithInWindow ==
  ASSUME NEW C, ValidSize(C), GoodSize(C), NEW V,
         NEW b \in GoodBuffers(C, V), NEW s \in SeqNum, NEW v \in V
  PROVE  InsertWith(b, s, v) \in GoodBuffers(C, V)
<1> DEFINE n == InsertWith(b, s, v)
<1>1. b \in BufferType(C, V) /\ n \in BufferType(C, V)
  BY InsertWithType DEF GoodBuffers
<1>2. CASE TooOld(b, s)
  BY <1>2 DEF InsertWith
<1>3. CASE ~TooOld(b, s)
  <2>1. Behind(n.sequence, s) < C
    BY <1>1, <1>3, InsertedInWindow
  <2>2. n.slots[s % C] = Slot(s, v)
    BY <1>1, <1>3, InsertFields
  <2> SUFFICES ASSUME NEW i \in 0 .. C - 1, n.slots[i].seq # NoSeq
               PROVE  /\ n.slots[i].seq % C = i
                      /\ Behind(n.sequence, n.slots[i].seq) < C
    BY <1>1, GoodSlots
  <2>3. CASE i = s % C
    BY <2>1, <2>2, <2>3 DEF Slot
  <2>4. CASE i # s % C
    <3>1. n.slots[i] = IF \/ b.slots[i].seq = NoSeq
                          \/ Behind(n.sequence, b.slots[i].seq) >= C
                       THEN Empty ELSE b.slots[i]
      BY <1>3, <2>4, InsertSlots
    <3> HIDE DEF n
    <3>2. /\ b.slots[i].seq # NoSeq
          /\ ~(Behind(n.sequence, b.slots[i].seq) >= C)
          /\ n.slots[i] = b.slots[i]
      BY <3>1 DEF Empty
    <3>3. b.slots[i].seq % C = i
      BY <1>1, <3>2, GoodSlots
    <3>4. b.slots[i].seq \in SeqNum /\ n.sequence \in SeqNum /\ C \in Int
      BY <1>1, <3>2, BufferShape, CapacityRange DEF Empty
    <3>5. Behind(n.sequence, b.slots[i].seq) \in Int
      <4>1. Behind(n.sequence, b.slots[i].seq) \in SeqNum
        BY <3>4, BehindCases
      <4> QED
        BY <4>1 DEF SeqNum
    <3> QED
      BY <3>2, <3>3, <3>4, <3>5
  <2> QED
    BY <2>3, <2>4
<1> QED
  BY <1>2, <1>3


\* take empties one slot and leaves the others.
LEMMA TakeSlots ==
  ASSUME NEW C, ValidSize(C), NEW V,
         NEW b \in BufferType(C, V), NEW s \in SeqNum, Exists(b, s)
  PROVE  /\ Take(b, s).sequence = b.sequence
         /\ \A i \in 0 .. C - 1 :
               Take(b, s).slots[i] = IF i = s % C THEN Empty ELSE b.slots[i]
<1>1. s % C \in 0 .. C - 1 /\ DOMAIN b.slots = 0 .. C - 1
  BY BufferShape, CapacityRange
<1>2. Take(b, s) = [b EXCEPT !.slots[s % C] = Empty]
  BY BufferShape DEF Take, SequenceIndex
<1> HIDE DEF Empty
<1>3. /\ Take(b, s).sequence = b.sequence
      /\ Take(b, s).slots = [b.slots EXCEPT ![s % C] = Empty]
  BY <1>2 DEF BufferType
<1> QED
  BY <1>1, <1>3

\* take leaves nothing out of place.
LEMMA TakeInWindow ==
  ASSUME NEW C, ValidSize(C), NEW V,
         NEW b \in GoodBuffers(C, V), NEW s \in SeqNum
  PROVE  Take(b, s) \in GoodBuffers(C, V)
<1>1. b \in BufferType(C, V) /\ Take(b, s) \in BufferType(C, V)
  BY TakeType DEF GoodBuffers
<1>2. CASE ~Exists(b, s)
  BY <1>2 DEF Take
<1>3. CASE Exists(b, s)
  <2> DEFINE n == Take(b, s)
  <2> SUFFICES ASSUME NEW i \in 0 .. C - 1, n.slots[i].seq # NoSeq
               PROVE  /\ n.slots[i].seq % C = i
                      /\ Behind(n.sequence, n.slots[i].seq) < C
    BY <1>1, GoodSlots
  <2>1. /\ n.sequence = b.sequence
        /\ n.slots[i] = IF i = s % C THEN Empty ELSE b.slots[i]
    BY <1>1, <1>3, TakeSlots
  <2> HIDE DEF n
  <2>2. n.slots[i] = b.slots[i]
    BY <2>1 DEF Empty
  <2> QED
    BY <1>1, <2>1, <2>2, GoodSlots
<1> QED
  BY <1>2, <1>3

\* A new and a reset buffer have nothing out of place.
LEMMA EmptyBuffersGood ==
  ASSUME NEW C, ValidSize(C), NEW V
  PROVE  /\ NewBuffer(C) \in GoodBuffers(C, V)
         /\ \A b \in BufferType(C, V) : ResetBuffer(b) \in GoodBuffers(C, V)
<1>1. NewBuffer(C) \in GoodBuffers(C, V)
  BY NewBufferType DEF NewBuffer, Empty, GoodBuffers, InWindow
<1>2. ASSUME NEW b \in BufferType(C, V) PROVE ResetBuffer(b) \in GoodBuffers(C, V)
  <2>1. ResetBuffer(b) \in BufferType(C, V)
    BY ResetType
  <2>2. ResetBuffer(b).slots = [i \in 0 .. C - 1 |-> Empty]
    BY BufferShape DEF ResetBuffer, BufferType
  <2>3. \A i \in 0 .. C - 1 : ResetBuffer(b).slots[i].seq = NoSeq
    BY <2>2 DEF Empty
  <2> QED
    BY <2>1, <2>3, GoodSlots
<1> QED
  BY <1>1, <1>2

-----------------------------------------------------------------------------
(* The buffer implements WindowMap.                                          *)

\* What a good buffer holds: the numbers found in their slots, all inside the
\* window.
LEMMA HeldNumbers ==
  ASSUME NEW C, ValidSize(C), NEW V,
         NEW b \in GoodBuffers(C, V)
  PROVE  /\ Held(b) \subseteq SeqNum
         /\ \A s \in SeqNum : s \in Held(b) <=> b.slots[s % C].seq = s
         /\ \A s \in Held(b) : Behind(b.sequence, s) < C
<1>1. b \in BufferType(C, V)
  BY DEF GoodBuffers
<1>2. DOMAIN b.slots = 0 .. C - 1
  BY <1>1, BufferShape
<1>3. \A i \in 0 .. C - 1 :
         b.slots[i].seq # NoSeq => /\ b.slots[i].seq \in SeqNum
                                   /\ b.slots[i].seq % C = i
                                   /\ Behind(b.sequence, b.slots[i].seq) < C
  BY <1>1, BufferShape, GoodSlots
<1>4. \A s \in SeqNum : s # NoSeq /\ s % C \in 0 .. C - 1
  BY CapacityRange DEF SeqNum, NoSeq
<1> QED
  BY <1>2, <1>3, <1>4 DEF Held

\* exists and get find exactly what is held.
LEMMA ExistsHeld ==
  ASSUME NEW C, ValidSize(C), NEW V,
         NEW b \in GoodBuffers(C, V), NEW s \in SeqNum
  PROVE  /\ Exists(b, s) <=> s \in Held(b)
         /\ Get(b, s) = b.slots[s % C].val
BY HeldNumbers, BufferShape DEF GoodBuffers, Exists, Get, SequenceIndex

\* No two numbers of one window share a slot.
LEMMA OneNumberPerSlot ==
  ASSUME NEW C, ValidSize(C), GoodSize(C),
         NEW h \in SeqNum, NEW s \in SeqNum, NEW u \in SeqNum,
         Behind(h, s) < C, Behind(h, u) < C,
         u % C = s % C
  PROVE  u = s
<1> DEFINE x == IF s < h THEN s ELSE s - Modulus
           y == IF u < h THEN u ELSE u - Modulus
<1>1. /\ C \in Nat /\ C > 0 /\ C < Modulus /\ Modulus \in Nat
  BY CapacityRange, ModulusAssumption
<1>2. Behind(h, s) = h - 1 - x /\ Behind(h, u) = h - 1 - y
  <2>1. Behind(h, s) = IF s < h THEN h - 1 - s ELSE h - 1 - s + Modulus
    BY BehindCases
  <2>2. Behind(h, u) = IF u < h THEN h - 1 - u ELSE h - 1 - u + Modulus
    BY BehindCases
  <2> QED
    BY <1>1, <2>1, <2>2 DEF SeqNum
<1>3. x \in Int /\ y \in Int /\ x < h /\ y < h
  BY <1>1 DEF SeqNum
<1>4. x % C = s % C /\ y % C = u % C
  BY SameRemainder DEF SeqNum
<1> HIDE DEF x, y
<1>5. x - y < C /\ y - x < C
  BY <1>1, <1>2, <1>3 DEF SeqNum
<1>6. x = y
  BY <1>1, <1>3, <1>4, <1>5, ModGap
<1> QED
  BY <1>1, <1>6 DEF x, y, SeqNum

\* A good buffer is a map: an insert adds s, keeps what the new window covers,
\* and keeps its values.
LEMMA MapInsert ==
  ASSUME NEW C, ValidSize(C), GoodSize(C), NEW V,
         NEW b \in GoodBuffers(C, V), NEW s \in SeqNum, NEW v \in V,
         ~TooOld(b, s)
  PROVE  LET n == InsertWith(b, s, v)
         IN  /\ Held(n) = {s} \cup {u \in Held(b) : Behind(n.sequence, u) < C}
             /\ Get(n, s) = v
             /\ \A u \in Held(n) : u # s => Get(n, u) = Get(b, u)
<1> DEFINE n == InsertWith(b, s, v)
<1>1. n \in GoodBuffers(C, V) /\ b \in BufferType(C, V) /\ n \in BufferType(C, V)
  BY InsertWithInWindow DEF GoodBuffers
<1>2. n.slots[s % C] = Slot(s, v)
  BY <1>1, InsertFields
<1>3. \A i \in 0 .. C - 1 : i # s % C =>
         n.slots[i] = IF \/ b.slots[i].seq = NoSeq
                         \/ Behind(n.sequence, b.slots[i].seq) >= C
                      THEN Empty ELSE b.slots[i]
  BY InsertSlots
<1>4. Behind(n.sequence, s) < C
  BY <1>1, InsertedInWindow
<1> HIDE DEF n
<1>5. s \in Held(n) /\ Get(n, s) = v
  BY <1>1, <1>2, HeldNumbers, ExistsHeld DEF Slot
<1>6. ASSUME NEW u \in SeqNum, u # s, u % C = s % C
      PROVE  u \notin Held(n) /\ ~(u \in Held(b) /\ Behind(n.sequence, u) < C)
  <2>1. u \notin Held(n)
    BY <1>1, <1>2, <1>6, HeldNumbers DEF Slot
  <2>2. ASSUME u \in Held(b), Behind(n.sequence, u) < C PROVE FALSE
    BY <1>1, <1>4, <1>6, <2>2, BufferShape, OneNumberPerSlot
  <2> QED
    BY <2>1, <2>2
<1>7. ASSUME NEW u \in SeqNum, u % C # s % C
      PROVE  /\ u \in Held(n) <=> u \in Held(b) /\ Behind(n.sequence, u) < C
             /\ u \in Held(n) => Get(n, u) = Get(b, u)
  <2> DEFINE i == u % C
  <2>1. i \in 0 .. C - 1 /\ i # s % C /\ u # NoSeq
    BY <1>7, CapacityRange DEF SeqNum, NoSeq
  <2>2. Behind(n.sequence, u) \in Int /\ C \in Int
    <3>1. Behind(n.sequence, u) \in SeqNum
      BY <1>1, BufferShape, BehindCases
    <3> QED
      BY <3>1, CapacityRange DEF SeqNum
  <2>3. /\ u \in Held(n) <=> n.slots[i].seq = u
        /\ u \in Held(b) <=> b.slots[i].seq = u
    BY <1>1, HeldNumbers
  <2>4. Get(n, u) = n.slots[i].val /\ Get(b, u) = b.slots[i].val
    BY <1>1, ExistsHeld
  <2>5. n.slots[i] = IF \/ b.slots[i].seq = NoSeq
                        \/ Behind(n.sequence, b.slots[i].seq) >= C
                     THEN Empty ELSE b.slots[i]
    BY <1>3, <2>1
  <2>6. Empty.seq = NoSeq
    BY DEF Empty
  <2> HIDE DEF i, Empty
  <2> QED
    BY <2>1, <2>2, <2>3, <2>4, <2>5, <2>6
<1>8. Held(n) \subseteq SeqNum /\ Held(b) \subseteq SeqNum
  BY <1>1, HeldNumbers
<1>9. \A u \in SeqNum :
        u \in Held(n) <=> u \in {s} \cup {w \in Held(b) : Behind(n.sequence, w) < C}
  BY <1>5, <1>6, <1>7
<1>10. Held(n) = {s} \cup {u \in Held(b) : Behind(n.sequence, u) < C}
  BY <1>8, <1>9
<1>11. \A u \in Held(n) : u # s => Get(n, u) = Get(b, u)
  BY <1>6, <1>7, <1>8
<1> QED
  BY <1>5, <1>10, <1>11 DEF n

\* Taking an entry forgets that entry and nothing else.
LEMMA TakeHeld ==
  ASSUME NEW C, ValidSize(C), NEW V, NEW b \in GoodBuffers(C, V), NEW s \in SeqNum
  PROVE  LET n == Take(b, s)
         IN  /\ n.sequence = b.sequence
             /\ Held(n) = Held(b) \ {s}
             /\ \A u \in Held(n) : Get(n, u) = Get(b, u)
<1> DEFINE n == Take(b, s)
<1>1. b \in BufferType(C, V) /\ n \in GoodBuffers(C, V)
  BY TakeInWindow DEF GoodBuffers
<1>2. Exists(b, s) <=> s \in Held(b)
  BY ExistsHeld
<1>3. CASE ~Exists(b, s)
  BY <1>2, <1>3 DEF Take
<1>4. CASE Exists(b, s)
  <2>1. /\ n.sequence = b.sequence
        /\ \A i \in 0 .. C - 1 :
              n.slots[i] = IF i = s % C THEN Empty ELSE b.slots[i]
    BY <1>1, <1>4, TakeSlots
  <2>2. b.slots[s % C].seq = s
    BY <1>2, <1>4, HeldNumbers
  <2>3. \A u \in SeqNum : u % C \in 0 .. C - 1 /\ u # NoSeq
    BY CapacityRange DEF SeqNum, NoSeq
  <2>4. Empty.seq = NoSeq
    BY DEF Empty
  <2> HIDE DEF n, Empty
  <2>5. ASSUME NEW u \in SeqNum
        PROVE  /\ u \in Held(n) <=> u \in Held(b) \ {s}
               /\ u \in Held(n) => Get(n, u) = Get(b, u)
    <3>1. /\ u \in Held(n) <=> n.slots[u % C].seq = u
          /\ u \in Held(b) <=> b.slots[u % C].seq = u
      BY <1>1, HeldNumbers
    <3>2. Get(n, u) = n.slots[u % C].val /\ Get(b, u) = b.slots[u % C].val
      BY <1>1, ExistsHeld
    <3>3. u % C \in 0 .. C - 1 /\ u # NoSeq
      BY <2>3
    <3>4. CASE u % C = s % C
      BY <2>1, <2>2, <2>4, <3>1, <3>2, <3>3, <3>4
    <3>5. CASE u % C # s % C
      BY <2>1, <3>1, <3>2, <3>3, <3>5
    <3> QED
      BY <3>4, <3>5
  <2>6. Held(n) \subseteq SeqNum /\ Held(b) \subseteq SeqNum
    BY <1>1, HeldNumbers
  <2>7. Held(n) = Held(b) \ {s}
    BY <2>5, <2>6
  <2> QED
    BY <2>1, <2>5, <2>6, <2>7 DEF n
<1> QED
  BY <1>3, <1>4

\* A new and a reset buffer hold nothing and begin at 0.
LEMMA EmptyHeld ==
  ASSUME NEW C, ValidSize(C), NEW V
  PROVE  /\ NewBuffer(C) \in GoodBuffers(C, V)
         /\ NewBuffer(C).sequence = 0 /\ Held(NewBuffer(C)) = {}
         /\ \A b \in BufferType(C, V) : /\ ResetBuffer(b) \in GoodBuffers(C, V)
                                        /\ ResetBuffer(b).sequence = 0
                                        /\ Held(ResetBuffer(b)) = {}
<1>1. NewBuffer(C).sequence = 0 /\ Held(NewBuffer(C)) = {}
  BY DEF NewBuffer, Held, Empty
<1>2. ASSUME NEW b \in BufferType(C, V)
      PROVE  ResetBuffer(b).sequence = 0 /\ Held(ResetBuffer(b)) = {}
  <2>1. ResetBuffer(b).slots = [i \in 0 .. C - 1 |-> Empty]
    BY BufferShape DEF ResetBuffer, BufferType
  <2>2. ResetBuffer(b).sequence = 0
    BY DEF ResetBuffer, BufferType
  <2> QED
    BY <2>1, <2>2 DEF Held, Empty
<1> QED
  BY <1>1, <1>2, EmptyBuffersGood

\* The slot at the pointer is free exactly when the number one window older has
\* no entry.
LEMMA FreeSlot ==
  ASSUME NEW C, ValidSize(C), GoodSize(C), NEW V, NEW b \in GoodBuffers(C, V)
  PROVE  Available(b, b.sequence) <=> WrappingSub(b.sequence, C) \notin Held(b)
<1> DEFINE h == b.sequence
           old == WrappingSub(h, C)
           e == b.slots[h % C].seq
<1>1. C \in Nat /\ C >= 2 /\ C <= Half /\ C \in SeqNum
  BY CapacityDivides, HalfOfModulus DEF SeqNum
<1>2. h \in SeqNum /\ b \in BufferType(C, V)
  BY BufferShape DEF GoodBuffers
<1>3. old \in SeqNum /\ old = IF C <= h THEN h - C ELSE h - C + Modulus
  BY <1>1, <1>2, SubtractCases
<1>4. /\ Available(b, h) <=> e = NoSeq
      /\ old \in Held(b) <=> b.slots[old % C].seq = old
  BY <1>2, <1>3, BufferShape, HeldNumbers DEF Available, SequenceIndex
<1>5. h % C \in 0 .. C - 1
  BY <1>2, CapacityRange
<1> HIDE DEF h, old
<1>6. old % C = h % C
  <2>1. (h - C) % C = h % C
    <3> DEFINE x == h - C
    <3>1. x \in Int /\ x + C = h
      BY <1>1, <1>2 DEF SeqNum
    <3> HIDE DEF x
    <3>2. (x + C) % C = x % C
      BY <3>1, SameRemainder
    <3> QED
      BY <3>1, <3>2 DEF x
  <2>2. ((h - C) + Modulus) % C = (h - C) % C
    <3>1. h - C \in Int
      BY <1>1, <1>2 DEF SeqNum
    <3> QED
      BY <3>1, SameRemainder
  <2> QED
    BY <1>3, <2>1, <2>2
<1>7. Behind(h, old) < C
  <2>1. Behind(h, old) = IF old < h THEN h - 1 - old ELSE h - 1 - old + Modulus
    BY <1>2, <1>3, BehindCases
  <2> QED
    BY <1>1, <1>2, <1>3, <2>1, HalfOfModulus DEF SeqNum
<1>8. e # NoSeq => e = old
  <2>1. e # NoSeq => /\ e \in SeqNum
                     /\ e % C = h % C
                     /\ Behind(h, e) < C
    BY <1>2, <1>5, BufferShape, GoodSlots DEF h
  <2> QED
    BY <1>2, <1>3, <1>6, <1>7, <2>1, OneNumberPerSlot
<1>9. old # NoSeq
  BY <1>3 DEF SeqNum, NoSeq
<1> QED
  BY <1>4, <1>6, <1>8, <1>9 DEF h, old

-----------------------------------------------------------------------------
(* The same for numbers that do not wrap: the pointer stands for h and the    *)
(* number inserted for x.                                                    *)

\* Ahead of the pointer, x moves it and leaves behind what falls out of the window.
LEMMA InsertAhead ==
  ASSUME NEW C, ValidSize(C), GoodSize(C), NEW V,
         NEW b \in GoodBuffers(C, V), NEW v \in V, NEW h \in Int, NEW x \in Int,
         b.sequence = h % Modulus, h <= x, x + 1 - h < Half
  PROVE  LET s == x % Modulus
             n == InsertWith(b, s, v)
         IN  /\ ~TooOld(b, s)
             /\ n \in GoodBuffers(C, V)
             /\ n.sequence = (x + 1) % Modulus
             /\ Held(n) = {s} \cup {u \in Held(b) : Behind((x + 1) % Modulus, u) < C}
             /\ Get(n, s) = v
             /\ \A u \in Held(n) : u # s => Get(n, u) = Get(b, u)
<1> DEFINE s == x % Modulus
           n == InsertWith(b, s, v)
<1>1. s \in SeqNum /\ b \in BufferType(C, V)
  BY Wrapped DEF GoodBuffers
<1>2. WrappingAdd(s, 1) = (x + 1) % Modulus
  BY WrappedAdd
<1>3. Advances(b, s)
  <2>1. 0 < (x + 1) - h /\ (x + 1) - h < Half /\ x + 1 \in Int
    BY HalfOfModulus
  <2>2. SequenceGreaterThan((x + 1) % Modulus, h % Modulus)
    BY <2>1, WrappedGreater
  <2> QED
    BY <1>2, <2>2 DEF Advances
<1>4. ~TooOld(b, s)
  BY <1>3 DEF TooOld
<1> HIDE DEF s
<1>5. n.sequence = (x + 1) % Modulus
  BY <1>1, <1>2, <1>3, <1>4, InsertFields
<1>6. /\ Held(n) = {s} \cup {u \in Held(b) : Behind(n.sequence, u) < C}
      /\ Get(n, s) = v
      /\ \A u \in Held(n) : u # s => Get(n, u) = Get(b, u)
  BY <1>1, <1>4, MapInsert
<1>7. n \in GoodBuffers(C, V)
  BY <1>1, InsertWithInWindow
<1> HIDE DEF n
<1> QED
  BY <1>4, <1>5, <1>6, <1>7 DEF n, s

\* In the window, x leaves everything else as it was.
LEMMA InsertBehind ==
  ASSUME NEW C, ValidSize(C), GoodSize(C), NEW V,
         NEW b \in GoodBuffers(C, V), NEW v \in V, NEW h \in Int, NEW x \in Int,
         b.sequence = h % Modulus, h - C <= x, x < h
  PROVE  LET s == x % Modulus
             n == InsertWith(b, s, v)
         IN  /\ ~TooOld(b, s)
             /\ n \in GoodBuffers(C, V)
             /\ n.sequence = b.sequence
             /\ Held(n) = {s} \cup Held(b)
             /\ Get(n, s) = v
             /\ \A u \in Held(n) : u # s => Get(n, u) = Get(b, u)
<1> DEFINE s == x % Modulus
           n == InsertWith(b, s, v)
<1>1. s \in SeqNum /\ b \in BufferType(C, V) /\ b.capacity = C
  <2>1. b \in BufferType(C, V)
    BY DEF GoodBuffers
  <2> QED
    BY <2>1, Wrapped, BufferShape
<1>2. C \in Nat /\ C >= 2 /\ C <= Half /\ Half \in Nat
  BY CapacityDivides, HalfOfModulus
<1>3. ~Advances(b, s)
  <2>1. -Half < (x + 1) - h /\ (x + 1) - h <= 0 /\ x + 1 \in Int
    BY <1>2
  <2>2. ~SequenceGreaterThan((x + 1) % Modulus, h % Modulus)
    BY <2>1, WrappedGreater
  <2>3. WrappingAdd(s, 1) = (x + 1) % Modulus
    BY WrappedAdd
  <2> QED
    BY <2>2, <2>3 DEF Advances
<1>4. ~TooOld(b, s)
  <2>1. -Half < (h - C) - x /\ (h - C) - x <= 0 /\ h - C \in Int
    BY <1>2
  <2>2. ~SequenceGreaterThan((h - C) % Modulus, x % Modulus)
    BY <2>1, WrappedGreater
  <2>3. WrappingSub(h % Modulus, C) = (h - C) % Modulus
    BY <1>2, WrappedAdd
  <2> QED
    BY <1>1, <2>2, <2>3 DEF TooOld, SequenceLessThan
<1> HIDE DEF s
<1>5. n.sequence = b.sequence
  BY <1>1, <1>3, <1>4, InsertFields
<1>6. /\ Held(n) = {s} \cup {u \in Held(b) : Behind(n.sequence, u) < C}
      /\ Get(n, s) = v
      /\ \A u \in Held(n) : u # s => Get(n, u) = Get(b, u)
  BY <1>1, <1>4, MapInsert
<1>7. n \in GoodBuffers(C, V)
  BY <1>1, InsertWithInWindow
<1>8. \A u \in Held(b) : Behind(b.sequence, u) < C
  BY HeldNumbers
<1> HIDE DEF n
<1> QED
  BY <1>4, <1>5, <1>6, <1>7, <1>8 DEF n, s

\* A queue with room at its pointer loses nothing to the next number.
LEMMA InsertNext ==
  ASSUME NEW C, ValidSize(C), GoodSize(C), NEW V,
         NEW b \in GoodBuffers(C, V), NEW v \in V, NEW h \in Int,
         b.sequence = h % Modulus, Available(b, b.sequence)
  PROVE  LET s == h % Modulus
             n == InsertWith(b, s, v)
         IN  /\ n \in GoodBuffers(C, V)
             /\ n.sequence = (h + 1) % Modulus
             /\ Held(n) = {s} \cup Held(b)
             /\ Get(n, s) = v
             /\ \A u \in Held(b) : u # s /\ Get(n, u) = Get(b, u)
<1> DEFINE s == h % Modulus
           n == InsertWith(b, s, v)
<1>1. h <= h /\ h + 1 - h < Half
  BY HalfOfModulus
<1>2. /\ n \in GoodBuffers(C, V)
      /\ n.sequence = (h + 1) % Modulus
      /\ Held(n) = {s} \cup {u \in Held(b) : Behind((h + 1) % Modulus, u) < C}
      /\ Get(n, s) = v
      /\ \A u \in Held(n) : u # s => Get(n, u) = Get(b, u)
  BY <1>1, InsertAhead
<1>3. WrappingSub(s, C) \notin Held(b)
  BY FreeSlot
<1>4. ASSUME NEW u \in Held(b)
      PROVE  u # s /\ Behind((h + 1) % Modulus, u) < C
  <2>1. u \in SeqNum /\ s \in SeqNum /\ Behind(s, u) < C
    BY HeldNumbers, Wrapped
  <2>2. C \in Nat /\ C <= Half /\ Half \in Nat /\ Modulus = 2 * Half /\ C \in SeqNum /\ C >= 2
    BY CapacityDivides, HalfOfModulus DEF SeqNum
  <2>3. u # WrappingSub(s, C)
    BY <1>3
  <2>4. (h + 1) % Modulus = WrappingAdd(s, 1)
    BY WrappedAdd
  <2> HIDE DEF s
  <2>5. Behind(s, u) = IF u < s THEN s - 1 - u ELSE s - 1 - u + Modulus
    BY <2>1, BehindCases
  <2>6. Behind(WrappingAdd(s, 1), u) = IF u <= s THEN s - u ELSE s - u + Modulus
    BY <2>1, BehindNext
  <2>7. WrappingSub(s, C) = IF C <= s THEN s - C ELSE s - C + Modulus
    BY <2>1, <2>2, SubtractCases
  <2> QED
    BY <2>1, <2>2, <2>3, <2>4, <2>5, <2>6, <2>7 DEF SeqNum
<1> HIDE DEF n
<1>5. Held(n) = {s} \cup Held(b)
  BY <1>2, <1>4
<1> QED
  BY <1>2, <1>4, <1>5 DEF n

\* What is held has a value.
LEMMA HeldValue ==
  ASSUME NEW C, ValidSize(C), NEW V, NEW b \in GoodBuffers(C, V), NEW s \in Held(b)
  PROVE  s \in SeqNum /\ Get(b, s) \in V
<1>1. s \in SeqNum /\ b.slots[s % C].seq = s
  BY HeldNumbers
<1>2. s % C \in 0 .. C - 1 /\ s # NoSeq /\ b \in BufferType(C, V)
  BY <1>1, CapacityRange DEF GoodBuffers, SeqNum, NoSeq
<1>3. b.slots[s % C].val \in V
  BY <1>1, <1>2, BufferShape
<1> QED
  BY <1>1, <1>3, ExistsHeld

-----------------------------------------------------------------------------
(* Channels.                                                                 *)

\* Every channel is an unreliable one.
AllUnreliable == \A c \in ChannelIndexes : Kinds[c] = UnreliableUnordered

\* Every message has a size.
MeasuredMessages(V) == \A m \in V : MeasuredBits(m) \in Nat

\* The errors an unreliable channel can have.
ErrorLevels == {"None", "SendQueueFull"}
\* The errors a connection of such channels can have.
ConnectionErrors == {"None", "Channel"}
\* What generate_packet can panic with.
GeneratePanics == {NoPanic, "empty buffer", "underflow", "buffer full"}

\* The ends of an unreliable channel with messages of V only.
UnreliableEnds(V) ==
    [message_send_queue : Seq(V), message_receive_queue : Seq([id : Nat, message : V])]

\* Unreliable channels with messages of V.
UnreliableChannels(V) ==
    [kind : {UnreliableUnordered}, error_level : ErrorLevels, processor : UnreliableEnds(V)]

\* Connections with messages of V.
Connections(V) ==
    [channels : [ChannelIndexes -> UnreliableChannels(V)], error_level : ConnectionErrors]

\* The data of a packet with messages of V only.
DataOf(V) == Seq([channel_index : ChannelIndexes, messages : Seq(V)])

-----------------------------------------------------------------------------
(* Channels.                                                                 *)

\* The names in these sets.
LEMMA Strings ==
  /\ UnreliableUnordered # ReliableOrdered
  /\ "None" \in ErrorLevels /\ "SendQueueFull" \in ErrorLevels
  /\ "None" \in ConnectionErrors /\ "Channel" \in ConnectionErrors
  /\ NoPanic \in GeneratePanics /\ "underflow" \in GeneratePanics
  /\ "buffer full" \in GeneratePanics /\ "empty buffer" \in GeneratePanics
BY DEF UnreliableUnordered, ReliableOrdered, ErrorLevels, ConnectionErrors, GeneratePanics

\* The fields of an unreliable channel.
LEMMA ChannelFields ==
  ASSUME NEW V, NEW c \in UnreliableChannels(V)
  PROVE  /\ c.kind = UnreliableUnordered /\ ~IsReliable(c)
         /\ c.error_level \in ErrorLevels
         /\ c.processor \in UnreliableEnds(V)
         /\ c.processor.message_send_queue \in Seq(V)
         /\ c.processor.message_receive_queue \in Seq([id : Nat, message : V])
<1>1. /\ c.kind = UnreliableUnordered /\ c.error_level \in ErrorLevels
      /\ c.processor \in UnreliableEnds(V)
  BY DEF UnreliableChannels
<1>2. ~IsReliable(c)
  BY <1>1, Strings DEF IsReliable
<1> QED
  BY <1>1, <1>2 DEF UnreliableEnds

\* A channel with another processor.
LEMMA ChannelWith ==
  ASSUME NEW V, NEW c \in UnreliableChannels(V), NEW u \in UnreliableEnds(V)
  PROVE  [c EXCEPT !.processor = u] \in UnreliableChannels(V)
BY DEF UnreliableChannels

\* A processor with another queue.
LEMMA EndsWith ==
  ASSUME NEW V, NEW u \in UnreliableEnds(V), NEW s \in Seq(V),
         NEW r \in Seq([id : Nat, message : V])
  PROVE  /\ [u EXCEPT !.message_send_queue = s] \in UnreliableEnds(V)
         /\ [u EXCEPT !.message_receive_queue = r] \in UnreliableEnds(V)
BY DEF UnreliableEnds

\* send_message puts a message of V in the queue, or sets the error.
LEMMA SendKeeps ==
  ASSUME NEW V, NEW c \in UnreliableChannels(V), NEW m \in V
  PROVE  ChannelSend(c, m) \in UnreliableChannels(V)
<1>1. [c EXCEPT !.error_level = "SendQueueFull"] \in UnreliableChannels(V)
  BY Strings DEF UnreliableChannels
<1>2. UnreliableSend(c.processor, m) \in UnreliableEnds(V)
  <2> DEFINE u == c.processor
             q == u.message_send_queue
  <2>1. u \in UnreliableEnds(V) /\ q \in Seq(V)
    BY ChannelFields
  <2>2. u.message_receive_queue \in Seq([id : Nat, message : V])
    BY ChannelFields
  <2> HIDE DEF u
  <2>3. Append(q, m) \in Seq(V)
    BY <2>1
  <2>4. [u EXCEPT !.message_send_queue = Append(q, m)] \in UnreliableEnds(V)
    BY <2>1, <2>2, <2>3, EndsWith
  <2>5. UnreliableSend(u, m) = [u EXCEPT !.message_send_queue = Append(q, m)]
    BY DEF UnreliableSend
  <2> QED
    BY <2>4, <2>5 DEF u
<1>3. [c EXCEPT !.processor = UnreliableSend(c.processor, m)] \in UnreliableChannels(V)
  BY <1>2, ChannelWith
<1>4. [c EXCEPT !.processor = IF IsReliable(c) THEN EnqueueMessage(@, m)
                                               ELSE UnreliableSend(@, m)]
        = [c EXCEPT !.processor = UnreliableSend(c.processor, m)]
  BY ChannelFields
<1> QED
  BY <1>1, <1>3, <1>4 DEF ChannelSend

\* receive_message keeps the channel's messages in V.
LEMMA ReceiveKeeps ==
  ASSUME NEW V, NEW c \in UnreliableChannels(V), ChannelCanReceive(c)
  PROVE  ChannelReceive(c) \in UnreliableChannels(V)
<1> DEFINE q == c.processor.message_receive_queue
<1>1. q \in Seq([id : Nat, message : V]) /\ q # <<>>
  BY ChannelFields DEF ChannelCanReceive, UnreliableCanReceive
<1>2. Tail(q) \in Seq([id : Nat, message : V])
  <2> DEFINE E == [id : Nat, message : V]
  <2> HIDE DEF q, E
  <2>1. q \in Seq(E) /\ q # <<>>
    BY <1>1 DEF E
  <2>2. Tail(q) \in Seq(E)
    BY <2>1
  <2> QED
    BY <2>2 DEF E
<1>3. UnreliableReceive(c.processor) \in UnreliableEnds(V)
  BY <1>2, ChannelFields, EndsWith DEF UnreliableReceive
<1>4. [c EXCEPT !.processor = IF IsReliable(c) THEN DequeueMessage(@)
                                               ELSE UnreliableReceive(@)]
        = [c EXCEPT !.processor = UnreliableReceive(c.processor)]
  BY ChannelFields
<1> QED
  BY <1>3, <1>4, ChannelWith DEF ChannelReceive

\* reset keeps the channel's messages in V.
LEMMA ResetKeepsChannel ==
  ASSUME NEW V, NEW c \in UnreliableChannels(V)
  PROVE  ResetChannel(c) \in UnreliableChannels(V)
<1>1. NewUnreliable \in UnreliableEnds(V)
  BY DEF NewUnreliable, UnreliableEnds
<1>2. ResetChannel(c) = [c EXCEPT !.error_level = "None", !.processor = NewUnreliable]
  BY ChannelFields DEF ResetChannel, ResetUnreliable
<1> QED
  BY <1>1, <1>2, Strings DEF UnreliableChannels

\* advance_time does nothing to an unreliable channel.
LEMMA AdvanceKeepsChannel ==
  ASSUME NEW V, NEW c \in UnreliableChannels(V)
  PROVE  AdvanceChannel(c) = c
<1>1. AdvanceChannel(c) = [c EXCEPT !.processor = c.processor]
  BY ChannelFields DEF AdvanceChannel
<1> QED
  BY <1>1 DEF UnreliableChannels

-----------------------------------------------------------------------------
(* packet_data and process_packet_data.                                      *)

\* One round of get_packet_data, as an operator FoldTheory takes.
PackOneOf(available, unused, packed, m) == PackOne(available, packed, m)

\* The loop of get_packet_data.
Packing == INSTANCE FoldTheory WITH Op <- PackOneOf

\* get_packet_data takes its messages from the queue.
LEMMA PackedKeeps ==
  ASSUME NEW V, MeasuredMessages(V), NEW u \in UnreliableEnds(V), NEW bits \in Int
  PROVE  LET data == UnreliablePacketData(u, bits)
         IN  /\ data.channel \in UnreliableEnds(V)
             /\ data.messages \in Seq(V)
             /\ data.bits \in Int
<1> DEFINE q == u.message_send_queue
           available == Min({PacketBudget, bits})
           base == [messages |-> <<>>, used |-> MessageHeaderBits, popped |-> 0]
           D == [messages : Seq(V), used : Int, popped : Nat]
           packed == Packing!Fold(available, available, base, q)
<1>1. q \in Seq(V) /\ u.message_receive_queue \in Seq([id : Nat, message : V])
  BY DEF UnreliableEnds
<1>2. base \in D
  BY DEF MessageHeaderBits
<1>3. ASSUME NEW d \in D, NEW m \in V
      PROVE  PackOneOf(available, available, d, m) \in D
  <2>1. MeasuredBits(m) \in Int
    BY DEF MeasuredMessages
  <2>2. /\ d.messages \in Seq(V) /\ d.used \in Int /\ d.popped \in Nat
        /\ Append(d.messages, m) \in Seq(V)
        /\ d.used + MeasuredBits(m) \in Int /\ d.popped + 1 \in Nat
    BY <2>1
  <2> HIDE DEF available
  <2> QED
    BY <2>2 DEF PackOneOf, PackOne
<1> HIDE DEF base, D, available
<1>4. packed \in D
  BY <1>1, <1>2, <1>3, Packing!FoldStays
<1>5. UnreliablePacketData(u, bits)
        = [channel  |-> [u EXCEPT !.message_send_queue =
                                     SubSeq(q, packed.popped + 1, Len(q))],
           messages |-> packed.messages,
           bits     |-> IF packed.messages = <<>> THEN 0 ELSE packed.used]
  BY DEF UnreliablePacketData, PackOneOf, FoldLeft, MapThenFoldSet, Max, Packing!Fold,
         Packing!FoldLeft, Packing!MapThenFoldSet, Packing!Max, base, available
<1> HIDE DEF packed
<1>6. packed.messages \in Seq(V) /\ packed.used \in Int /\ packed.popped \in Nat
  BY <1>4 DEF D
<1>7. SubSeq(q, packed.popped + 1, Len(q)) \in Seq(V)
  <2> DEFINE n == packed.popped
  <2>1. n \in Nat /\ q \in Seq(V)
    BY <1>1, <1>6
  <2> HIDE DEF n, q
  <2>2. SubSeq(q, n + 1, Len(q)) \in Seq(V)
    BY <2>1
  <2> QED
    BY <2>2 DEF n
<1>8. [u EXCEPT !.message_send_queue = SubSeq(q, packed.popped + 1, Len(q))]
         \in UnreliableEnds(V)
  BY <1>1, <1>7, EndsWith
<1> QED
  BY <1>5, <1>6, <1>8

\* The same through the Channel.
LEMMA PacketDataKeeps ==
  ASSUME NEW V, MeasuredMessages(V), NEW c \in UnreliableChannels(V), NEW bits \in Int,
         NEW packet_sequence
  PROVE  LET data == ChannelPacketData(c, packet_sequence, bits)
         IN  /\ data.channel \in UnreliableChannels(V)
             /\ data.messages \in Seq(V)
             /\ data.bits \in Int
<1> DEFINE data == UnreliablePacketData(c.processor, bits)
<1>1. c.processor \in UnreliableEnds(V) /\ ~IsReliable(c)
  BY ChannelFields
<1>2. data.channel \in UnreliableEnds(V) /\ data.messages \in Seq(V) /\ data.bits \in Int
  BY <1>1, PackedKeeps
<1>3. \E a, b, d : data = [channel |-> a, messages |-> b, bits |-> d]
  BY DEF UnreliablePacketData
<1>4. ChannelPacketData(c, packet_sequence, bits)
        = [data EXCEPT !.channel = [c EXCEPT !.processor = data.channel]]
  BY <1>1 DEF ChannelPacketData
<1> HIDE DEF data
<1>5. [c EXCEPT !.processor = data.channel] \in UnreliableChannels(V)
  BY <1>2, ChannelWith
<1> QED
  BY <1>2, <1>3, <1>4, <1>5

\* process_packet_data puts the packet's messages in the queue and never
\* panics.
LEMMA ProcessKeeps ==
  ASSUME NEW V, NEW c \in UnreliableChannels(V), NEW messages \in Seq(V),
         NEW packet_sequence \in Nat
  PROVE  LET result == ChannelProcess(c, messages, packet_sequence)
         IN  result.channel \in UnreliableChannels(V) /\ result.panic = NoPanic
<1> DEFINE E == [id : Nat, message : V]
           u == c.processor
           q == u.message_receive_queue
           arrived == [i \in DOMAIN messages |->
                          [id |-> packet_sequence, message |-> messages[i]]]
           n == Min({ReceiveQueueSize - Len(q), Len(arrived)})
<1>1. u \in UnreliableEnds(V) /\ ~IsReliable(c) /\ u.message_send_queue \in Seq(V) /\ q \in Seq(E)
  BY ChannelFields
<1>2. arrived \in Seq(E)
  <2> DEFINE l == Len(messages)
  <2>1. l \in Nat /\ DOMAIN messages = 1 .. l /\ \A i \in 1 .. l : messages[i] \in V
    OBVIOUS
  <2>2. \A i \in DOMAIN messages : [id |-> packet_sequence, message |-> messages[i]] \in E
    BY <2>1
  <2> HIDE DEF l, E
  <2>3. arrived \in [1 .. l -> E]
    BY <2>1, <2>2
  <2> HIDE DEF arrived
  <2> QED
    BY <2>1, <2>3
<1> HIDE DEF arrived, E, q
<1>3. n \in Int /\ n <= Len(arrived)
  <2>1. ReceiveQueueSize - Len(q) \in Int /\ Len(arrived) \in Int
    BY <1>1, <1>2, ConfigAssumption, ModulusAssumption
  <2> QED
    BY <2>1 DEF Min
<1> HIDE DEF n
<1>4. SubSeq(arrived, 1, n) \in Seq(E)
  BY <1>2, <1>3
<1>5. q \o SubSeq(arrived, 1, n) \in Seq(E)
  BY <1>1, <1>4
<1>6. [u EXCEPT !.message_receive_queue = q \o SubSeq(arrived, 1, n)] \in UnreliableEnds(V)
  BY <1>1, <1>5, EndsWith DEF E
<1>7. UnreliableProcess(u, messages, packet_sequence)
        = [u EXCEPT !.message_receive_queue = q \o SubSeq(arrived, 1, n)]
  BY DEF UnreliableProcess, q, arrived, n
<1>8. [c EXCEPT !.processor = UnreliableProcess(u, messages, packet_sequence)]
         \in UnreliableChannels(V)
  BY <1>6, <1>7, ChannelWith
<1> QED
  BY <1>1, <1>8 DEF ChannelProcess

-----------------------------------------------------------------------------
(* Connections.                                                              *)

\* The channels are numbered from 1.
LEMMA Indexes ==
  /\ ChannelIndexes = 1 .. Len(Kinds) /\ Len(Kinds) \in Nat /\ Len(Kinds) >= 1
  /\ [i \in ChannelIndexes |-> i] \in Seq(ChannelIndexes)
<1> DEFINE n == Len(Kinds)
           K == {ReliableOrdered, UnreliableUnordered}
<1>1. Kinds \in Seq(K) /\ Kinds # <<>>
  BY ConnectionAssumption
<1> HIDE DEF K
<1>2. n \in Nat /\ n >= 1 /\ ChannelIndexes = 1 .. n
  BY <1>1 DEF ChannelIndexes
<1> HIDE DEF n
<1>3. [i \in 1 .. n |-> i] \in Seq(1 .. n)
  BY <1>2
<1> QED
  BY <1>2, <1>3 DEF n

\* The fields of a connection.
LEMMA ConnectionFields ==
  ASSUME NEW V, NEW conn \in Connections(V)
  PROVE  /\ conn.channels \in [ChannelIndexes -> UnreliableChannels(V)]
         /\ conn.error_level \in ConnectionErrors
         /\ \A c \in ChannelIndexes : conn.channels[c] \in UnreliableChannels(V)
         /\ DOMAIN conn.channels = ChannelIndexes
BY DEF Connections

\* A connection with another channel.
LEMMA ConnectionWith ==
  ASSUME NEW V, NEW conn \in Connections(V), NEW c \in ChannelIndexes,
         NEW ch \in UnreliableChannels(V)
  PROVE  [conn EXCEPT !.channels[c] = ch] \in Connections(V)
BY DEF Connections

\* A new connection has messages of any set, having none.
LEMMA NewConnectionGood ==
  ASSUME AllUnreliable, NEW V
  PROVE  NewConnection \in Connections(V)
<1>1. NewUnreliable \in UnreliableEnds(V)
  BY DEF NewUnreliable, UnreliableEnds
<1>2. \A c \in ChannelIndexes : NewChannel(Kinds[c]) \in UnreliableChannels(V)
  BY <1>1, Strings DEF NewChannel, UnreliableChannels, AllUnreliable
<1> QED
  BY <1>2, Strings DEF NewConnection, Connections

\* So has a reset one: nothing of the earlier session stays.
LEMMA ResetConnectionGood ==
  ASSUME NEW V, NEW conn \in Connections(V), NEW W
  PROVE  ResetConnection(conn) \in Connections(W)
<1>1. NewUnreliable \in UnreliableEnds(W)
  BY DEF NewUnreliable, UnreliableEnds
<1>2. ASSUME NEW c \in ChannelIndexes
      PROVE  ResetChannel(conn.channels[c]) \in UnreliableChannels(W)
  <2>1. conn.channels[c] \in UnreliableChannels(V)
    BY ConnectionFields
  <2> DEFINE ch == conn.channels[c]
  <2> HIDE DEF ch
  <2>2. ch \in UnreliableChannels(V)
    BY <2>1 DEF ch
  <2>3. ResetChannel(ch) = [ch EXCEPT !.error_level = "None", !.processor = NewUnreliable]
    BY <2>2, ChannelFields DEF ResetChannel, ResetUnreliable
  <2>4. ResetChannel(ch) \in UnreliableChannels(W)
    BY <1>1, <2>2, <2>3, Strings DEF UnreliableChannels
  <2> QED
    BY <2>4 DEF ch
<1> QED
  BY <1>2, Strings DEF ResetConnection, Connections

\* advance_time keeps the connection's messages in V.
LEMMA AdvanceConnectionKeeps ==
  ASSUME NEW V, NEW conn \in Connections(V)
  PROVE  AdvanceConnection(conn) \in Connections(V)
<1>1. \A c \in ChannelIndexes : /\ conn.channels[c] \in UnreliableChannels(V)
                                /\ AdvanceChannel(conn.channels[c]) = conn.channels[c]
  BY ConnectionFields, AdvanceKeepsChannel
<1>2. /\ AdvanceConnection(conn).channels \in [ChannelIndexes -> UnreliableChannels(V)]
      /\ AdvanceConnection(conn).error_level \in ConnectionErrors
  BY <1>1, ConnectionFields, Strings DEF AdvanceConnection
<1>3. \E a, b : AdvanceConnection(conn) = [channels |-> a, error_level |-> b]
  BY DEF AdvanceConnection
<1> QED
  BY <1>2, <1>3 DEF Connections

\* So does send_message with a message of V.
LEMMA ConnectionSendKeeps ==
  ASSUME NEW V, NEW conn \in Connections(V), NEW c \in ChannelIndexes, NEW m \in V
  PROVE  [conn EXCEPT !.channels[c] = ChannelSend(conn.channels[c], m)] \in Connections(V)
BY ConnectionFields, SendKeeps, ConnectionWith

\* So does receive_message.
LEMMA ConnectionReceiveKeeps ==
  ASSUME NEW V, NEW conn \in Connections(V), NEW c \in ChannelIndexes,
         ChannelCanReceive(conn.channels[c])
  PROVE  [conn EXCEPT !.channels[c] = ChannelReceive(conn.channels[c])] \in Connections(V)
BY ConnectionFields, ReceiveKeeps, ConnectionWith

\* One round of process_packet, as an operator FoldTheory takes.
ProcessEntryOf(packet_sequence, unused, state, entry) ==
    ProcessEntry(state, entry, packet_sequence)

\* The loop of process_packet.
Processing == INSTANCE FoldTheory WITH Op <- ProcessEntryOf

\* process_packet takes in the messages of the packet and no others.
LEMMA ProcessPacketKeeps ==
  ASSUME NEW V, NEW conn \in Connections(V), NEW packet_sequence \in Nat,
         NEW data \in DataOf(V)
  PROVE  ProcessPacket(conn, packet_sequence, data).connection \in Connections(V)
<1> DEFINE start == [connection |-> conn, accepted |-> TRUE, panic |-> NoPanic]
           D == [connection : Connections(V), accepted : BOOLEAN, panic : {NoPanic}]
           E == [channel_index : ChannelIndexes, messages : Seq(V)]
           folded == Processing!Fold(packet_sequence, packet_sequence, start, data)
<1>1. start \in D /\ data \in Seq(E)
  BY DEF DataOf
<1>2. ASSUME NEW d \in D, NEW e \in E
      PROVE  ProcessEntryOf(packet_sequence, packet_sequence, d, e) \in D
  <2> DEFINE index == e.channel_index
             k == d.connection
             result == ChannelProcess(k.channels[index], e.messages, packet_sequence)
  <2>1. /\ index \in ChannelIndexes /\ e.messages \in Seq(V) /\ k \in Connections(V)
        /\ d.panic = NoPanic /\ d.accepted \in BOOLEAN
    OBVIOUS
  <2>2. k.channels[index] \in UnreliableChannels(V)
    BY <2>1, ConnectionFields
  <2>3. result.channel \in UnreliableChannels(V) /\ result.panic = NoPanic
    BY <2>1, <2>2, ProcessKeeps
  <2>4. [k EXCEPT !.channels[index] = result.channel] \in Connections(V)
    BY <2>1, <2>3, ConnectionWith
  <2> DEFINE n == [connection |-> [k EXCEPT !.channels[index] = result.channel],
                   accepted   |-> result.channel.error_level = "None" /\ result.panic = NoPanic,
                   panic      |-> result.panic]
  <2>5. ProcessEntryOf(packet_sequence, packet_sequence, d, e) = d
        \/ ProcessEntryOf(packet_sequence, packet_sequence, d, e) = n
    <3>1. ~(index > Len(Kinds) + 1) /\ index # Len(Kinds) + 1
      <4> HIDE DEF index
      <4> QED
        BY <2>1, Indexes
    <3> QED
      BY <3>1 DEF ProcessEntryOf, ProcessEntry
  <2>6. n \in D
    <3> HIDE DEF k, result
    <3>1. (result.channel.error_level = "None" /\ result.panic = NoPanic) \in BOOLEAN
      OBVIOUS
    <3> QED
      BY <2>3, <2>4, <3>1
  <2> QED
    BY <2>5, <2>6
<1> HIDE DEF start, D, E
<1>3. folded \in D
  BY <1>1, <1>2, Processing!FoldStays
<1>4. ProcessPacket(conn, packet_sequence, data)
        = IF conn.error_level # "None" THEN [start EXCEPT !.accepted = FALSE] ELSE folded
  BY DEF ProcessPacket, ProcessEntryOf, FoldLeft, MapThenFoldSet, Max, Processing!Fold,
         Processing!FoldLeft, Processing!MapThenFoldSet, Processing!Max, start
<1>5. [start EXCEPT !.accepted = FALSE].connection = conn
  BY DEF start
<1>6. folded.connection \in Connections(V)
  BY <1>3 DEF D
<1> QED
  BY <1>4, <1>5, <1>6

\* One round of generate_packet, as an operator FoldTheory takes.
GenerateEntryOf(packet_sequence, unused, state, index) ==
    GenerateEntry(state, index, packet_sequence)

\* The loop of generate_packet.
Generating == INSTANCE FoldTheory WITH Op <- GenerateEntryOf

\* The state of generate_packet's loop.
Generations(V) ==
    [connection : Connections(V), data : DataOf(V), panic : GeneratePanics, available : Int]

\* Adding a channel's data to the packet.
LEMMA AddEntryKeeps ==
  ASSUME NEW V, NEW state \in Generations(V), NEW index \in ChannelIndexes,
         NEW ch \in UnreliableChannels(V), NEW messages \in Seq(V), NEW bits \in Int
  PROVE  AddEntry(state, index, [channel |-> ch, messages |-> messages, bits |-> bits])
             \in Generations(V)
<1> DEFINE result == [channel |-> ch, messages |-> messages, bits |-> bits]
           left == state.available - ChannelHeaderBits - bits
           conn == [state.connection EXCEPT !.channels[index] = ch]
           sent == [state EXCEPT !.connection.channels[index] = ch]
           entry == [channel_index |-> index, messages |-> messages]
           panic == IF Underflow(left) THEN "underflow" ELSE NoPanic
           full == [sent EXCEPT !.available = WrapUsize(left),
                                !.data = Append(@, entry), !.panic = panic]
<1>1. /\ state.connection \in Connections(V) /\ state.data \in DataOf(V)
      /\ state.panic \in GeneratePanics /\ state.available \in Int
  BY DEF Generations
<1>2. conn \in Connections(V)
  BY <1>1, ConnectionWith
<1>3. sent = [state EXCEPT !.connection = conn]
  BY DEF Generations
<1>4. AddEntry(state, index, result) = IF bits = 0 THEN sent ELSE full
  BY DEF AddEntry
<1>5. WrapUsize(left) \in Int
  <2>1. left \in Int
    BY <1>1 DEF ChannelHeaderBits
  <2>2. UsizeModulus \in Nat /\ UsizeModulus # 0
    BY ConnectionAssumption
  <2> HIDE DEF left
  <2> QED
    BY <2>1, <2>2 DEF WrapUsize
<1>6. Append(state.data, entry) \in DataOf(V)
  <2> DEFINE E == [channel_index : ChannelIndexes, messages : Seq(V)]
  <2>1. state.data \in Seq(E) /\ entry \in E
    BY <1>1 DEF DataOf
  <2> HIDE DEF E, entry
  <2>2. Append(state.data, entry) \in Seq(E)
    BY <2>1
  <2> QED
    BY <2>2 DEF DataOf, E
<1>7. panic \in GeneratePanics
  BY Strings
<1> HIDE DEF conn, entry, panic, left
<1>8. sent \in Generations(V)
  BY <1>2, <1>3 DEF Generations
<1> HIDE DEF sent
<1>9. sent.data = state.data
  BY <1>3 DEF Generations
<1>10. full \in Generations(V)
  BY <1>5, <1>6, <1>7, <1>8, <1>9 DEF Generations
<1> QED
  BY <1>4, <1>8, <1>10

\* One round keeps the messages of the connection and the packet in V.
LEMMA GenerateEntryKeeps ==
  ASSUME NEW V, MeasuredMessages(V), NEW packet_sequence,
         NEW state \in Generations(V), NEW index \in ChannelIndexes
  PROVE  GenerateEntry(state, index, packet_sequence) \in Generations(V)
<1> DEFINE c == state.connection.channels[index]
           data == ChannelPacketData(c, packet_sequence, state.available)
<1>1. c \in UnreliableChannels(V) /\ ~IsReliable(c) /\ state.available \in Int
  BY ConnectionFields, ChannelFields DEF Generations
<1>2. /\ data.channel \in UnreliableChannels(V)
      /\ data.messages \in Seq(V)
      /\ data.bits \in Int
  BY <1>1, PacketDataKeeps
<1>3. \E a, b, d : data = [channel |-> a, messages |-> b, bits |-> d]
  <2> DEFINE u == UnreliablePacketData(c.processor, state.available)
  <2>1. \E a, b, d : u = [channel |-> a, messages |-> b, bits |-> d]
    BY DEF UnreliablePacketData
  <2>2. data = [u EXCEPT !.channel = [c EXCEPT !.processor = u.channel]]
    BY <1>1 DEF ChannelPacketData
  <2> HIDE DEF u
  <2> QED
    BY <2>1, <2>2
<1> HIDE DEF c, data
<1>4. data = [channel |-> data.channel, messages |-> data.messages, bits |-> data.bits]
  BY <1>3
<1>5. AddEntry(state, index, data) \in Generations(V)
  BY <1>2, <1>4, AddEntryKeeps
<1>6. \/ GenerateEntry(state, index, packet_sequence) = state
      \/ GenerateEntry(state, index, packet_sequence) = AddEntry(state, index, data)
  BY <1>1 DEF GenerateEntry, c, data
<1> QED
  BY <1>5, <1>6

\* generate_packet leaves the channels with messages that were there, and the
\* packet has no others.
LEMMA GeneratePacketKeepsMessages ==
  ASSUME NEW V, MeasuredMessages(V), NEW conn \in Connections(V), NEW packet_sequence,
         NEW buffer_bits \in Int
  PROVE  LET generated == GeneratePacket(conn, packet_sequence, buffer_bits)
         IN  /\ generated.connection \in Connections(V)
             /\ generated.data \in DataOf(V)
<1> DEFINE base == StartPacket(conn, buffer_bits)
           order == [i \in ChannelIndexes |-> i]
           folded == Generating!Fold(packet_sequence, packet_sequence, base, order)
<1>1. base \in Generations(V)
  <2> DEFINE left == buffer_bits - PacketHeaderBits
             panic == CASE buffer_bits = 0 -> "empty buffer"
                        [] buffer_bits # 0 /\ Underflow(left) -> "underflow"
                        [] OTHER -> NoPanic
  <2>1. <<>> \in DataOf(V)
    BY DEF DataOf
  <2>2. WrapUsize(left) \in Int
    BY ConnectionAssumption DEF WrapUsize, PacketHeaderBits
  <2>3. panic \in GeneratePanics
    BY Strings
  <2>4. base = [connection |-> conn, data |-> <<>>, available |-> WrapUsize(left),
                panic |-> panic]
    BY DEF StartPacket
  <2> HIDE DEF left, panic, base
  <2> QED
    BY <2>1, <2>2, <2>3, <2>4 DEF Generations
<1>2. \A d \in Generations(V), e \in ChannelIndexes :
         GenerateEntryOf(packet_sequence, packet_sequence, d, e) \in Generations(V)
  BY GenerateEntryKeeps DEF GenerateEntryOf
<1>3. order \in Seq(ChannelIndexes)
  BY Indexes
<1> HIDE DEF base, order
<1>4. folded \in Generations(V)
  BY <1>1, <1>2, <1>3, Generating!FoldStays
<1>5. GeneratePacket(conn, packet_sequence, buffer_bits)
        = SerializePacket(folded, buffer_bits)
  BY DEF GeneratePacket, GenerateEntryOf, FoldLeft, MapThenFoldSet, Max, Generating!Fold,
         Generating!FoldLeft, Generating!MapThenFoldSet, Generating!Max, base, order
<1> HIDE DEF folded
<1>6. SerializePacket(folded, buffer_bits) \in {folded, [folded EXCEPT !.panic = "buffer full"]}
  BY DEF SerializePacket
<1> QED
  BY <1>4, <1>5, <1>6 DEF Generations

-----------------------------------------------------------------------------
(* The bits of a packet.                                                     *)

\* Adding sizes, adding an entry's bits, and taking what an entry was counted for
\* from what is left, as operators FoldTheory takes.
PlusOf(unused, none, total, bits) == total + bits
\* The same for the entries of a packet.
PlusEntryOf(check, none, total, entry) == total + SerializedBits(entry, check)
\* The same for what a packet has left.
TakenOf(unused, none, left, bits) == left - bits - ChannelHeaderBits

\* The sum of SerializedBits.
Adding == INSTANCE FoldTheory WITH Op <- PlusOf
\* The sum of PacketBits.
Writing == INSTANCE FoldTheory WITH Op <- PlusEntryOf
\* What generate_packet has left.
Spending == INSTANCE FoldTheory WITH Op <- TakenOf

\* The bits of one message of this channel.
MessageBits(index, m, check) ==
    IF Kinds[index] = ReliableOrdered THEN MessageIdBits + MeasuredBits(m.message) + check
                                      ELSE MeasuredBits(m) + check

\* An entry of a packet.
EntryOf(index, messages) == [channel_index |-> index, messages |-> messages]

\* The bits counted for an entry.
CountedFor(index, messages) == SerializedBits(EntryOf(index, messages), 0)

\* They are a sum over the messages.
LEMMA CountedIsSum ==
  ASSUME NEW index, NEW messages
  PROVE  CountedFor(index, messages)
            = Adding!Fold(0, 0, 16 + 8 + 8 + (IF Kinds[index] = ReliableOrdered THEN 0 ELSE 0),
                          [i \in DOMAIN messages |-> MessageBits(index, messages[i], 0)])
BY DEF CountedFor, SerializedBits, EntryOf, PlusOf, MessageBits, FoldLeft, MapThenFoldSet, Max,
       Adding!Fold, Adding!FoldLeft, Adding!MapThenFoldSet, Adding!Max

\* Without messages they are those of the header.
LEMMA CountedEmpty ==
  ASSUME NEW index
  PROVE  CountedFor(index, <<>>) = MessageHeaderBits
<1> DEFINE base == 16 + 8 + 8 + (IF Kinds[index] = ReliableOrdered THEN 0 ELSE 0)
           size(s) == MessageBits(index, s, 0)
           sizes(ms) == [i \in DOMAIN ms |-> size(ms[i])]
<1>1. base = 32 /\ MessageHeaderBits = 32
  BY DEF MessageHeaderBits
<1> HIDE DEF base, size
<1>2. Adding!Fold(0, 0, base, <<>>) = base
  BY Adding!FoldOfNone
<1>3. sizes(<<>>) = <<>>
  OBVIOUS
<1>4. CountedFor(index, <<>>) = Adding!Fold(0, 0, base, sizes(<<>>))
  BY CountedIsSum DEF base, size
<1> HIDE DEF sizes
<1> QED
  BY <1>1, <1>2, <1>3, <1>4

\* A message more adds its bits.
LEMMA CountedAppend ==
  ASSUME NEW index, NEW S, NEW messages \in Seq(S), NEW m \in S,
         \A s \in S : MessageBits(index, s, 0) \in Int
  PROVE  /\ CountedFor(index, messages) \in Int
         /\ CountedFor(index, Append(messages, m))
               = CountedFor(index, messages) + MessageBits(index, m, 0)
<1> DEFINE base == 16 + 8 + 8 + (IF Kinds[index] = ReliableOrdered THEN 0 ELSE 0)
           size(s) == MessageBits(index, s, 0)
           sizes(ms) == [i \in DOMAIN ms |-> size(ms[i])]
<1>1. base = 32 /\ base \in Int
  OBVIOUS
<1>2. \A s \in S : size(s) \in Int
  OBVIOUS
<1> HIDE DEF base, size
<1>3. sizes(messages) \in Seq(Int)
  <2> DEFINE n == Len(messages)
  <2>1. n \in Nat /\ DOMAIN messages = 1 .. n /\ \A i \in 1 .. n : messages[i] \in S
    OBVIOUS
  <2> HIDE DEF n
  <2>2. sizes(messages) \in [1 .. n -> Int]
    BY <1>2, <2>1
  <2> HIDE DEF sizes
  <2> QED
    BY <2>1, <2>2
<1>4. sizes(Append(messages, m)) = Append(sizes(messages), size(m))
  <2> DEFINE n == Len(messages)
             longer == Append(messages, m)
  <2>1. /\ n \in Nat /\ DOMAIN messages = 1 .. n /\ DOMAIN longer = 1 .. n + 1
        /\ longer[n + 1] = m /\ \A i \in 1 .. n : longer[i] = messages[i]
    OBVIOUS
  <2> HIDE DEF n, longer
  <2>2. sizes(longer) = [i \in 1 .. n + 1 |-> IF i = n + 1 THEN size(m) ELSE size(messages[i])]
    BY <2>1
  <2>3. /\ Len(sizes(messages)) = n
        /\ \A i \in 1 .. n : sizes(messages)[i] = size(messages[i])
    BY <2>1
  <2> DEFINE t == sizes(messages)
  <2> HIDE DEF sizes
  <2>4. t \in Seq(Int) /\ Len(t) = n /\ size(m) \in Int
    BY <1>2, <1>3, <2>3
  <2> HIDE DEF t
  <2>5. Append(t, size(m)) = [i \in 1 .. n + 1 |-> IF i = n + 1 THEN size(m) ELSE t[i]]
    <3> DEFINE v == size(m)
    <3>1. v \in Int
      BY <2>4
    <3> HIDE DEF v
    <3> DEFINE l == Append(t, v)
    <3>2. /\ l \in Seq(Int) /\ Len(l) = n + 1 /\ DOMAIN l = 1 .. n + 1
          /\ \A i \in 1 .. n + 1 : l[i] = IF i = n + 1 THEN v ELSE t[i]
      BY <2>1, <2>4, <3>1
    <3> HIDE DEF l
    <3>3. l = [i \in 1 .. n + 1 |-> l[i]]
      BY <3>2
    <3>4. l = [i \in 1 .. n + 1 |-> IF i = n + 1 THEN v ELSE t[i]]
      BY <3>2, <3>3
    <3> QED
      BY <3>4 DEF v, l
  <2>6. \A i \in 1 .. n + 1 : i # n + 1 => t[i] = size(messages[i])
    BY <2>1, <2>3 DEF t
  <2> QED
    BY <2>2, <2>5, <2>6 DEF t, longer
<1>5. \A d \in Int, x \in Int : PlusOf(0, 0, d, x) \in Int
  BY DEF PlusOf
<1>6. /\ Adding!Fold(0, 0, base, sizes(messages)) \in Int
      /\ Adding!Fold(0, 0, base, Append(sizes(messages), size(m)))
            = Adding!Fold(0, 0, base, sizes(messages)) + size(m)
  <2> DEFINE t == sizes(messages)
             v == size(m)
  <2> HIDE DEF t, v
  <2>1. t \in Seq(Int) /\ v \in Int
    BY <1>2, <1>3 DEF t, v
  <2>2. Adding!StepsOn(0, 0, Int, Int, base, t, v)
    BY <1>1, <1>5, <2>1, Adding!FoldAppend
  <2> QED
    BY <2>2 DEF t, v, PlusOf, Adding!StepsOn
<1>7. \A ms : CountedFor(index, ms) = Adding!Fold(0, 0, base, sizes(ms))
  BY CountedIsSum DEF base, size
<1> HIDE DEF sizes
<1> QED
  BY <1>4, <1>6, <1>7 DEF size

\* The room for every channel's budget and a header each.
Room(buffer_bits) ==
    buffer_bits >= PacketHeaderBits + Len(Kinds) * (PacketBudget + ChannelHeaderBits)

\* What a channel answers when packet_data is asked with this many bits left: it
\* stays in K, and the messages it gives make an entry of X that was counted
\* with the bits it takes, no more than there were.
Answers(K, X, index, offered, data) ==
    /\ data.channel \in K
    /\ data = [channel |-> data.channel, messages |-> data.messages, bits |-> data.bits]
    /\ data.bits \in Nat
    /\ data.bits # 0 => /\ EntryOf(index, data.messages) \in X
                        /\ data.bits = CountedFor(index, data.messages)
                        /\ data.bits <= offered

\* Entries that keep within the budget of their channels.
Budgeted(X) == \A x \in X : /\ x.channel_index \in ChannelIndexes
                            /\ SerializedBits(x, 0) \in Nat
                            /\ SerializedBits(x, 0) <= PacketBudget

\* The bits counted for the entries of a packet.
CountsOf(data) == [k \in DOMAIN data |-> SerializedBits(data[k], 0)]

\* What generate_packet has left after entries that were counted for so much.
Left(buffer_bits, counts) ==
    Spending!Fold(0, 0, buffer_bits - PacketHeaderBits, counts)

\* The empty packet has its header and leaves the rest.
LEMMA EmptyPacketBits ==
  ASSUME NEW buffer_bits \in Int
  PROVE  /\ PacketBits(<<>>) = PacketHeaderBits
         /\ Left(buffer_bits, <<>>) = buffer_bits - PacketHeaderBits
         /\ CountsOf(<<>>) = <<>>
<1>1. PacketBits(<<>>) = Writing!Fold(CheckBits, CheckBits, PacketHeaderBits, <<>>)
  BY DEF PacketBits, PlusEntryOf, FoldLeft, MapThenFoldSet, Max, Writing!Fold,
         Writing!FoldLeft, Writing!MapThenFoldSet, Writing!Max
<1>2. PacketBits(<<>>) = PacketHeaderBits
  BY <1>1, Writing!FoldOfNone
<1>3. Left(buffer_bits, <<>>) = buffer_bits - PacketHeaderBits
  BY Spending!FoldOfNone DEF Left
<1>4. CountsOf(<<>>) = <<>>
  BY DEF CountsOf
<1> QED
  BY <1>2, <1>3, <1>4

\* The counts of a packet with one entry more.
LEMMA CountsAppend ==
  ASSUME NEW X, Budgeted(X), NEW data \in Seq(X), NEW x \in X
  PROVE  /\ CountsOf(data) \in Seq(Int) /\ Len(CountsOf(data)) = Len(data)
         /\ SerializedBits(x, 0) \in Nat
         /\ CountsOf(Append(data, x)) = Append(CountsOf(data), SerializedBits(x, 0))
<1> DEFINE n == Len(data)
           longer == Append(data, x)
           size(y) == SerializedBits(y, 0)
           t == CountsOf(data)
           v == size(x)
<1>1. /\ n \in Nat /\ DOMAIN data = 1 .. n /\ DOMAIN longer = 1 .. n + 1
      /\ longer[n + 1] = x /\ \A i \in 1 .. n : longer[i] = data[i] /\ data[i] \in X
  OBVIOUS
<1>2. \A y \in X : size(y) \in Nat /\ size(y) \in Int
  BY DEF Budgeted
<1> HIDE DEF longer, size
<1>3. t = [i \in 1 .. n |-> size(data[i])]
  BY <1>1 DEF CountsOf, size
<1>4. CountsOf(longer) = [i \in 1 .. n + 1 |-> size(longer[i])]
  BY <1>1 DEF CountsOf, size
<1> HIDE DEF n
<1>5. t \in Seq(Int) /\ Len(t) = n /\ \A i \in 1 .. n : t[i] = size(data[i])
  <2>1. \A i \in 1 .. n : size(data[i]) \in Int
    BY <1>1, <1>2
  <2>2. t \in [1 .. n -> Int]
    BY <1>3, <2>1
  <2> HIDE DEF t
  <2> QED
    BY <1>1, <1>3, <2>2
<1>6. v \in Nat /\ v \in Int
  BY <1>2
<1> HIDE DEF t, v
<1>7. Append(t, v) = CountsOf(longer)
  <2> DEFINE l == Append(t, v)
  <2>1. /\ l \in Seq(Int) /\ Len(l) = n + 1 /\ DOMAIN l = 1 .. n + 1
        /\ \A i \in 1 .. n + 1 : l[i] = IF i = n + 1 THEN v ELSE t[i]
    BY <1>1, <1>5, <1>6
  <2> HIDE DEF l
  <2>2. l = [i \in 1 .. n + 1 |-> l[i]]
    BY <2>1
  <2>3. \A i \in 1 .. n + 1 : l[i] = size(longer[i])
    <3> TAKE i \in 1 .. n + 1
    <3>1. CASE i = n + 1
      BY <1>1, <2>1, <3>1 DEF v
    <3>2. CASE i # n + 1
      <4>1. i \in 1 .. n
        BY <1>1, <3>2
      <4> QED
        BY <1>1, <1>5, <2>1, <3>2, <4>1
    <3> QED
      BY <3>1, <3>2
  <2> QED
    BY <1>4, <2>2, <2>3 DEF l
<1> QED
  BY <1>5, <1>6, <1>7 DEF t, v, longer, size, n

\* An entry more in the packet: what it takes, and what is left.
LEMMA EntryAppend ==
  ASSUME NEW X, Budgeted(X), NEW data \in Seq(X), NEW x \in X, NEW buffer_bits \in Int
  PROVE  /\ Left(buffer_bits, CountsOf(data)) \in Int
         /\ Left(buffer_bits, CountsOf(Append(data, x)))
               = Left(buffer_bits, CountsOf(data)) - SerializedBits(x, 0) - ChannelHeaderBits
<1> DEFINE t == CountsOf(data)
           v == SerializedBits(x, 0)
           base == buffer_bits - PacketHeaderBits
<1>1. t \in Seq(Int) /\ v \in Int /\ CountsOf(Append(data, x)) = Append(t, v)
  BY CountsAppend
<1>2. base \in Int
  BY DEF PacketHeaderBits
<1>3. \A d \in Int, e \in Int : TakenOf(0, 0, d, e) \in Int
  BY DEF TakenOf, ChannelHeaderBits
<1> HIDE DEF t, v, base
<1>4. Spending!StepsOn(0, 0, Int, Int, base, t, v)
  BY <1>1, <1>2, <1>3, Spending!FoldAppend
<1>5. /\ Spending!Fold(0, 0, base, t) \in Int
      /\ Spending!Fold(0, 0, base, Append(t, v)) = TakenOf(0, 0, Spending!Fold(0, 0, base, t), v)
  BY <1>4 DEF Spending!StepsOn
<1> QED
  BY <1>1, <1>5 DEF Left, t, v, base, TakenOf

\* An entry more without check values is written with the bits it was counted
\* for.
LEMMA PacketBitsAppend ==
  ASSUME CheckBits = 0, NEW X, Budgeted(X), NEW data \in Seq(X), NEW x \in X
  PROVE  /\ PacketBits(data) \in Int
         /\ PacketBits(Append(data, x)) = PacketBits(data) + SerializedBits(x, 0)
<1>1. \A s : PacketBits(s) = Writing!Fold(CheckBits, CheckBits, PacketHeaderBits, s)
  BY DEF PacketBits, PlusEntryOf, FoldLeft, MapThenFoldSet, Max, Writing!Fold,
         Writing!FoldLeft, Writing!MapThenFoldSet, Writing!Max
<1>2. PacketHeaderBits \in Int
  BY DEF PacketHeaderBits
<1>3. \A d \in Int, e \in X : PlusEntryOf(CheckBits, CheckBits, d, e) \in Int
  BY DEF PlusEntryOf, Budgeted
<1>4. Writing!StepsOn(CheckBits, CheckBits, Int, X, PacketHeaderBits, data, x)
  BY <1>2, <1>3, Writing!FoldAppend
<1>5. /\ Writing!Fold(CheckBits, CheckBits, PacketHeaderBits, data) \in Int
      /\ Writing!Fold(CheckBits, CheckBits, PacketHeaderBits, Append(data, x))
            = PlusEntryOf(CheckBits, CheckBits,
                          Writing!Fold(CheckBits, CheckBits, PacketHeaderBits, data), x)
  BY <1>4 DEF Writing!StepsOn
<1> QED
  BY <1>1, <1>5 DEF PlusEntryOf

\* The state of generate_packet's loop, for a connection whose i-th channel is
\* one of K[i] and packets with entries of X; C is all channels of K.
BudgetStates(C, K, X) ==
    {state \in [connection : [channels : [ChannelIndexes -> C], error_level : ConnectionErrors],
                data : Seq(X), panic : GeneratePanics, available : Int] :
        \A i \in ChannelIndexes : state.connection.channels[i] \in K[i]}

\* The entries are those of different channels up to the k-th, in their order.
InOrder(data, k) ==
    /\ \A a, b \in DOMAIN data : a < b => data[a].channel_index < data[b].channel_index
    /\ \A a \in DOMAIN data : data[a].channel_index <= k

\* The channels after the k-th are as they were.
Untouched(channels, before, k) ==
    \A i \in ChannelIndexes : i > k => channels[i] = before[i]

\* No entry took more than was left before it, the packet fits its buffer, and if
\* there was room for every channel's budget there is for those to come.
Spent(state, buffer_bits, to_come) ==
    (OverflowChecks \/ Room(buffer_bits)) /\ state.panic = NoPanic =>
        /\ state.available = Left(buffer_bits, CountsOf(state.data))
        /\ state.available \in 0 .. buffer_bits
        /\ PacketBits(state.data) + state.available <= buffer_bits
        /\ \A a \in DOMAIN state.data :
              SerializedBits(state.data[a], 0)
                <= Left(buffer_bits, SubSeq(CountsOf(state.data), 1, a - 1))
        /\ Room(buffer_bits) =>
              state.available >= to_come * (PacketBudget + ChannelHeaderBits)

\* Every channel up to the k-th was offered its budget and what it answered is in
\* the packet.
Offers(before, packet_sequence, data, k) ==
    \A i \in ChannelIndexes : i <= k =>
        \E bits \in Int :
            LET answer == ChannelPacketData(before[i], packet_sequence, bits)
            IN  /\ bits >= PacketBudget
                /\ answer.bits # 0 =>
                      \E a \in DOMAIN data : data[a] = EntryOf(i, answer.messages)

\* The fields of such a state.
LEMMA BudgetFields ==
  ASSUME NEW C, NEW K, NEW X, NEW state \in BudgetStates(C, K, X)
  PROVE  /\ state.connection \in [channels : [ChannelIndexes -> C], error_level : ConnectionErrors]
         /\ state.connection.channels \in [ChannelIndexes -> C]
         /\ state.connection.error_level \in ConnectionErrors
         /\ state.data \in Seq(X) /\ state.panic \in GeneratePanics /\ state.available \in Int
         /\ \A i \in ChannelIndexes : state.connection.channels[i] \in K[i]
         /\ state = [connection |-> state.connection, data |-> state.data,
                     panic |-> state.panic, available |-> state.available]
BY DEF BudgetStates

\* AddEntry, field by field.
AddsEntry(C, K, state, i, data) ==
    LET next == AddEntry(state, i, data)
        left == state.available - ChannelHeaderBits - data.bits
    IN  /\ next.connection.channels = [state.connection.channels EXCEPT ![i] = data.channel]
        /\ next.connection \in [channels : [ChannelIndexes -> C], error_level : ConnectionErrors]
        /\ \A j \in ChannelIndexes : next.connection.channels[j] \in K[j]
        /\ next = [connection |-> next.connection, data |-> next.data,
                   panic |-> next.panic, available |-> next.available]
        /\ data.bits = 0 => /\ next.data = state.data /\ next.panic = state.panic
                            /\ next.available = state.available
        /\ data.bits # 0 => /\ next.data = Append(state.data, EntryOf(i, data.messages))
                            /\ next.panic = IF Underflow(left) THEN "underflow" ELSE NoPanic
                            /\ next.available = WrapUsize(left)

\* What the channel answered is its data.
LEMMA AddEntryFields ==
  ASSUME NEW C, NEW K, NEW X, NEW state \in BudgetStates(C, K, X), NEW i \in ChannelIndexes,
         NEW offered, NEW data, Answers(K[i], X, i, offered, data), K[i] \subseteq C
  PROVE  AddsEntry(C, K, state, i, data)
<1> DEFINE chs == state.connection.channels
           level == state.connection.error_level
           d == state.data
           p == state.panic
           l == state.available
           ch == data.channel
           ms == data.messages
           bits == data.bits
           left == l - ChannelHeaderBits - bits
           k == [channels |-> [chs EXCEPT ![i] = ch], error_level |-> level]
           panic == IF Underflow(left) THEN "underflow" ELSE NoPanic
           none == [connection |-> k, data |-> d, panic |-> p, available |-> l]
           full == [connection |-> k, data |-> Append(d, EntryOf(i, ms)), panic |-> panic,
                    available |-> WrapUsize(left)]
           state0 == [connection |-> [channels |-> chs, error_level |-> level], data |-> d,
                      panic |-> p, available |-> l]
<1>1. /\ chs \in [ChannelIndexes -> C] /\ level \in ConnectionErrors
      /\ \A j \in ChannelIndexes : chs[j] \in K[j]
      /\ state.connection = [channels |-> chs, error_level |-> level]
      /\ state = [connection |-> state.connection, data |-> d, panic |-> p, available |-> l]
  BY BudgetFields
<1>2. state = state0
  BY <1>1
<1>3. ch \in K[i] /\ ch \in C
  BY DEF Answers
<1> HIDE DEF chs, level, d, p, l, ch, ms, bits
<1>4. AddEntry(state, i, data) = IF bits = 0 THEN none ELSE full
  <2> DEFINE s == state0
             sent == [s EXCEPT !.connection.channels[i] = ch]
  <2>1. sent = none
    OBVIOUS
  <2>2. AddEntry(s, i, data)
          = IF bits = 0 THEN sent
            ELSE [sent EXCEPT !.available = WrapUsize(left),
                              !.data = Append(@, EntryOf(i, ms)), !.panic = panic]
    BY DEF AddEntry, EntryOf, ch, ms, bits
  <2> HIDE DEF panic, k, left
  <2>3. [none EXCEPT !.available = WrapUsize(left), !.data = Append(@, EntryOf(i, ms)),
                     !.panic = panic] = full
    <3> DEFINE v == WrapUsize(left)
               e == EntryOf(i, ms)
               w == Append(d, e)
    <3> HIDE DEF v, e, w
    <3>1. [[connection |-> k, data |-> d, panic |-> p, available |-> l]
              EXCEPT !.available = v, !.data = w, !.panic = panic]
            = [connection |-> k, data |-> w, panic |-> panic, available |-> v]
      <4>1. [[connection |-> k, data |-> d, panic |-> p, available |-> l] EXCEPT !.available = v]
              = [connection |-> k, data |-> d, panic |-> p, available |-> v]
        OBVIOUS
      <4>2. [[connection |-> k, data |-> d, panic |-> p, available |-> v] EXCEPT !.data = w]
              = [connection |-> k, data |-> w, panic |-> p, available |-> v]
        OBVIOUS
      <4>3. [[connection |-> k, data |-> w, panic |-> p, available |-> v] EXCEPT !.panic = panic]
              = [connection |-> k, data |-> w, panic |-> panic, available |-> v]
        OBVIOUS
      <4> QED
        BY <4>1, <4>2, <4>3
    <3> QED
      BY <3>1 DEF v, e, w
  <2> HIDE DEF sent, none, full, s
  <2> QED
    BY <1>2, <2>1, <2>2, <2>3 DEF s
<1>5. /\ k \in [channels : [ChannelIndexes -> C], error_level : ConnectionErrors]
      /\ \A j \in ChannelIndexes : k.channels[j] \in K[j]
  BY <1>1, <1>3
<1> HIDE DEF panic, left
<1>6. CASE bits = 0
  BY <1>4, <1>5, <1>6 DEF chs, level, d, p, l, ch, ms, bits, AddsEntry
<1>7. CASE bits # 0
  BY <1>4, <1>5, <1>7 DEF chs, level, d, p, l, ch, ms, bits, panic, left, AddsEntry
<1> QED
  BY <1>6, <1>7

\* A shorter piece of a sequence does not see what is appended.
LEMMA PieceOfAppend ==
  ASSUME NEW E, NEW t \in Seq(E), NEW v \in E
  PROVE  /\ \A a \in 1 .. Len(t) : SubSeq(Append(t, v), 1, a - 1) = SubSeq(t, 1, a - 1)
         /\ SubSeq(Append(t, v), 1, Len(t)) = t
<1> DEFINE n == Len(t)
           l == Append(t, v)
<1>1. /\ n \in Nat /\ l \in Seq(E) /\ Len(l) = n + 1 /\ \A a \in 1 .. n : l[a] = t[a]
      /\ t = [j \in 1 .. n |-> t[j]]
  OBVIOUS
<1> HIDE DEF n, l
<1>2. \A a \in 0 .. n : SubSeq(l, 1, a) = [j \in 1 .. a |-> t[j]]
  <2> TAKE a \in 0 .. n
  <2>1. a \in Nat /\ a <= n
    BY <1>1
  <2>2. SubSeq(l, 1, a) = [j \in 1 .. a |-> l[j]]
    BY <1>1, <2>1
  <2>3. \A j \in 1 .. a : j \in 1 .. n
    BY <1>1, <2>1
  <2>4. \A j \in 1 .. a : l[j] = t[j]
    BY <1>1, <2>3
  <2> QED
    BY <2>2, <2>4
<1>3. \A a \in 0 .. n : SubSeq(t, 1, a) = [j \in 1 .. a |-> t[j]]
  <2> TAKE a \in 0 .. n
  <2>1. a \in Nat /\ a <= n
    BY <1>1
  <2> QED
    BY <1>1, <2>1 DEF n
<1>4. \A a \in 1 .. n : a - 1 \in 0 .. n
  BY <1>1
<1> QED
  BY <1>1, <1>2, <1>3, <1>4 DEF n, l

\* A number of channels' budgets, one by one.
LEMMA BudgetsLeft ==
  ASSUME NEW n \in Nat, NEW b \in Nat
  PROVE  (n + 1) * b = n * b + b /\ n * b >= 0
OBVIOUS

\* A turn of the loop: the channel takes no more than was left.
LEMMA SpentStep ==
  ASSUME CheckBits = 0, NEW C, NEW K, NEW X, Budgeted(X),
         NEW state \in BudgetStates(C, K, X), state.panic = NoPanic,
         NEW i \in ChannelIndexes, K[i] \subseteq C,
         NEW data, Answers(K[i], X, i, state.available, data),
         NEW buffer_bits \in Int, UsizeModulus > buffer_bits,
         NEW to_come \in Nat, Spent(state, buffer_bits, to_come + 1)
  PROVE  /\ Spent(AddEntry(state, i, data), buffer_bits, to_come)
         /\ Room(buffer_bits) => AddEntry(state, i, data).panic = NoPanic
<1> DEFINE next == AddEntry(state, i, data)
           x == EntryOf(i, data.messages)
           c == SerializedBits(x, 0)
           d == state.data
           t == CountsOf(d)
           n == Len(d)
           available == state.available
           left == available - ChannelHeaderBits - data.bits
           budget == PacketBudget + ChannelHeaderBits
<1>1. SUFFICES ASSUME OverflowChecks \/ Room(buffer_bits)
      PROVE  /\ Spent(next, buffer_bits, to_come)
             /\ Room(buffer_bits) => next.panic = NoPanic
  BY DEF Spent
<1>2. d \in Seq(X) /\ available \in Int
  BY BudgetFields
<1>3. /\ available = Left(buffer_bits, t)
      /\ available \in 0 .. buffer_bits
      /\ PacketBits(d) + available <= buffer_bits
      /\ \A a \in DOMAIN d : SerializedBits(d[a], 0) <= Left(buffer_bits, SubSeq(t, 1, a - 1))
      /\ Room(buffer_bits) => available >= (to_come + 1) * budget
  BY <1>1 DEF Spent
<1>4. /\ budget \in Nat /\ (to_come + 1) * budget = to_come * budget + budget
      /\ to_come * budget \in Nat /\ PacketBudget \in Nat
  <2>1. budget \in Nat /\ PacketBudget \in Nat
    BY ConfigAssumption DEF ChannelHeaderBits
  <2> HIDE DEF budget
  <2> QED
    BY <2>1, BudgetsLeft
<1>5. AddsEntry(C, K, state, i, data)
  BY AddEntryFields
<1>6. CASE data.bits = 0
  <2>1. next.data = d /\ next.panic = NoPanic /\ next.available = available
    BY <1>6, <1>5 DEF AddsEntry
  <2>2. Room(buffer_bits) => available >= to_come * budget
    <3> HIDE DEF available, budget
    <3> QED
      BY <1>2, <1>3, <1>4
  <2> HIDE DEF next
  <2> QED
    BY <1>3, <2>1, <2>2 DEF Spent
<1>7. CASE data.bits # 0
  <2>1. x \in X /\ data.bits = c /\ c <= available
    BY <1>7 DEF Answers, CountedFor
  <2>2. c \in Nat /\ c <= PacketBudget
    BY <2>1 DEF Budgeted
  <2>3. /\ next.data = Append(d, x) /\ next.available = WrapUsize(left)
        /\ next.panic = IF Underflow(left) THEN "underflow" ELSE NoPanic
    BY <1>7, <1>5 DEF AddsEntry
  <2>4. left = available - 32 - c /\ left \in Int /\ left < UsizeModulus /\ left <= buffer_bits
    <3> HIDE DEF c, available
    <3>1. UsizeModulus \in Nat
      BY ConnectionAssumption
    <3> QED
      BY <1>2, <1>3, <2>1, <2>2, <3>1 DEF ChannelHeaderBits
  <2>5. Room(buffer_bits) => left >= to_come * budget
    <3> DEFINE rest == to_come * budget
               more == (to_come + 1) * budget
    <3>1. /\ budget = PacketBudget + 32 /\ more = rest + budget
          /\ rest \in Nat /\ PacketBudget \in Nat
      BY <1>4 DEF ChannelHeaderBits
    <3>2. Room(buffer_bits) => available >= more
      BY <1>3
    <3> HIDE DEF c, available, left, budget, rest, more
    <3>3. Room(buffer_bits) => left >= rest
      BY <1>2, <2>2, <2>4, <3>1, <3>2
    <3> QED
      BY <3>3 DEF rest
  <2>6. Room(buffer_bits) => next.panic = NoPanic
    <3> HIDE DEF left, budget, next
    <3> QED
      BY <1>4, <2>3, <2>4, <2>5 DEF Underflow
  <2>7. ASSUME next.panic = NoPanic PROVE Spent(next, buffer_bits, to_come)
    <3>1. left >= 0
      <4>1. CASE Room(buffer_bits)
        <5> HIDE DEF left, budget, next
        <5> QED
          BY <1>4, <2>4, <2>5, <4>1
      <4>2. CASE ~Room(buffer_bits)
        <5>1. ~(left < 0)
          BY <1>1, <2>3, <2>7, <4>2 DEF Underflow, NoPanic
        <5> HIDE DEF left
        <5> QED
          BY <2>4, <5>1
      <4> QED
        BY <4>1, <4>2
    <3>2. next.available = left
      <4> HIDE DEF left
      <4>1. ~(left < 0)
        BY <2>4, <3>1
      <4> QED
        BY <2>3, <4>1 DEF WrapUsize
    <3>3. /\ t \in Seq(Int) /\ Len(t) = n /\ c \in Int /\ n \in Nat
          /\ CountsOf(next.data) = Append(t, c)
      BY <1>2, <2>1, <2>3, CountsAppend
    <3>4. Left(buffer_bits, CountsOf(next.data)) = left
      <4>1. Left(buffer_bits, CountsOf(Append(d, x)))
              = Left(buffer_bits, t) - SerializedBits(x, 0) - ChannelHeaderBits
        BY <1>2, <2>1, EntryAppend
      <4> HIDE DEF c, available, left
      <4> QED
        BY <1>2, <1>3, <2>2, <2>3, <2>4, <4>1 DEF ChannelHeaderBits, c
    <3>5. PacketBits(next.data) + left <= buffer_bits
      <4>1. PacketBits(d) \in Int /\ PacketBits(next.data) = PacketBits(d) + c
        BY <1>2, <2>1, <2>3, PacketBitsAppend
      <4> HIDE DEF c, available, left
      <4> QED
        BY <1>2, <1>3, <2>2, <2>4, <4>1
    <3>6. ASSUME NEW a \in DOMAIN next.data
          PROVE  SerializedBits(next.data[a], 0)
                    <= Left(buffer_bits, SubSeq(CountsOf(next.data), 1, a - 1))
      <4> HIDE DEF c, t
      <4>1. /\ \A b \in 1 .. n : SubSeq(Append(t, c), 1, b - 1) = SubSeq(t, 1, b - 1)
            /\ SubSeq(Append(t, c), 1, n) = t
        BY <3>3, PieceOfAppend
      <4>2. /\ DOMAIN d = 1 .. n /\ DOMAIN next.data = 1 .. n + 1
            /\ \A b \in 1 .. n : next.data[b] = d[b]
            /\ next.data[n + 1] = x
        <5> DEFINE l == next.data
        <5> HIDE DEF l
        <5>1. l = Append(d, x) /\ d \in Seq(X) /\ x \in X
          BY <1>2, <2>1, <2>3 DEF l
        <5> HIDE DEF d, x
        <5> QED
          BY <5>1 DEF l
      <4>3. CASE a \in 1 .. n
        BY <1>3, <3>3, <4>1, <4>2, <4>3
      <4>4. CASE a = n + 1
        <5>1. a - 1 = n
          BY <3>3, <4>4
        <5>2. SubSeq(CountsOf(next.data), 1, a - 1) = t /\ next.data[a] = x
          BY <3>3, <4>1, <4>2, <4>4, <5>1
        <5> QED
          BY <1>3, <2>1, <5>2 DEF c
      <4> QED
        BY <3>3, <4>2, <4>3, <4>4
    <3>7. left \in 0 .. buffer_bits
      <4> HIDE DEF left
      <4> QED
        BY <2>4, <3>1
    <3> HIDE DEF next, left, budget
    <3> QED
      BY <2>5, <3>2, <3>4, <3>5, <3>6, <3>7 DEF Spent, budget
  <2>8. next.panic # NoPanic => Spent(next, buffer_bits, to_come)
    BY DEF Spent
  <2> QED
    BY <2>6, <2>7, <2>8
<1> QED
  BY <1>6, <1>7

\* Whatever they are asked for, the channels answer so.
Answering(C, K, X, packet_sequence) ==
    /\ Budgeted(X)
    /\ \A i \in ChannelIndexes : K[i] \subseteq C
    /\ \A i \in ChannelIndexes, bits \in Int : \A c \in K[i] :
          Answers(K[i], X, i, bits, ChannelPacketData(c, packet_sequence, bits))

\* There is room for all, and no channel subtracts a header from less.
Calm(before, buffer_bits) ==
    /\ Room(buffer_bits)
    /\ \/ PacketBudget >= MessageHeaderBits
       \/ \A i \in ChannelIndexes : ~IsReliable(before[i])

\* What holds after k channels.
AfterChannels(before, packet_sequence, buffer_bits, state, k) ==
    /\ InOrder(state.data, k)
    /\ Untouched(state.connection.channels, before, k)
    /\ Spent(state, buffer_bits, Len(Kinds) - k)
    /\ Calm(before, buffer_bits) =>
          /\ state.panic = NoPanic
          /\ Offers(before, packet_sequence, state.data, k)

\* Adding an entry stays among the states.
LEMMA AddEntryStays ==
  ASSUME NEW C, NEW K, NEW X, NEW state \in BudgetStates(C, K, X), NEW i \in ChannelIndexes,
         NEW offered, NEW data, Answers(K[i], X, i, offered, data), K[i] \subseteq C
  PROVE  AddEntry(state, i, data) \in BudgetStates(C, K, X)
<1> DEFINE next == AddEntry(state, i, data)
           left == state.available - ChannelHeaderBits - data.bits
           x == EntryOf(i, data.messages)
<1>1. AddsEntry(C, K, state, i, data)
  BY AddEntryFields
<1>2. state.data \in Seq(X) /\ state.panic \in GeneratePanics /\ state.available \in Int
  BY BudgetFields
<1>3. left \in Int /\ UsizeModulus \in Nat \ {0}
  BY <1>2, ConnectionAssumption DEF Answers, ChannelHeaderBits
<1>4. WrapUsize(left) \in Int
  <2> HIDE DEF left
  <2> QED
    BY <1>3 DEF WrapUsize
<1>5. data.bits # 0 => Append(state.data, x) \in Seq(X)
  <2> HAVE data.bits # 0
  <2>1. x \in X
    BY DEF Answers
  <2> HIDE DEF x
  <2> QED
    BY <1>2, <2>1
<1> HIDE DEF left, x, next
<1>6. next.data \in Seq(X) /\ next.panic \in GeneratePanics /\ next.available \in Int
  BY <1>1, <1>2, <1>4, <1>5, Strings DEF AddsEntry, next, left, x
<1>7. /\ next.connection \in [channels : [ChannelIndexes -> C], error_level : ConnectionErrors]
      /\ \A j \in ChannelIndexes : next.connection.channels[j] \in K[j]
      /\ next = [connection |-> next.connection, data |-> next.data,
                 panic |-> next.panic, available |-> next.available]
  BY <1>1 DEF AddsEntry, next
<1> QED
  BY <1>6, <1>7 DEF BudgetStates, next

\* One round of the loop stays among the states.
LEMMA GenerateEntryStays ==
  ASSUME NEW C, NEW K, NEW X, NEW packet_sequence, Answering(C, K, X, packet_sequence),
         NEW state \in BudgetStates(C, K, X), NEW i \in ChannelIndexes
  PROVE  GenerateEntry(state, i, packet_sequence) \in BudgetStates(C, K, X)
<1> DEFINE c == state.connection.channels[i]
           data == ChannelPacketData(c, packet_sequence, state.available)
           stopped == [state EXCEPT !.panic = "underflow"]
<1>1. c \in K[i] /\ state.available \in Int
  BY BudgetFields
<1>2. Answers(K[i], X, i, state.available, data) /\ K[i] \subseteq C
  BY <1>1 DEF Answering
<1>3. GenerateEntry(state, i, packet_sequence) \in {state, stopped, AddEntry(state, i, data)}
  BY DEF GenerateEntry
<1> HIDE DEF c, data
<1>4. AddEntry(state, i, data) \in BudgetStates(C, K, X)
  BY <1>2, AddEntryStays
<1>5. stopped \in BudgetStates(C, K, X)
  BY Strings DEF BudgetStates
<1> QED
  BY <1>3, <1>4, <1>5

\* An entry of the next channel keeps the order.
LEMMA InOrderAppend ==
  ASSUME NEW X, Budgeted(X), NEW data \in Seq(X), NEW k \in ChannelIndexes,
         InOrder(data, k - 1), NEW x \in X, x.channel_index = k
  PROVE  InOrder(data, k) /\ InOrder(Append(data, x), k)
<1> DEFINE n == Len(data)
           longer == Append(data, x)
<1>1. /\ n \in Nat /\ DOMAIN data = 1 .. n /\ DOMAIN longer = 1 .. n + 1
      /\ longer[n + 1] = x /\ \A a \in 1 .. n : longer[a] = data[a] /\ data[a] \in X
  OBVIOUS
<1> HIDE DEF n, longer
<1>2. k \in Int /\ \A a \in 1 .. n : data[a].channel_index \in Int
  BY <1>1, Indexes DEF Budgeted
<1>3. InOrder(data, k)
  BY <1>1, <1>2 DEF InOrder
<1>4. \A a \in 1 .. n + 1 : a \in 1 .. n \/ a = n + 1
  BY <1>1
<1>5. \A a \in 1 .. n : data[a].channel_index < k
  BY <1>1, <1>2 DEF InOrder
<1>6. \A a, b \in 1 .. n + 1 : a < b => longer[a].channel_index < longer[b].channel_index
  <2> TAKE a, b \in 1 .. n + 1
  <2> HAVE a < b
  <2>1. a \in 1 .. n
    BY <1>1
  <2>2. CASE b = n + 1
    BY <1>1, <1>5, <2>1, <2>2
  <2>3. CASE b \in 1 .. n
    BY <1>1, <2>1, <2>3 DEF InOrder
  <2> QED
    BY <1>4, <2>2, <2>3
<1>7. \A a \in 1 .. n + 1 : longer[a].channel_index <= k
  BY <1>1, <1>2, <1>4, <1>5
<1> QED
  BY <1>1, <1>3, <1>6, <1>7 DEF InOrder, longer

\* What was offered stays offered.
LEMMA OffersGrow ==
  ASSUME NEW X, NEW data \in Seq(X), NEW before, NEW packet_sequence, NEW k \in ChannelIndexes,
         Offers(before, packet_sequence, data, k - 1), NEW bits \in Int, bits >= PacketBudget,
         NEW longer \in Seq(X), NEW x \in X, longer = data \/ longer = Append(data, x),
         LET answer == ChannelPacketData(before[k], packet_sequence, bits)
         IN  answer.bits # 0 =>
                x = EntryOf(k, answer.messages) /\ longer = Append(data, x)
  PROVE  Offers(before, packet_sequence, longer, k)
<1> DEFINE n == Len(data)
<1>1. /\ n \in Nat /\ DOMAIN data = 1 .. n
      /\ \A a \in DOMAIN data : a \in DOMAIN longer /\ longer[a] = data[a]
      /\ longer = Append(data, x) => n + 1 \in DOMAIN longer /\ longer[n + 1] = x
  OBVIOUS
<1> HIDE DEF n
<1> SUFFICES ASSUME NEW i \in ChannelIndexes, i <= k
             PROVE  \E b \in Int :
                       LET answer == ChannelPacketData(before[i], packet_sequence, b)
                       IN  /\ b >= PacketBudget
                           /\ answer.bits # 0 =>
                                 \E a \in DOMAIN longer : longer[a] = EntryOf(i, answer.messages)
  BY DEF Offers
<1>2. CASE i = k
  BY <1>1, <1>2
<1>3. CASE i <= k - 1
  <2>1. PICK b \in Int :
           LET answer == ChannelPacketData(before[i], packet_sequence, b)
           IN  /\ b >= PacketBudget
               /\ answer.bits # 0 =>
                     \E a \in DOMAIN data : data[a] = EntryOf(i, answer.messages)
    BY <1>3 DEF Offers
  <2> QED
    BY <1>1, <2>1
<1>4. i = k \/ i <= k - 1
  BY Indexes
<1> QED
  BY <1>2, <1>3, <1>4

\* A channel that is asked has its budget, and a header's bits, if there was room
\* for all.
LEMMA BudgetThere ==
  ASSUME NEW state, NEW buffer_bits, NEW to_come \in Nat, Room(buffer_bits),
         Spent(state, buffer_bits, to_come + 1), state.panic = NoPanic,
         state.available \in Int
  PROVE  state.available >= PacketBudget + ChannelHeaderBits
<1> DEFINE budget == PacketBudget + ChannelHeaderBits
           available == state.available
<1>1. available >= (to_come + 1) * budget
  BY DEF Spent
<1>2. budget \in Nat
  BY ConfigAssumption DEF ChannelHeaderBits
<1> HIDE DEF budget, available
<1>3. (to_come + 1) * budget = to_come * budget + budget /\ to_come * budget >= 0
      /\ to_come * budget \in Int
  BY <1>2, BudgetsLeft
<1>4. available \in Int
  BY DEF available
<1> QED
  BY <1>1, <1>2, <1>3, <1>4 DEF budget, available

\* A turn of the loop.
LEMMA GenerateStep ==
  ASSUME CheckBits = 0, NEW C, NEW K, NEW X, NEW packet_sequence,
         Answering(C, K, X, packet_sequence), NEW before,
         NEW buffer_bits \in Int, UsizeModulus > buffer_bits,
         NEW state \in BudgetStates(C, K, X), NEW k \in ChannelIndexes,
         AfterChannels(before, packet_sequence, buffer_bits, state, k - 1)
  PROVE  AfterChannels(before, packet_sequence, buffer_bits,
                       GenerateEntry(state, k, packet_sequence), k)
<1> DEFINE c == state.connection.channels[k]
           data == ChannelPacketData(c, packet_sequence, state.available)
           x == EntryOf(k, data.messages)
           calm == Calm(before, buffer_bits)
           n == Len(Kinds)
           next == GenerateEntry(state, k, packet_sequence)
           added == AddEntry(state, k, data)
           stopped == [state EXCEPT !.panic = "underflow"]
<1>1. /\ c \in K[k] /\ state.available \in Int /\ state.data \in Seq(X)
      /\ state.connection.channels \in [ChannelIndexes -> C]
  BY BudgetFields
<1>2. Answers(K[k], X, k, state.available, data) /\ K[k] \subseteq C /\ Budgeted(X)
  BY <1>1 DEF Answering
<1>3. /\ k \in Int /\ k >= 1 /\ k <= n /\ n \in Nat
      /\ n - k \in Nat /\ n - (k - 1) = (n - k) + 1
  <2>1. k \in 1 .. n /\ n \in Nat
    BY Indexes
  <2> HIDE DEF n
  <2> QED
    BY <2>1
<1>4. /\ InOrder(state.data, k - 1)
      /\ Untouched(state.connection.channels, before, k - 1)
      /\ Spent(state, buffer_bits, (n - k) + 1)
      /\ calm => /\ state.panic = NoPanic
                 /\ Offers(before, packet_sequence, state.data, k - 1)
  BY <1>3 DEF AfterChannels
<1>5. c = before[k]
  BY <1>3, <1>4 DEF Untouched
<1> HIDE DEF n
<1>6. calm => state.available >= PacketBudget /\ ~(IsReliable(c) /\ BudgetUnderflows(c.processor, state.available))
  <2> HAVE calm
  <2>1. Room(buffer_bits) /\ state.panic = NoPanic
        /\ (PacketBudget >= MessageHeaderBits \/ ~IsReliable(c))
    BY <1>4, <1>5 DEF Calm
  <2>2. state.available >= PacketBudget + ChannelHeaderBits
    BY <1>1, <1>3, <1>4, <2>1, BudgetThere
  <2> DEFINE available == state.available
  <2>3. available \in Int /\ PacketBudget \in Int /\ available >= PacketBudget + 32
    BY <1>1, <2>2, ConfigAssumption DEF ChannelHeaderBits
  <2> HIDE DEF available
  <2>4. available >= PacketBudget /\ Min({PacketBudget, available}) = PacketBudget
    BY <2>3 DEF Min
  <2>5. PacketBudget >= MessageHeaderBits => ~BudgetUnderflows(c.processor, available)
    BY <2>3, <2>4 DEF BudgetUnderflows, MessageHeaderBits
  <2> QED
    BY <2>1, <2>4, <2>5 DEF available
<1>7. /\ InOrder(state.data, k)
      /\ x \in X => InOrder(Append(state.data, x), k)
  <2>1. \A a \in DOMAIN state.data : state.data[a].channel_index \in Int
    <3> DEFINE d == state.data
    <3>1. d \in Seq(X) /\ \A y \in X : y.channel_index \in Int
      BY <1>1, <1>2, Indexes DEF Budgeted
    <3> HIDE DEF d
    <3>2. \A a \in DOMAIN d : d[a] \in X
      BY <3>1
    <3> QED
      BY <3>1, <3>2 DEF d
  <2>2. InOrder(state.data, k)
    BY <1>3, <1>4, <2>1 DEF InOrder
  <2>3. x.channel_index = k
    BY DEF EntryOf
  <2> HIDE DEF x
  <2>4. x \in X => InOrder(Append(state.data, x), k)
    BY <1>1, <1>2, <1>4, <2>3, InOrderAppend
  <2> QED
    BY <2>2, <2>4
<1>8. Untouched(state.connection.channels, before, k)
  BY <1>3, <1>4, Indexes DEF Untouched
<1>9. CASE state.panic # NoPanic
  <2>1. next = state
    BY <1>9 DEF GenerateEntry
  <2> QED
    BY <1>4, <1>7, <1>8, <1>9, <2>1 DEF AfterChannels, Spent
<1>10. CASE /\ state.panic = NoPanic /\ OverflowChecks /\ IsReliable(c)
            /\ BudgetUnderflows(c.processor, state.available)
  <2>1. next = stopped
    BY <1>10 DEF GenerateEntry
  <2>2. /\ stopped.data = state.data /\ stopped.connection = state.connection
        /\ stopped.panic # NoPanic
    <3>1. state = [connection |-> state.connection, data |-> state.data,
                   panic |-> state.panic, available |-> state.available]
      BY BudgetFields
    <3> QED
      BY <3>1 DEF NoPanic
  <2>3. ~calm
    BY <1>6, <1>10
  <2> HIDE DEF stopped, calm
  <2>4. Spent(stopped, buffer_bits, n - k)
    BY <2>2 DEF Spent
  <2> QED
    BY <1>7, <1>8, <2>1, <2>2, <2>3, <2>4 DEF AfterChannels, n, calm
<1>11. CASE /\ state.panic = NoPanic
            /\ ~(/\ OverflowChecks /\ IsReliable(c)
                 /\ BudgetUnderflows(c.processor, state.available))
  <2>1. next = added
    BY <1>11 DEF GenerateEntry
  <2> HIDE DEF data, c
  <2>2. AddsEntry(C, K, state, k, data)
    BY <1>2, AddEntryFields
  <2>3. Spent(added, buffer_bits, n - k) /\ (Room(buffer_bits) => added.panic = NoPanic)
    BY <1>2, <1>3, <1>4, <1>11, SpentStep
  <2>4. Untouched(added.connection.channels, before, k)
    <3>1. added.connection.channels = [state.connection.channels EXCEPT ![k] = data.channel]
      BY <2>2 DEF AddsEntry
    <3>2. \A i \in ChannelIndexes : i > k => i # k
      BY <1>3, Indexes
    <3> HIDE DEF added
    <3> QED
      BY <1>1, <1>8, <3>1, <3>2 DEF Untouched
  <2>5. InOrder(added.data, k)
    <3>1. CASE data.bits = 0
      BY <1>7, <2>2, <3>1 DEF AddsEntry
    <3>2. CASE data.bits # 0
      BY <1>2, <1>7, <2>2, <3>2 DEF AddsEntry, Answers
    <3> QED
      BY <3>1, <3>2
  <2>6. calm => Offers(before, packet_sequence, added.data, k)
    <3> HAVE calm
    <3>1. Offers(before, packet_sequence, state.data, k - 1)
      BY <1>4
    <3>2. state.available >= PacketBudget
      BY <1>6
    <3>3. data = ChannelPacketData(before[k], packet_sequence, state.available)
      BY <1>5 DEF data
    <3> HIDE DEF calm, added, x
    <3>4. CASE data.bits = 0
      <4>1. added.data = state.data
        BY <2>2, <3>4 DEF AddsEntry, added
      <4>2. \A i \in ChannelIndexes : i <= k => i <= k - 1 \/ i = k
        BY <1>3, Indexes
      <4> QED
        BY <1>1, <3>1, <3>2, <3>3, <3>4, <4>1, <4>2 DEF Offers
    <3>5. CASE data.bits # 0
      <4>1. added.data = Append(state.data, x) /\ x \in X
        BY <1>2, <2>2, <3>5 DEF AddsEntry, added, Answers, x
      <4>2. added.data \in Seq(X)
        BY <1>1, <4>1
      <4>3. LET answer == ChannelPacketData(before[k], packet_sequence, state.available)
            IN  answer.bits # 0 =>
                   x = EntryOf(k, answer.messages) /\ added.data = Append(state.data, x)
        BY <3>3, <4>1 DEF x
      <4> QED
        BY <1>1, <3>1, <3>2, <4>1, <4>2, <4>3, OffersGrow
    <3> QED
      BY <3>4, <3>5
  <2>7. calm => added.panic = NoPanic
    BY <2>3 DEF Calm
  <2> HIDE DEF added, calm
  <2> QED
    BY <2>1, <2>3, <2>4, <2>5, <2>6, <2>7 DEF AfterChannels, n, calm
<1> QED
  BY <1>9, <1>10, <1>11

\* generate_packet: every entry took no more than was left and, where there is
\* room for all, nothing panics and every channel was offered its budget.
LEMMA GeneratePacketBudget ==
  ASSUME CheckBits = 0, NEW C, NEW K, NEW X, NEW packet_sequence,
         Answering(C, K, X, packet_sequence),
         NEW conn \in [channels : [ChannelIndexes -> C], error_level : ConnectionErrors],
         \A i \in ChannelIndexes : conn.channels[i] \in K[i],
         NEW buffer_bits \in Int, buffer_bits >= PacketHeaderBits, UsizeModulus > buffer_bits
  PROVE  /\ GeneratePacket(conn, packet_sequence, buffer_bits) \in BudgetStates(C, K, X)
         /\ AfterChannels(conn.channels, packet_sequence, buffer_bits,
                          GeneratePacket(conn, packet_sequence, buffer_bits), Len(Kinds))
<1> DEFINE before == conn.channels
           base == [connection |-> conn, data |-> <<>>, panic |-> NoPanic,
                    available  |-> buffer_bits - PacketHeaderBits]
           order == [i \in ChannelIndexes |-> i]
           n == Len(Kinds)
           D == BudgetStates(C, K, X)
           after(k) == {state \in D :
                           AfterChannels(before, packet_sequence, buffer_bits, state, k)}
           Inv == [k \in 0 .. n |-> after(k)]
           folded == Generating!Fold(packet_sequence, packet_sequence, base, order)
<1>1. /\ n \in Nat /\ ChannelIndexes = 1 .. n /\ order \in Seq(ChannelIndexes)
      /\ Len(order) = n /\ \A k \in 1 .. n : order[k] = k
  BY Indexes
<1>2. base \in D
  <2>1. buffer_bits - PacketHeaderBits \in Int
    BY DEF PacketHeaderBits
  <2>2. <<>> \in Seq(X)
    OBVIOUS
  <2> QED
    BY <2>1, <2>2, Strings DEF BudgetStates
<1>3. AfterChannels(before, packet_sequence, buffer_bits, base, 0)
  <2>1. InOrder(<<>>, 0)
    BY DEF InOrder
  <2>2. Untouched(before, before, 0)
    BY DEF Untouched
  <2>3. Spent(base, buffer_bits, n)
    <3> DEFINE available == buffer_bits - PacketHeaderBits
    <3>1. /\ available = Left(buffer_bits, CountsOf(<<>>))
          /\ PacketBits(<<>>) + available = buffer_bits
      BY EmptyPacketBits DEF PacketHeaderBits
    <3>2. available \in 0 .. buffer_bits
      BY DEF PacketHeaderBits
    <3>3. Room(buffer_bits) => available >= n * (PacketBudget + ChannelHeaderBits)
      <4> DEFINE needed == n * (PacketBudget + ChannelHeaderBits)
      <4>1. PacketBudget + ChannelHeaderBits \in Int
        BY ConfigAssumption DEF ChannelHeaderBits
      <4>2. needed \in Int
        BY <1>1, <4>1
      <4>3. Room(buffer_bits) => buffer_bits >= PacketHeaderBits + needed
        BY DEF Room
      <4> HIDE DEF needed
      <4> QED
        BY <4>2, <4>3 DEF PacketHeaderBits, needed
    <3>4. /\ base.data = <<>> /\ base.available = available
      OBVIOUS
    <3>5. DOMAIN <<>> = {}
      OBVIOUS
    <3>6. buffer_bits <= buffer_bits
      OBVIOUS
    <3> HIDE DEF available, base, n
    <3> QED
      BY <3>1, <3>2, <3>3, <3>4, <3>5, <3>6 DEF Spent
  <2>4. Offers(before, packet_sequence, <<>>, 0)
    BY <1>1 DEF Offers
  <2>5. n - 0 = n
    BY <1>1
  <2> HIDE DEF n, before
  <2>6. base.data = <<>> /\ base.panic = NoPanic /\ base.connection.channels = before
    BY DEF before
  <2> HIDE DEF base
  <2> QED
    BY <2>1, <2>2, <2>3, <2>4, <2>5, <2>6 DEF AfterChannels, n
<1>4. \A d \in D, i \in ChannelIndexes :
         GenerateEntryOf(packet_sequence, packet_sequence, d, i) \in D
  BY GenerateEntryStays DEF GenerateEntryOf
<1>5. ASSUME NEW k \in 1 .. n, NEW d \in D, d \in Inv[k - 1]
      PROVE  GenerateEntryOf(packet_sequence, packet_sequence, d, order[k]) \in Inv[k]
  <2>1. k - 1 \in 0 .. n /\ k \in 0 .. n /\ k \in ChannelIndexes /\ order[k] = k
    <3> HIDE DEF n, order
    <3> QED
      BY <1>1
  <2>2. AfterChannels(before, packet_sequence, buffer_bits, d, k - 1)
    BY <1>5, <2>1
  <2> HIDE DEF D, before, order
  <2>3. AfterChannels(before, packet_sequence, buffer_bits,
                      GenerateEntry(d, k, packet_sequence), k)
    BY <2>1, <2>2, GenerateStep DEF D
  <2>4. GenerateEntryOf(packet_sequence, packet_sequence, d, k) \in D
    BY <1>4, <2>1
  <2> QED
    BY <2>1, <2>3, <2>4 DEF GenerateEntryOf
<1>6. base \in Inv[0]
  BY <1>1, <1>2, <1>3
<1>7. Inv[n] = after(n)
  BY <1>1
<1>7a. StartPacket(conn, buffer_bits) = base
  <2> DEFINE left == buffer_bits - PacketHeaderBits
  <2>1. ~(left < 0) /\ buffer_bits # 0
    BY DEF PacketHeaderBits
  <2> HIDE DEF left
  <2>2. StartPacket(conn, buffer_bits)
          = [connection |-> conn, data |-> <<>>, available |-> left, panic |-> NoPanic]
    BY <2>1 DEF StartPacket, WrapUsize, Underflow, left
  <2> QED
    BY <2>2 DEF left
<1> HIDE DEF base, order, D, after, before
<1>8. folded \in D /\ folded \in Inv[n]
  <2> HIDE DEF Inv, n
  <2> QED
    BY <1>1, <1>2, <1>4, <1>5, <1>6, Generating!FoldKeeps
<1>9. GeneratePacket(conn, packet_sequence, buffer_bits)
        = SerializePacket(folded, buffer_bits)
  BY <1>7a DEF GeneratePacket, GenerateEntryOf, FoldLeft, MapThenFoldSet, Max, Generating!Fold,
         Generating!FoldLeft, Generating!MapThenFoldSet, Generating!Max, order
<1> HIDE DEF folded
<1>10. folded \in after(n)
  BY <1>7, <1>8
<1>11. AfterChannels(before, packet_sequence, buffer_bits, folded, n)
  BY <1>10 DEF after
<1> DEFINE full == [folded EXCEPT !.panic = "buffer full"]
<1>12. CASE SerializePacket(folded, buffer_bits) = folded
  BY <1>8, <1>9, <1>11, <1>12 DEF D, before
<1>13. CASE SerializePacket(folded, buffer_bits) # folded
  <2>1. /\ SerializePacket(folded, buffer_bits) = full
        /\ folded.panic = NoPanic /\ PacketBits(folded.data) > buffer_bits
    BY <1>13 DEF SerializePacket
  <2>2. folded \in BudgetStates(C, K, X)
    BY <1>8 DEF D
  <2>3. /\ folded = [connection |-> folded.connection, data |-> folded.data,
                     panic |-> folded.panic, available |-> folded.available]
        /\ folded.data \in Seq(X) /\ folded.available \in Int
    BY <2>2, BudgetFields
  <2>4. /\ full.connection = folded.connection /\ full.data = folded.data
        /\ full.panic # NoPanic
    BY <2>3 DEF NoPanic
  <2>5. full \in BudgetStates(C, K, X)
    BY <2>2, Strings DEF BudgetStates
  <2>6. PacketBits(folded.data) \in Int
    <3> DEFINE d == folded.data
    <3>1. d \in Seq(X) /\ Budgeted(X)
      BY <2>3 DEF Answering
    <3> SUFFICES PacketBits(d) \in Int
      OBVIOUS
    <3> HIDE DEF d
    <3>2. CASE d = <<>>
      <4>1. PacketBits(<<>>) = PacketHeaderBits /\ Left(buffer_bits, <<>>) = buffer_bits - PacketHeaderBits
        BY EmptyPacketBits
      <4> QED
        BY <3>2, <4>1 DEF PacketHeaderBits
    <3>3. CASE d # <<>>
      <4>1. d[1] \in X
        BY <3>1, <3>3
      <4>2. /\ PacketBits(d) \in Int
            /\ PacketBits(Append(d, d[1])) = PacketBits(d) + SerializedBits(d[1], 0)
        BY <3>1, <4>1, PacketBitsAppend
      <4> QED
        BY <4>2
    <3> QED
      BY <3>2, <3>3
  <2>7. ~Room(buffer_bits)
    <3> SUFFICES ASSUME Room(buffer_bits) PROVE FALSE
      OBVIOUS
    <3>1. /\ folded.available \in 0 .. buffer_bits
          /\ PacketBits(folded.data) + folded.available <= buffer_bits
      BY <1>11, <2>1 DEF AfterChannels, Spent
    <3> DEFINE a == folded.available
               b == PacketBits(folded.data)
    <3>2. a \in 0 .. buffer_bits /\ b \in Int /\ b + a <= buffer_bits /\ b > buffer_bits
      BY <2>1, <2>6, <3>1
    <3> HIDE DEF a, b
    <3> QED
      BY <3>2
  <2> HIDE DEF full, n
  <2>8. AfterChannels(before, packet_sequence, buffer_bits, full, n)
    BY <1>11, <2>4, <2>7 DEF AfterChannels, Spent, Calm
  <2> QED
    BY <1>9, <2>1, <2>5, <2>8 DEF before, n
<1> QED
  BY <1>12, <1>13

\* The messages taken for a packet: not too many, and counted, within the bits
\* there are.
Taken(i, available, messages, used) ==
    /\ used \in Nat
    /\ used = CountedFor(i, messages)
    /\ Len(messages) <= MaxPerPacket
    /\ messages # <<>> => used <= available

\* What get_packet_data of an unreliable channel takes.
LEMMA PackedBudget ==
  ASSUME NEW V, MeasuredMessages(V), NEW u \in UnreliableEnds(V), NEW bits \in Int,
         NEW i \in ChannelIndexes, Kinds[i] = UnreliableUnordered
  PROVE  LET data == UnreliablePacketData(u, bits)
         IN  /\ data.messages \in Seq(V)
             /\ data.bits \in Nat
             /\ data.bits # 0 =>
                   /\ Len(data.messages) \in 1 .. MaxPerPacket
                   /\ data.bits = CountedFor(i, data.messages)
                   /\ data.bits <= PacketBudget /\ data.bits <= bits
<1> DEFINE q == u.message_send_queue
           available == Min({PacketBudget, bits})
           base == [messages |-> <<>>, used |-> MessageHeaderBits, popped |-> 0]
           D == {d \in [messages : Seq(V), used : Nat, popped : Nat] :
                    Taken(i, available, d.messages, d.used)}
           packed == Packing!Fold(available, available, base, q)
<1>1. q \in Seq(V)
  BY DEF UnreliableEnds
<1>2. \A m \in V : MessageBits(i, m, 0) = MeasuredBits(m) /\ MessageBits(i, m, 0) \in Int
  <2>1. Kinds[i] # ReliableOrdered
    BY Strings
  <2>2. \A m \in V : MeasuredBits(m) \in Nat
    BY DEF MeasuredMessages
  <2> QED
    BY <2>1, <2>2 DEF MessageBits
<1>3. available \in Int /\ available <= PacketBudget /\ available <= bits
  BY ConfigAssumption DEF Min
<1> HIDE DEF available
<1>4. MaxPerPacket \in Nat /\ MaxPerPacket >= 1
  BY ConfigAssumption
<1>5. base \in D
  <2>1. CountedFor(i, <<>>) = MessageHeaderBits
    BY CountedEmpty
  <2> QED
    BY <1>4, <2>1 DEF Taken, MessageHeaderBits
<1>6. ASSUME NEW d \in D, NEW m \in V
      PROVE  PackOneOf(available, available, d, m) \in D
  <2> DEFINE ms == d.messages
             used == d.used
             popped == d.popped
             size == MeasuredBits(m)
             full == available - used < GiveUpBits \/ Len(ms) = MaxPerPacket
             fits == used + size <= available
  <2>1. ms \in Seq(V) /\ used \in Nat /\ popped \in Nat /\ Taken(i, available, ms, used)
    OBVIOUS
  <2>2. size \in Nat
    BY DEF MeasuredMessages
  <2>3. PackOneOf(available, available, d, m)
          = [messages |-> IF ~full /\ fits THEN Append(ms, m) ELSE ms,
             used     |-> IF ~full /\ fits THEN used + size ELSE used,
             popped   |-> IF full THEN popped ELSE popped + 1]
    BY DEF PackOneOf, PackOne
  <2>4. CountedFor(i, Append(ms, m)) = CountedFor(i, ms) + MessageBits(i, m, 0)
    BY <1>2, <2>1, CountedAppend
  <2> HIDE DEF ms, used, popped, size
  <2>5. CASE ~full /\ fits
    <3> DEFINE longer == Append(ms, m)
    <3>1. longer \in Seq(V) /\ Len(longer) = Len(ms) + 1 /\ Len(ms) \in Nat
      BY <2>1
    <3>2. CountedFor(i, longer) = used + size
      BY <1>2, <2>1, <2>4 DEF Taken, size
    <3> HIDE DEF longer
    <3>3. Len(ms) <= MaxPerPacket /\ Len(ms) # MaxPerPacket
      BY <2>1, <2>5 DEF Taken
    <3>4. Len(longer) <= MaxPerPacket
      BY <1>4, <3>1, <3>3
    <3>5. used + size \in Nat /\ popped + 1 \in Nat
      BY <2>1, <2>2
    <3>6. Taken(i, available, longer, used + size)
      BY <2>5, <3>2, <3>4, <3>5 DEF Taken
    <3>7. PackOneOf(available, available, d, m)
            = [messages |-> longer, used |-> used + size, popped |-> popped + 1]
      BY <2>3, <2>5 DEF longer
    <3> QED
      BY <3>1, <3>5, <3>6, <3>7
  <2>6. CASE ~(~full /\ fits)
    <3>1. PackOneOf(available, available, d, m)
            = [messages |-> ms, used |-> used, popped |-> IF full THEN popped ELSE popped + 1]
      BY <2>3, <2>6
    <3> DEFINE p == IF full THEN popped ELSE popped + 1
    <3>2. p \in Nat
      BY <2>1
    <3> HIDE DEF p, full
    <3>3. [messages |-> ms, used |-> used, popped |-> p] \in D
      BY <2>1, <3>2
    <3> QED
      BY <3>1, <3>3 DEF p
  <2> QED
    BY <2>5, <2>6
<1> HIDE DEF base, D
<1>7. packed \in D
  BY <1>1, <1>5, <1>6, Packing!FoldStays
<1>8. UnreliablePacketData(u, bits)
        = [channel  |-> [u EXCEPT !.message_send_queue =
                                     SubSeq(q, packed.popped + 1, Len(q))],
           messages |-> packed.messages,
           bits     |-> IF packed.messages = <<>> THEN 0 ELSE packed.used]
  BY DEF UnreliablePacketData, PackOneOf, FoldLeft, MapThenFoldSet, Max, Packing!Fold,
         Packing!FoldLeft, Packing!MapThenFoldSet, Packing!Max, base, available
<1> HIDE DEF packed
<1> DEFINE ms == packed.messages
           used == packed.used
<1>9. ms \in Seq(V) /\ used \in Nat /\ Taken(i, available, ms, used)
  BY <1>7 DEF D
<1>10. /\ UnreliablePacketData(u, bits).messages = ms
       /\ UnreliablePacketData(u, bits).bits = IF ms = <<>> THEN 0 ELSE used
  BY <1>8
<1> HIDE DEF ms, used
<1>11. ms # <<>> => Len(ms) \in 1 .. MaxPerPacket
  <2>1. ms # <<>> => Len(ms) \in Nat /\ Len(ms) >= 1
    BY <1>9
  <2> QED
    BY <1>4, <1>9, <2>1 DEF Taken
<1>12. ms # <<>> => used <= PacketBudget /\ used <= bits
  <2>1. PacketBudget \in Int
    BY ConfigAssumption
  <2> QED
    BY <1>3, <1>9, <2>1 DEF Taken
<1> QED
  BY <1>9, <1>10, <1>11, <1>12 DEF Taken

\* Entries of an unreliable channel with messages of V, as it makes them.
UnreliableEntries(V) ==
    {x \in [channel_index : ChannelIndexes, messages : Seq(V)] :
        /\ Kinds[x.channel_index] = UnreliableUnordered
        /\ Len(x.messages) \in 1 .. MaxPerPacket
        /\ SerializedBits(x, 0) \in Nat /\ SerializedBits(x, 0) <= PacketBudget}

\* What an unreliable channel answers.
LEMMA UnreliableAnswers ==
  ASSUME NEW V, MeasuredMessages(V), NEW c \in UnreliableChannels(V), NEW bits \in Int,
         NEW i \in ChannelIndexes, Kinds[i] = UnreliableUnordered, NEW packet_sequence
  PROVE  Answers(UnreliableChannels(V), UnreliableEntries(V), i, bits,
                 ChannelPacketData(c, packet_sequence, bits))
<1> DEFINE u == UnreliablePacketData(c.processor, bits)
           data == ChannelPacketData(c, packet_sequence, bits)
           x == EntryOf(i, data.messages)
<1>1. c.processor \in UnreliableEnds(V) /\ ~IsReliable(c)
  BY ChannelFields
<1>2. /\ u.messages \in Seq(V)
      /\ u.bits \in Nat
      /\ u.bits # 0 =>
            /\ Len(u.messages) \in 1 .. MaxPerPacket
            /\ u.bits = CountedFor(i, u.messages)
            /\ u.bits <= PacketBudget /\ u.bits <= bits
  BY <1>1, PackedBudget
<1>3. \E a, b, d : u = [channel |-> a, messages |-> b, bits |-> d]
  BY DEF UnreliablePacketData
<1>4. data = [u EXCEPT !.channel = [c EXCEPT !.processor = u.channel]]
  BY <1>1 DEF ChannelPacketData
<1>5. data.channel \in UnreliableChannels(V)
  BY PacketDataKeeps
<1> HIDE DEF u, data
<1>6. /\ data = [channel |-> data.channel, messages |-> data.messages, bits |-> data.bits]
      /\ data.messages = u.messages /\ data.bits = u.bits
  BY <1>3, <1>4
<1>7. data.bits # 0 => x \in UnreliableEntries(V)
  <2> HAVE data.bits # 0
  <2>1. x \in [channel_index : ChannelIndexes, messages : Seq(V)]
    BY <1>2, <1>6 DEF EntryOf
  <2>2. SerializedBits(x, 0) = data.bits /\ data.bits \in Nat /\ data.bits <= PacketBudget
    BY <1>2, <1>6 DEF CountedFor
  <2>3. x.channel_index = i /\ x.messages = data.messages
    BY DEF EntryOf
  <2>4. Len(x.messages) \in 1 .. MaxPerPacket
    BY <1>2, <1>6, <2>3
  <2> HIDE DEF x
  <2> QED
    BY <2>1, <2>2, <2>3, <2>4 DEF UnreliableEntries
<1>8. Answers(UnreliableChannels(V), UnreliableEntries(V), i, bits, data)
  BY <1>2, <1>5, <1>6, <1>7 DEF Answers
<1> QED
  BY <1>8 DEF data

\* generate_packet of a connection with unreliable channels does not panic if its
\* buffer has room for the budgets of all channels.
LEMMA GeneratePacketCalm ==
  ASSUME AllUnreliable, CheckBits = 0, NEW V, MeasuredMessages(V),
         NEW conn \in Connections(V), NEW packet_sequence,
         NEW buffer_bits \in Nat, Room(buffer_bits), UsizeModulus > buffer_bits
  PROVE  GeneratePacket(conn, packet_sequence, buffer_bits).panic = NoPanic
<1> DEFINE C == UnreliableChannels(V)
           K == [i \in ChannelIndexes |-> C]
           X == UnreliableEntries(V)
<1>1. Answering(C, K, X, packet_sequence)
  <2>1. Budgeted(X)
    BY DEF Budgeted, UnreliableEntries
  <2>2. \A i \in ChannelIndexes : Kinds[i] = UnreliableUnordered
    BY DEF AllUnreliable
  <2> HIDE DEF X
  <2>3. ASSUME NEW i \in ChannelIndexes, NEW bits \in Int, NEW c \in C
        PROVE  Answers(C, X, i, bits, ChannelPacketData(c, packet_sequence, bits))
    BY <2>2, UnreliableAnswers DEF X
  <2> HIDE DEF C
  <2> QED
    BY <2>1, <2>3 DEF Answering
<1>2. /\ conn \in [channels : [ChannelIndexes -> C], error_level : ConnectionErrors]
      /\ \A i \in ChannelIndexes : conn.channels[i] \in K[i]
      /\ \A i \in ChannelIndexes : ~IsReliable(conn.channels[i])
  BY ConnectionFields, ChannelFields DEF Connections
<1>3. buffer_bits >= PacketHeaderBits
  <2> DEFINE b == PacketBudget + ChannelHeaderBits
             n == Len(Kinds)
  <2>1. b \in Nat /\ n \in Nat
    BY Indexes, ConfigAssumption DEF ChannelHeaderBits
  <2>2. buffer_bits >= PacketHeaderBits + n * b
    BY DEF Room
  <2> HIDE DEF b, n
  <2>3. n * b >= 0 /\ n * b \in Int
    BY <2>1, BudgetsLeft
  <2> DEFINE p == n * b
  <2> HIDE DEF p
  <2> QED
    BY <2>2, <2>3 DEF PacketHeaderBits, p
<1>4. Calm(conn.channels, buffer_bits)
  BY <1>2 DEF Calm
<1> HIDE DEF C, K, X
<1>5. AfterChannels(conn.channels, packet_sequence, buffer_bits,
                    GeneratePacket(conn, packet_sequence, buffer_bits), Len(Kinds))
  BY <1>1, <1>2, <1>3, GeneratePacketBudget
<1> QED
  BY <1>4, <1>5 DEF AfterChannels

-----------------------------------------------------------------------------
(* The network simulator.                                                    *)

\* What may be in the queue, received or not yet.
Queueable(E) == \A e \in E : /\ e.consumed \in BOOLEAN
                             /\ [e EXCEPT !.consumed = TRUE] \in E

\* A simulator with entries of E, no more than its queue was made for.
Simulators(E) ==
    {sim \in [active : BOOLEAN, entries : Seq(E)] :
        /\ Len(sim.entries) <= SimulatorCapacity
        /\ ~sim.active => sim.entries = <<>>}

\* One round of each of the simulator's loops, as operators FoldTheory takes.
KeepWaitingOf(unused, none, kept, e) == KeepWaiting(kept, e)
\* The same for discard_client_packets.
KeepOthersOf(client_index, none, kept, e) == KeepOthers(client_index, kept, e)
\* The same for sending a batch of packets.
PushPacketOf(unused, none, sim, e) == PushPacket(sim, e)

\* The loop of advance_time over the entries.
Waiters == INSTANCE FoldTheory WITH Op <- KeepWaitingOf
\* The loop of discard_client_packets.
Others == INSTANCE FoldTheory WITH Op <- KeepOthersOf
\* The loop over a batch of packets.
Pushes == INSTANCE FoldTheory WITH Op <- PushPacketOf

\* The fields of a simulator whose entries are of E.
LEMMA SimulatorFields ==
  ASSUME NEW E, NEW sim \in Simulators(E)
  PROVE  /\ sim.active \in BOOLEAN /\ sim.entries \in Seq(E)
         /\ Len(sim.entries) <= SimulatorCapacity /\ Len(sim.entries) \in Nat
         /\ ~sim.active => sim.entries = <<>>
         /\ sim = [active |-> sim.active, entries |-> sim.entries]
         /\ \A k \in DOMAIN sim.entries : sim.entries[k] \in E
         /\ DOMAIN sim.entries = 1 .. Len(sim.entries)
<1>1. /\ sim \in [active : BOOLEAN, entries : Seq(E)]
      /\ Len(sim.entries) <= SimulatorCapacity
      /\ ~sim.active => sim.entries = <<>>
  BY DEF Simulators
<1>2. sim.active \in BOOLEAN /\ sim.entries \in Seq(E)
      /\ sim = [active |-> sim.active, entries |-> sim.entries]
  BY <1>1
<1>3. /\ Len(sim.entries) \in Nat /\ DOMAIN sim.entries = 1 .. Len(sim.entries)
      /\ \A k \in DOMAIN sim.entries : sim.entries[k] \in E
  BY <1>2
<1> QED
  BY <1>1, <1>2, <1>3

\* And a simulator from its fields.
LEMMA SimulatorWith ==
  ASSUME NEW E, NEW active \in BOOLEAN, NEW entries \in Seq(E),
         Len(entries) <= SimulatorCapacity, ~active => entries = <<>>
  PROVE  [active |-> active, entries |-> entries] \in Simulators(E)
BY DEF Simulators

\* The simulator has room for an entry.
LEMMA SimulatorHasRoom == SimulatorCapacity \in Nat /\ SimulatorCapacity >= 1
BY SimulatorAssumption DEF SimulatorCapacity

\* A new simulator has entries of any set, having none.
LEMMA NewSimulatorGood ==
  ASSUME NEW E
  PROVE  NewSimulator \in Simulators(E)
<1>1. <<>> \in Seq(E) /\ Len(<<>>) <= SimulatorCapacity
  BY SimulatorHasRoom
<1> QED
  BY <1>1, SimulatorWith DEF NewSimulator

\* So has one whose packets were discarded.
LEMMA DiscardGood ==
  ASSUME NEW E, NEW G, NEW sim \in Simulators(E)
  PROVE  DiscardPackets(sim) \in Simulators(G)
<1>1. <<>> \in Seq(G) /\ Len(<<>>) <= SimulatorCapacity
  BY SimulatorHasRoom
<1>2. DiscardPackets(sim) = [active |-> sim.active, entries |-> <<>>]
  BY SimulatorFields DEF DiscardPackets
<1> QED
  <2> DEFINE a == sim.active
  <2>1. a \in BOOLEAN
    BY SimulatorFields
  <2> HIDE DEF a
  <2>2. [active |-> a, entries |-> <<>>] \in Simulators(G)
    BY <1>1, <2>1, SimulatorWith
  <2> QED
    BY <1>2, <2>2 DEF a

\* Switching it on or off adds no entry.
LEMMA SetActiveGood ==
  ASSUME NEW E, NEW sim \in Simulators(E), NEW active \in BOOLEAN
  PROVE  SetActive(sim, active) \in Simulators(E)
<1> DEFINE S == Simulators(E)
<1>1. CASE sim.active /\ ~active
  <2>1. <<>> \in Seq(E) /\ Len(<<>>) <= SimulatorCapacity
    BY SimulatorHasRoom
  <2>2. SetActive(sim, active) = [active |-> active, entries |-> <<>>]
    <3> DEFINE e == sim.entries
    <3>1. sim = [active |-> sim.active, entries |-> e]
      BY SimulatorFields
    <3> HIDE DEF e
    <3> QED
      BY <1>1, <3>1 DEF DiscardPackets, SetActive
  <2> QED
    BY <2>1, <2>2, SimulatorWith
<1>2. CASE ~(sim.active /\ ~active)
  <2>1. SetActive(sim, active) = [active |-> active, entries |-> sim.entries]
    BY <1>2, SimulatorFields DEF SetActive
  <2>2. ~active => sim.entries = <<>>
    BY <1>2, SimulatorFields
  <2> QED
    BY <2>1, <2>2, SimulatorFields, SimulatorWith
<1> QED
  BY <1>1, <1>2

\* advance_time drops what was received and nothing else is new.
LEMMA AdvanceSimulatorGood ==
  ASSUME NEW E, Queueable(E), NEW sim \in Simulators(E)
  PROVE  /\ AdvanceSimulator(sim) \in Simulators(E)
         /\ ~ReceiveAsserts(AdvanceSimulator(sim))
<1> DEFINE s == sim.entries
           F == {e \in E : ~e.consumed}
           D == Seq(F)
           Inv == [k \in 0 .. Len(s) |-> {d \in D : Len(d) <= k}]
           kept == Waiters!Fold(0, 0, <<>>, s)
<1>1. s \in Seq(E) /\ Len(s) \in Nat /\ Len(s) <= SimulatorCapacity
  BY SimulatorFields
<1>2. \A e \in E : e.consumed \in BOOLEAN
  BY DEF Queueable
<1>3. ASSUME NEW d \in D, NEW e \in E
      PROVE  /\ KeepWaitingOf(0, 0, d, e) \in D
             /\ Len(KeepWaitingOf(0, 0, d, e)) <= Len(d) + 1
             /\ Len(d) \in Nat /\ Len(KeepWaitingOf(0, 0, d, e)) \in Nat
  <2>1. e \in F \/ e.consumed
    BY <1>2
  <2> HIDE DEF F
  <2>2. d \in Seq(F)
    OBVIOUS
  <2>3. e \in F => Append(d, e) \in Seq(F) /\ Len(Append(d, e)) = Len(d) + 1
    BY <2>2
  <2>4. Len(d) \in Nat
    BY <2>2
  <2> QED
    BY <2>1, <2>2, <2>3, <2>4 DEF KeepWaitingOf, KeepWaiting
<1>4. <<>> \in D /\ Len(<<>>) = 0 /\ 0 \in 0 .. Len(s)
  <2> HIDE DEF F
  <2>1. <<>> \in Seq(F)
    OBVIOUS
  <2> QED
    BY <1>1, <2>1
<1>5. <<>> \in Inv[0]
  BY <1>4
<1>6. ASSUME NEW k \in 1 .. Len(s), NEW d \in D, d \in Inv[k - 1]
      PROVE  KeepWaitingOf(0, 0, d, s[k]) \in Inv[k]
  <2>1. k \in 0 .. Len(s) /\ k - 1 \in 0 .. Len(s) /\ s[k] \in E /\ k \in Int
    BY <1>1
  <2>2. Len(d) <= k - 1
    BY <1>6, <2>1
  <2>3. /\ KeepWaitingOf(0, 0, d, s[k]) \in D
        /\ Len(KeepWaitingOf(0, 0, d, s[k])) <= Len(d) + 1
        /\ Len(d) \in Nat /\ Len(KeepWaitingOf(0, 0, d, s[k])) \in Nat
    BY <1>3, <2>1
  <2>4. Len(KeepWaitingOf(0, 0, d, s[k])) <= k
    BY <2>1, <2>2, <2>3
  <2> QED
    BY <2>1, <2>3, <2>4
<1>7. kept \in D /\ kept \in Inv[Len(s)]
  <2> HIDE DEF D, Inv, s
  <2> QED
    BY <1>1, <1>3, <1>4, <1>5, <1>6, Waiters!FoldKeeps
<1>8. AdvanceSimulator(sim) = [active |-> sim.active, entries |-> kept]
  <2>1. AdvanceSimulator(sim) = [sim EXCEPT !.entries = kept]
    BY DEF AdvanceSimulator, KeepWaitingOf, FoldLeft, MapThenFoldSet, Max, Waiters!Fold,
       Waiters!FoldLeft, Waiters!MapThenFoldSet, Waiters!Max
  <2> HIDE DEF kept
  <2> QED
    BY <2>1, SimulatorFields
<1>9. Len(kept) <= Len(s) /\ Len(kept) \in Nat
  <2> HIDE DEF F, kept
  <2>1. kept \in Seq(F) /\ Len(s) \in 0 .. Len(s)
    BY <1>1, <1>7
  <2> QED
    BY <1>7, <2>1
<1>10. kept \in Seq(E)
  <2> HIDE DEF kept
  <2>1. F \subseteq E /\ kept \in Seq(F)
    BY <1>7
  <2> HIDE DEF F
  <2> QED
    BY <2>1
<1>11. ~sim.active => kept = <<>>
  <2> HAVE ~sim.active
  <2>1. s = <<>>
    BY SimulatorFields
  <2>2. Len(kept) = 0
    BY <1>9, <2>1
  <2> HIDE DEF kept
  <2> QED
    BY <1>10, <2>2
<1>12. AdvanceSimulator(sim) \in Simulators(E)
  <2>1. Len(kept) <= SimulatorCapacity
    BY <1>1, <1>9, SimulatorHasRoom
  <2> HIDE DEF kept
  <2> QED
    BY <1>8, <1>10, <1>11, <2>1, SimulatorFields, SimulatorWith
<1>13. ~ReceiveAsserts(AdvanceSimulator(sim))
  <2> HIDE DEF kept
  <2>1. AdvanceSimulator(sim).entries = kept
    BY <1>8
  <2>2. \A k \in DOMAIN kept : kept[k] \in F
    <3> HIDE DEF F
    <3>1. kept \in Seq(F)
      BY <1>7
    <3> QED
      BY <3>1
  <2> QED
    BY <2>1, <2>2 DEF ReceiveAsserts
<1> QED
  BY <1>12, <1>13

\* send_packet adds the packet given, and keeps within the capacity.
LEMMA PushPacketGood ==
  ASSUME NEW E, NEW sim \in Simulators(E), sim.active, NEW e \in E
  PROVE  PushPacket(sim, e) \in Simulators(E) /\ PushPacket(sim, e).active
<1> DEFINE s == sim.entries
           room == IF Len(s) = SimulatorCapacity THEN Tail(s) ELSE s
           k == Append(room, e)
<1>1. /\ s \in Seq(E) /\ Len(s) \in Nat /\ Len(s) <= SimulatorCapacity
      /\ sim = [active |-> TRUE, entries |-> s]
      /\ SimulatorCapacity \in Nat /\ SimulatorCapacity >= 1
  BY SimulatorFields, SimulatorHasRoom
<1> HIDE DEF s
<1>2. room \in Seq(E) /\ Len(room) \in Nat /\ Len(room) + 1 <= SimulatorCapacity
  <2>1. CASE Len(s) = SimulatorCapacity
    <3>1. s # <<>>
      BY <1>1, <2>1
    <3>2. Tail(s) \in Seq(E) /\ Len(Tail(s)) = Len(s) - 1
      BY <1>1, <3>1
    <3> QED
      BY <1>1, <2>1, <3>2
  <2>2. CASE Len(s) # SimulatorCapacity
    BY <1>1, <2>2
  <2> QED
    BY <2>1, <2>2
<1>3. PushPacket(sim, e) = [active |-> TRUE, entries |-> k]
  <2>1. PushPacket(sim, e) = [sim EXCEPT !.entries = k]
    BY DEF PushPacket, s
  <2> HIDE DEF k
  <2> QED
    BY <1>1, <2>1
<1> HIDE DEF room
<1>4. k \in Seq(E) /\ Len(k) <= SimulatorCapacity
  BY <1>1, <1>2
<1> HIDE DEF k
<1>5. [active |-> TRUE, entries |-> k] \in Simulators(E)
  BY <1>4, SimulatorWith
<1> QED
  BY <1>3, <1>5

\* send_packet queues the packet and drops others at most.
LEMMA SimulatorSendGood ==
  ASSUME NEW E, NEW sim \in Simulators(E), sim.active, NEW index, NEW packet,
         [client_index |-> index, packet |-> packet, consumed |-> FALSE] \in E,
         NEW copies \in Copies
  PROVE  /\ SimulatorSend(sim, index, packet, copies) \in Simulators(E)
         /\ SimulatorSend(sim, index, packet, copies).active
<1> DEFINE entry == [client_index |-> index, packet |-> packet, consumed |-> FALSE]
           seq == [n \in 1 .. copies |-> entry]
           D == {x \in Simulators(E) : x.active}
           pushed == Pushes!Fold(0, 0, sim, seq)
<1>1. seq \in Seq(E)
  <2>1. copies \in Nat
    BY DEF Copies
  <2>2. entry \in E
    OBVIOUS
  <2> HIDE DEF entry
  <2> QED
    BY <2>1, <2>2
<1>2. \A d \in D, e \in E : PushPacketOf(0, 0, d, e) \in D
  BY PushPacketGood DEF PushPacketOf
<1>3. sim \in D
  OBVIOUS
<1> HIDE DEF D, seq
<1>4. pushed \in D
  BY <1>1, <1>2, <1>3, Pushes!FoldStays
<1>5. SimulatorSend(sim, index, packet, copies) = pushed
  BY DEF SimulatorSend, PushPacketOf, FoldLeft, MapThenFoldSet, Max, Pushes!Fold,
     Pushes!FoldLeft, Pushes!MapThenFoldSet, Pushes!Max, seq
<1> HIDE DEF pushed
<1> QED
  BY <1>4, <1>5 DEF D

\* receive_packets only marks entries.
LEMMA SimulatorReceiveGood ==
  ASSUME NEW E, Queueable(E), NEW sim \in Simulators(E), NEW due
  PROVE  SimulatorReceive(sim, due) \in Simulators(E)
<1> DEFINE s == sim.entries
           l == Len(s)
           k == [n \in DOMAIN s |-> IF n \in due THEN [s[n] EXCEPT !.consumed = TRUE] ELSE s[n]]
<1>1. /\ s \in Seq(E) /\ l \in Nat /\ l <= SimulatorCapacity
      /\ sim = [active |-> sim.active, entries |-> s]
      /\ sim.active \in BOOLEAN /\ (~sim.active => s = <<>>)
      /\ DOMAIN s = 1 .. l /\ \A n \in 1 .. l : s[n] \in E
  BY SimulatorFields
<1>2. \A n \in 1 .. l : IF n \in due THEN [s[n] EXCEPT !.consumed = TRUE] \in E ELSE s[n] \in E
  BY <1>1 DEF Queueable
<1>3. SimulatorReceive(sim, due) = [active |-> sim.active, entries |-> k]
  <2>1. SimulatorReceive(sim, due) = [sim EXCEPT !.entries = k]
    BY DEF SimulatorReceive
  <2> HIDE DEF k, s
  <2> QED
    BY <1>1, <2>1
<1>4. k \in Seq(E) /\ Len(k) = l
  <2> HIDE DEF s, l
  <2>1. k \in [1 .. l -> E]
    BY <1>1, <1>2
  <2> HIDE DEF k
  <2> QED
    BY <1>1, <2>1
<1>5. ~sim.active => k = <<>>
  <2> HAVE ~sim.active
  <2>1. l = 0
    BY <1>1
  <2> HIDE DEF k, l
  <2> QED
    BY <1>4, <2>1
<1> HIDE DEF k, s
<1> QED
  BY <1>1, <1>3, <1>4, <1>5, SimulatorWith

\* discard_client_packets leaves the packets of the other clients.
LEMMA DiscardClientGood ==
  ASSUME NEW E, NEW sim \in Simulators(E), NEW i
  PROVE  DiscardClientPackets(sim, i) \in Simulators({e \in E : e.client_index # i})
<1> DEFINE s == sim.entries
           F == {e \in E : e.client_index # i}
           D == Seq(F)
           Inv == [k \in 0 .. Len(s) |-> {d \in D : Len(d) <= k}]
           kept == Others!Fold(i, i, <<>>, s)
<1>1. s \in Seq(E) /\ Len(s) \in Nat /\ Len(s) <= SimulatorCapacity
  BY SimulatorFields
<1>3. ASSUME NEW d \in D, NEW e \in E
      PROVE  /\ KeepOthersOf(i, i, d, e) \in D
             /\ Len(KeepOthersOf(i, i, d, e)) <= Len(d) + 1
             /\ Len(d) \in Nat /\ Len(KeepOthersOf(i, i, d, e)) \in Nat
  <2>1. e \in F \/ e.client_index = i
    OBVIOUS
  <2> HIDE DEF F
  <2>2. d \in Seq(F)
    OBVIOUS
  <2>3. e \in F => Append(d, e) \in Seq(F) /\ Len(Append(d, e)) = Len(d) + 1
    BY <2>2
  <2>4. Len(d) \in Nat
    BY <2>2
  <2> QED
    BY <2>1, <2>2, <2>3, <2>4 DEF KeepOthersOf, KeepOthers
<1>4. <<>> \in D /\ Len(<<>>) = 0 /\ 0 \in 0 .. Len(s)
  <2> HIDE DEF F
  <2>1. <<>> \in Seq(F)
    OBVIOUS
  <2> QED
    BY <1>1, <2>1
<1>5. <<>> \in Inv[0]
  BY <1>4
<1>6. ASSUME NEW k \in 1 .. Len(s), NEW d \in D, d \in Inv[k - 1]
      PROVE  KeepOthersOf(i, i, d, s[k]) \in Inv[k]
  <2>1. k \in 0 .. Len(s) /\ k - 1 \in 0 .. Len(s) /\ s[k] \in E /\ k \in Int
    BY <1>1
  <2>2. Len(d) <= k - 1
    BY <1>6, <2>1
  <2>3. /\ KeepOthersOf(i, i, d, s[k]) \in D
        /\ Len(KeepOthersOf(i, i, d, s[k])) <= Len(d) + 1
        /\ Len(d) \in Nat /\ Len(KeepOthersOf(i, i, d, s[k])) \in Nat
    BY <1>3, <2>1
  <2>4. Len(KeepOthersOf(i, i, d, s[k])) <= k
    BY <2>1, <2>2, <2>3
  <2> QED
    BY <2>1, <2>3, <2>4
<1>7. kept \in D /\ kept \in Inv[Len(s)]
  <2> HIDE DEF D, Inv, s
  <2> QED
    BY <1>1, <1>3, <1>4, <1>5, <1>6, Others!FoldKeeps
<1>8. DiscardClientPackets(sim, i) = [active |-> sim.active, entries |-> kept]
  <2>1. DiscardClientPackets(sim, i) = [sim EXCEPT !.entries = kept]
    BY DEF DiscardClientPackets, KeepOthersOf, FoldLeft, MapThenFoldSet, Max, Others!Fold,
       Others!FoldLeft, Others!MapThenFoldSet, Others!Max
  <2> HIDE DEF kept
  <2> QED
    BY <2>1, SimulatorFields
<1>9. Len(kept) <= Len(s) /\ Len(kept) \in Nat /\ kept \in Seq(F)
  <2> HIDE DEF F, kept
  <2>1. kept \in Seq(F) /\ Len(s) \in 0 .. Len(s)
    BY <1>1, <1>7
  <2> QED
    BY <1>7, <2>1
<1>10. ~sim.active => kept = <<>>
  <2> HAVE ~sim.active
  <2>1. s = <<>>
    BY SimulatorFields
  <2>2. Len(kept) = 0
    BY <1>9, <2>1
  <2> HIDE DEF kept, F
  <2> QED
    BY <1>9, <2>2
<1>11. Len(kept) <= SimulatorCapacity
  BY <1>1, <1>9, SimulatorHasRoom
<1> HIDE DEF kept, F
<1> QED
  <2>1. [active |-> sim.active, entries |-> kept] \in Simulators(F)
    BY <1>9, <1>10, <1>11, SimulatorFields, SimulatorWith
  <2> QED
    BY <1>8, <2>1 DEF F

\* Fewer entries may be in it.
LEMMA SimulatorsGrow ==
  ASSUME NEW E, NEW F \in SUBSET E, NEW sim \in Simulators(F)
  PROVE  sim \in Simulators(E)
<1>1. /\ sim.active \in BOOLEAN /\ sim.entries \in Seq(F)
      /\ Len(sim.entries) <= SimulatorCapacity
      /\ ~sim.active => sim.entries = <<>>
      /\ sim = [active |-> sim.active, entries |-> sim.entries]
  BY SimulatorFields
<1> DEFINE s == sim.entries
<1>2. s \in Seq(E)
  <2>1. s \in Seq(F)
    BY <1>1
  <2> HIDE DEF s
  <2> QED
    BY <2>1
<1> HIDE DEF s
<1> QED
  <2>1. s \in Seq(E) /\ Len(s) <= SimulatorCapacity /\ (~sim.active => s = <<>>)
    BY <1>1, <1>2 DEF s
  <2>2. [active |-> sim.active, entries |-> s] \in Simulators(E)
    BY <1>1, <2>1, SimulatorWith
  <2> QED
    BY <1>1, <2>2 DEF s

\* A connection that is not in an error state after advance_time has no channel
\* that is.
LEMMA AdvanceFindsErrors ==
  ASSUME NEW V, NEW conn \in Connections(V), AdvanceConnection(conn).error_level = "None"
  PROVE  ErroredChannels(AdvanceConnection(conn)) = {}
<1>1. \A c \in ChannelIndexes : AdvanceChannel(conn.channels[c]) = conn.channels[c]
  BY ConnectionFields, AdvanceKeepsChannel
<1>2. \A c \in ChannelIndexes : AdvanceConnection(conn).channels[c] = conn.channels[c]
  BY <1>1 DEF AdvanceConnection
<1>3. ErroredChannels(AdvanceConnection(conn)) = ErroredChannels(conn)
  BY <1>2 DEF ErroredChannels
<1>4. AdvanceConnection(conn).error_level
        = IF ErroredChannels(conn) # {} THEN "Channel" ELSE conn.error_level
  BY DEF AdvanceConnection
<1> QED
  BY <1>3, <1>4
=================================================================================
