-------------------------- MODULE SequenceBufferProofs --------------------------
(***************************************************************************)
(* Theorems about SequenceBufferMachine for every Modulus, Capacity and     *)
(* Values: the shape of the buffer, that nothing stale survives, and that  *)
(* the buffer implements WindowMap.                                        *)
(***************************************************************************)
EXTENDS SequenceBufferMachine, OperatorLemmas

\* Buffers of this machine.
Buffers == BufferType(Capacity, Values)

\* Buffers with nothing out of place.
Good == GoodBuffers(Capacity, Values)

\* The assumption on the machine's constants, in the words of the lemmas.
LEMMA CapacityIsValid ==
  /\ ValidSize(Capacity)
  /\ GoodCapacity => GoodSize(Capacity)
BY CapacityAssumption DEF ValidSize, GoodSize, GoodCapacity

-----------------------------------------------------------------------------
(* Type correctness.                                                         *)

\* The buffer keeps its capacity and holds u16 numbers in every slot, whatever
\* the calls: SequenceBuffer::new, insert_with, take and reset.
THEOREM TypeCorrect == Spec => []TypeOK
<1>1. Init => TypeOK
  BY CapacityIsValid, NewBufferType DEF Init, TypeOK, Buffers
<1>2. TypeOK /\ [Next]_vars => TypeOK'
  <2> SUFFICES ASSUME TypeOK, [Next]_vars PROVE TypeOK'
    OBVIOUS
  <2> USE DEF TypeOK, Buffers
  <2>1. ASSUME NEW s \in SeqNum, NEW v \in Values, Insert(s, v) PROVE TypeOK'
    BY CapacityIsValid, <2>1, InsertWithType DEF Insert, Buffers
  <2>2. ASSUME NEW s \in SeqNum, TakeEntry(s) PROVE TypeOK'
    BY CapacityIsValid, <2>2, TakeType DEF TakeEntry, Buffers
  <2>3. CASE Reset
    BY CapacityIsValid, <2>3, ResetType DEF Reset, Buffers
  <2>4. CASE UNCHANGED vars
    BY <2>4 DEF vars
  <2> QED
    BY <2>1, <2>2, <2>3, <2>4 DEF Next
<1> QED
  BY <1>1, <1>2, PTL DEF Spec

-----------------------------------------------------------------------------
(* Nothing stale survives.                                                   *)

\* Every step of the machine keeps the buffer good.
LEMMA GoodStep ==
  ASSUME GoodCapacity, buf \in Good, [Next]_vars
  PROVE  buf' \in Good
<1>1. ASSUME NEW s \in SeqNum, NEW v \in Values, Insert(s, v)
      PROVE  buf' \in Good
  BY CapacityIsValid, <1>1, InsertWithInWindow DEF Insert, Good
<1>2. ASSUME NEW s \in SeqNum, TakeEntry(s) PROVE buf' \in Good
  BY CapacityIsValid, <1>2, TakeInWindow DEF TakeEntry, Good
<1>3. CASE Reset
  BY CapacityIsValid, <1>3, EmptyBuffersGood DEF Reset, Good, GoodBuffers
<1>4. CASE UNCHANGED vars
  BY <1>4 DEF vars
<1> QED
  BY <1>1, <1>2, <1>3, <1>4 DEF Next

\* The buffer is good all the time.
LEMMA AlwaysGood == ASSUME GoodCapacity PROVE Spec => [](buf \in Good)
<1>1. Init => buf \in Good
  BY CapacityIsValid, EmptyBuffersGood DEF Init, Good
<1>2. buf \in Good /\ [Next]_vars => (buf \in Good)'
  BY GoodStep
<1> QED
  BY <1>1, <1>2, PTL DEF Spec

\* Every entry a sequence buffer holds is in the slot of its number and among
\* the latest Capacity numbers, whatever the calls and across the wrap of the
\* sequence numbers: remove_entries leaves nothing stale behind, although it
\* misses the last slot of a range that wraps.
THEOREM NoStaleEntries == ASSUME GoodCapacity PROVE Spec => []NothingStale
<1>1. buf \in Good => NothingStale
  BY DEF Good, GoodBuffers, NothingStale
<1> QED
  BY <1>1, AlwaysGood, PTL


-----------------------------------------------------------------------------
(* The buffer implements WindowMap.                                          *)

\* The map a buffer stands for.
Map(b) == [s \in Held(b) |-> Get(b, s)]

\* An insert is the map's insert.
LEMMA InsertMaps ==
  ASSUME GoodCapacity, buf \in Good, NEW s \in SeqNum, NEW v \in Values,
         Insert(s, v)
  PROVE  WM!Insert(s, v)
<1> DEFINE h == buf.sequence
           n == InsertWith(buf, s, v)
<1>1. buf \in Buffers /\ h \in SeqNum
  BY CapacityIsValid, BufferShape DEF Good, GoodBuffers, Buffers
<1>2. Map(buf)' = Map(buf') /\ h' = buf'.sequence
  BY DEF Map
<1>3. buf' = n /\ ret' = <<"insert", ~TooOld(buf, s)>>
  BY DEF Insert
<1>4. CASE TooOld(buf, s)
  <2>1. buf' = buf /\ ret' = <<"insert", FALSE>>
    BY <1>3, <1>4 DEF InsertWith
  <2>2. WM!Ahead(s) \notin 1 .. Half - 1
    BY <1>1, <1>4, AdvanceRange DEF WM!Ahead, TooOld, Advances
  <2>3. WM!Behind(h, s) >= Capacity
    <3>1. SequenceGreaterThan(WrappingSub(h, Capacity), s)
      BY <1>1, <1>4, CapacityIsValid, BufferShape DEF TooOld, SequenceLessThan, Buffers
    <3>2. Capacity \in SeqNum /\ Capacity \in Nat /\ Capacity >= 2 /\ Capacity <= Half
      BY CapacityIsValid, CapacityDivides, HalfOfModulus DEF SeqNum
    <3>3. WrappingSub(h, Capacity)
             = IF Capacity <= h THEN h - Capacity ELSE h - Capacity + Modulus
      BY <1>1, <3>2, SubtractCases
    <3>4. Behind(h, s) = IF s < h THEN h - 1 - s ELSE h - 1 - s + Modulus
      BY <1>1, BehindCases
    <3> HIDE DEF h
    <3>5. Behind(h, s) >= Capacity
      BY <1>1, <3>1, <3>2, <3>3, <3>4, HalfOfModulus DEF SeqNum, SequenceGreaterThan
    <3> QED
      BY <3>5 DEF Behind, WM!Behind
  <2>4. WM!Refuse(s)
    BY <2>1, <2>2, <2>3 DEF WM!Refuse, WM!Half, Half
  <2> QED
    BY <2>4 DEF WM!Insert
<1>5. CASE ~TooOld(buf, s)
  <2>1. /\ Held(n) = {s} \cup {u \in Held(buf) : Behind(n.sequence, u) < Capacity}
        /\ Get(n, s) = v
        /\ \A u \in Held(n) : u # s => Get(n, u) = Get(buf, u)
    BY CapacityIsValid, <1>5, MapInsert DEF Good
  <2>2. n.sequence = IF Advances(buf, s) THEN WrappingAdd(s, 1) ELSE h
    BY CapacityIsValid, <1>1, <1>5, InsertFields DEF Buffers
  <2>3. \A u \in Held(n) \ {s} : u \in Held(buf)
    BY <2>1
  <2> HIDE DEF n
  <2>4. Map(n) = [t \in {s} \cup {u \in Held(buf) : Behind(n.sequence, u) < Capacity} |->
                    IF t = s THEN v ELSE Map(buf)[t]]
    BY <2>1, <2>3 DEF Map
  <2>5. Map(n) = WM!Remember(n.sequence, s, v)
    BY <2>4 DEF WM!Remember, Map, Behind, WM!Behind
  <2>6. ret' = <<"insert", TRUE>>
    BY <1>3, <1>5
  <2>7. CASE Advances(buf, s)
    <3>1. WM!Ahead(s) \in 1 .. WM!Half
      BY <1>1, <2>7, AdvanceRange DEF WM!Ahead, Advances, WM!Half, Half
    <3>2. n.sequence = WM!WrappingAdd(s, 1)
      BY <2>2, <2>7 DEF WrappingAdd, WM!WrappingAdd
    <3>3. WM!StoreNewer(s, v)
      BY <1>2, <1>3, <2>5, <2>6, <3>1, <3>2 DEF WM!StoreNewer, Map
    <3> QED
      BY <3>3 DEF WM!Insert
  <2>8. CASE ~Advances(buf, s)
    <3>1. WM!Behind(h, s) < Capacity
      BY CapacityIsValid, <1>1, <1>5, <2>8, AcceptedInPlace DEF Behind, WM!Behind, Buffers
    <3>2. n.sequence = h
      BY <2>2, <2>8
    <3>3. WM!StoreInWindow(s, v)
      BY <1>2, <1>3, <2>5, <2>6, <3>1, <3>2 DEF WM!StoreInWindow, Map
    <3> QED
      BY <3>3 DEF WM!Insert
  <2> QED
    BY <2>7, <2>8
<1> QED
  BY <1>4, <1>5

\* A take is the map's take.
LEMMA TakeMaps ==
  ASSUME buf \in Good, NEW s \in SeqNum, TakeEntry(s)
  PROVE  WM!Take(s)
<1> DEFINE n == Take(buf, s)
<1>1. buf' = n
  BY DEF TakeEntry
<1>2. Exists(buf, s) <=> s \in Held(buf)
  BY CapacityIsValid, ExistsHeld DEF Good
<1>3. ret' = IF s \in Held(buf) THEN <<"take", Map(buf)[s]>> ELSE <<"take">>
  BY <1>2 DEF TakeEntry, Map
<1>4. /\ n.sequence = buf.sequence
      /\ Held(n) = Held(buf) \ {s}
      /\ \A u \in Held(n) : Get(n, u) = Get(buf, u)
  BY CapacityIsValid, TakeHeld DEF Good
<1> HIDE DEF n
<1>5. Map(n) = [t \in Held(buf) \ {s} |-> Map(buf)[t]]
  BY <1>4 DEF Map
<1> QED
  BY <1>1, <1>3, <1>4, <1>5 DEF WM!Take, Map

\* An empty buffer is the empty map.
LEMMA EmptyMaps ==
  /\ Map(NewBuffer(Capacity)) = [s \in {} |-> 0]
  /\ \A b \in Buffers : Map(ResetBuffer(b)) = [s \in {} |-> 0]
BY CapacityIsValid, EmptyHeld DEF Map, Buffers

\* A sequence buffer is a map of the latest Capacity sequence numbers: every
\* call of insert_with, take and reset has the result and the effect WindowMap
\* allows, for every width of the sequence numbers and every capacity that
\* divides it and is at most half of it.
THEOREM BufferImplementsMap == ASSUME GoodCapacity PROVE Spec => ImplementsWindowMap
<1>1. Init => WM!Init
  <2>1. Map(NewBuffer(Capacity)) = [s \in {} |-> 0]
    BY EmptyMaps
  <2>2. NewBuffer(Capacity).sequence = 0
    BY DEF NewBuffer
  <2> HIDE DEF NewBuffer
  <2> QED
    BY <2>1, <2>2 DEF Init, WM!Init, Map
<1>2. buf \in Good /\ [Next]_vars => [WM!Next]_(WM!vars)
  <2> SUFFICES ASSUME buf \in Good, [Next]_vars PROVE [WM!Next]_(WM!vars)
    OBVIOUS
  <2>1. ASSUME NEW s \in SeqNum, NEW v \in Values, Insert(s, v) PROVE WM!Next
    BY <2>1, InsertMaps DEF WM!Next, WM!SeqNum, SeqNum
  <2>2. ASSUME NEW s \in SeqNum, TakeEntry(s) PROVE WM!Next
    BY <2>2, TakeMaps DEF WM!Next, WM!SeqNum, SeqNum
  <2>3. CASE Reset
    <3>1. ResetBuffer(buf).sequence = 0
      BY DEF ResetBuffer, Good, Buffers, BufferType
    <3>2. WM!Reset
      BY <2>3, <3>1, EmptyMaps DEF Reset, WM!Reset, Good, GoodBuffers, Buffers, Map
    <3> QED
      BY <3>2 DEF WM!Next
  <2>4. CASE UNCHANGED vars
    BY <2>4 DEF vars, WM!vars
  <2> QED
    BY <2>1, <2>2, <2>3, <2>4 DEF Next
<1> QED
  BY <1>1, <1>2, AlwaysGood, PTL DEF Spec, WM!Spec, ImplementsWindowMap



-----------------------------------------------------------------------------
\* A full window is told from a free one by the slot at the pointer alone: that
\* slot is empty exactly when the entry Capacity numbers older is gone, so the
\* channel's can_send_message never refuses while the window has room and never
\* lets an unacked message be overwritten.
THEOREM SlotAtPointer == ASSUME GoodCapacity PROVE Spec => []AvailableMeansOldestGone
<1>1. buf \in Good => AvailableMeansOldestGone
  <2> SUFFICES ASSUME buf \in Good PROVE AvailableMeansOldestGone
    OBVIOUS
  <2>1. Available(buf, buf.sequence)
            <=> WrappingSub(buf.sequence, Capacity) \notin Held(buf)
    BY CapacityIsValid, FreeSlot DEF Good
  <2>2. Capacity \in SeqNum /\ buf.sequence \in SeqNum
    BY CapacityAssumption, CapacityIsValid, BufferShape DEF Good, GoodBuffers, SeqNum
  <2>3. WrappingSub(buf.sequence, Capacity) \in SeqNum
    BY <2>2, SubtractCases
  <2> QED
    BY <2>1, <2>3, CapacityIsValid, ExistsHeld DEF Good, AvailableMeansOldestGone
<1> QED
  BY <1>1, AlwaysGood, PTL
==============================================================================
