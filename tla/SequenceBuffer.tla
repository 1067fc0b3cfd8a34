---------------------------- MODULE SequenceBuffer ----------------------------
(***************************************************************************)
(* SequenceBuffer<T> (src/src/channel/sequence_buffer.rs): a ring of       *)
(* `capacity` slots indexed by sequence number % capacity, with a pointer  *)
(* `sequence` one past the most recent number inserted.  The three queues  *)
(* of a reliable channel are sequence buffers.                             *)
(*                                                                         *)
(* A buffer is a record.  The code's two parallel vectors entry_sequence   *)
(* and entries are one function `slots`: a slot is Empty when its          *)
(* entry_sequence is None, whatever is left in `entries`, which no method  *)
(* can then read.                                                          *)
(***************************************************************************)
EXTENDS SequenceNumbers

NoSeq == -1

Empty == [seq |-> NoSeq]

Slot(s, v) == [seq |-> s, val |-> v]

NewBuffer(cap) ==
    [capacity |-> cap, sequence |-> 0, slots |-> [i \in 0 .. cap - 1 |-> Empty]]

SequenceIndex(b, s) == s % b.capacity

Exists(b, s) == b.slots[SequenceIndex(b, s)].seq = s

Available(b, s) == b.slots[SequenceIndex(b, s)].seq = NoSeq

\* The value stored under s; to be used where Exists(b, s).
Get(b, s) == b.slots[SequenceIndex(b, s)].val

\* The sequence numbers the buffer has an entry for.
Held(b) == {b.slots[i].seq : i \in DOMAIN b.slots} \ {NoSeq}

\* Bug: a range that wraps is taken as empty.
RemoveEntriesNoWrap(b, start, end) ==
    [b EXCEPT !.slots =
        [i \in DOMAIN b.slots |->
            IF \E s \in start .. end : s % b.capacity = i
            THEN Empty ELSE b.slots[i]]]

\* Bug: only the last number of the range is cleared.
RemoveEntriesLast(b, start, end) ==
    [b EXCEPT !.slots[end % b.capacity] = Empty]

\* remove_entries: clears the slots of start .. end.  When the range wraps the
\* code adds u16::MAX, one less than the number of sequence numbers, so that
\* the last slot of a wrapped range is left alone.
RemoveEntries(b, start, end) ==
    LET last == IF end < start THEN end + (Modulus - 1) ELSE end
    IN  [b EXCEPT !.slots =
            [i \in DOMAIN b.slots |->
                IF \/ last - start >= b.capacity
                   \/ \E s \in start .. last : s % b.capacity = i
                THEN Empty
                ELSE b.slots[i]]]

\* Inserting s moves the pointer.
Advances(b, s) == SequenceGreaterThan(WrappingAdd(s, 1), b.sequence)

\* Bug: numbers one older than the window are taken.
TooOldOffByOne(b, s) ==
    /\ ~Advances(b, s)
    /\ SequenceLessThan(s, WrappingSub(b.sequence, b.capacity + 1))

\* insert_with refuses s.
TooOld(b, s) ==
    /\ ~Advances(b, s)
    /\ SequenceLessThan(s, WrappingSub(b.sequence, b.capacity))

\* insert_with returns ~TooOld(b, s) and leaves this buffer behind.
InsertWith(b, s, v) ==
    LET cleared == [RemoveEntries(b, b.sequence, s)
                       EXCEPT !.sequence = WrappingAdd(s, 1)]
        room    == IF Advances(b, s) THEN cleared ELSE b
    IN  IF TooOld(b, s)
        THEN b
        ELSE [room EXCEPT !.slots[SequenceIndex(b, s)] = Slot(s, v)]

\* take(s) returns Get(b, s) where Exists(b, s), else None.
Take(b, s) ==
    IF Exists(b, s)
    THEN [b EXCEPT !.slots[SequenceIndex(b, s)] = Empty]
    ELSE b

ResetBuffer(b) ==
    [b EXCEPT !.sequence = 0, !.slots = [i \in DOMAIN b.slots |-> Empty]]

-----------------------------------------------------------------------------

BufferType(cap, Values) ==
    [capacity : {cap},
     sequence : SeqNum,
     slots    : [0 .. cap - 1 -> [seq : SeqNum, val : Values] \cup {Empty}]]

\* What every buffer reached by the operations satisfies: an entry is in its
\* own slot and among the `capacity` numbers just below the pointer.
InWindow(b) ==
    \A i \in DOMAIN b.slots :
        LET s == b.slots[i].seq
        IN  s # NoSeq => /\ s % b.capacity = i
                         /\ Behind(b.sequence, s) < b.capacity
==============================================================================
