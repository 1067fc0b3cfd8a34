------------------------- MODULE SequenceBufferMachine -------------------------
(***************************************************************************)
(* One SequenceBuffer and every call a caller may make on it, in any       *)
(* order.  Checked, and proved in SequenceBufferProofs, to implement       *)
(* WindowMap when the capacity divides the number of sequence numbers.     *)
(***************************************************************************)
EXTENDS SequenceBuffer

CONSTANTS Capacity,   \* the `size` given to SequenceBuffer::new
          Values      \* the entries

\* The only requirement SequenceBuffer::new asserts.
ASSUME CapacityAssumption == Capacity \in 1 .. Modulus - 1

VARIABLES buf,        \* the buffer
          ret         \* what the last call returned

vars == <<buf, ret>>

Init == buf = NewBuffer(Capacity) /\ ret = <<>>

Insert(s, v) ==
    /\ buf' = InsertWith(buf, s, v)
    /\ ret' = <<"insert", ~TooOld(buf, s)>>

TakeEntry(s) ==
    /\ buf' = Take(buf, s)
    /\ ret' = IF Exists(buf, s) THEN <<"take", Get(buf, s)>> ELSE <<"take">>

Reset == buf' = ResetBuffer(buf) /\ ret' = <<>>

Next == \/ \E s \in SeqNum : \E v \in Values : Insert(s, v)
        \/ \E s \in SeqNum : TakeEntry(s)
        \/ Reset

Spec == Init /\ [][Next]_vars

-----------------------------------------------------------------------------
(* The two requirements the code leaves to its callers: slots are not      *)
(* shared by two numbers of one window, across the wrap as well, and the   *)
(* window is at most half the number space.                                *)

GoodCapacity == /\ Capacity \in 2 .. Half
                /\ Modulus % Capacity = 0

\* TypeOK: the buffer keeps its shape (`capacity()` never changes) and its
\* slots hold u16 sequence numbers or nothing.
TypeOK == buf \in BufferType(Capacity, Values)

\* Nothing stale survives: every entry is in the slot of its number and among
\* the latest Capacity numbers, although remove_entries misses the last slot
\* of a range that wraps (the note from yojimbo above remove_entries says what
\* a stale entry does to the connection).
NothingStale == InWindow(buf)

\* The slot of the number at the pointer is free exactly when the entry
\* Capacity numbers older is gone: what can_send_message relies on to tell a
\* full send queue from a free one.
AvailableMeansOldestGone ==
    Available(buf, buf.sequence)
        <=> ~Exists(buf, WrappingSub(buf.sequence, Capacity))

\* The buffer is a map of the latest Capacity numbers: an entry is lost only
\* by being taken, overwritten under its own number, or left behind by the
\* window, and every call returns what the map returns.
WM == INSTANCE WindowMap WITH
          Window <- Capacity,
          head   <- buf.sequence,
          held   <- [s \in Held(buf) |-> Get(buf, s)]

ImplementsWindowMap == WM!Spec

\* The buffer remembers what was inserted: inserting the next number forgets
\* no entry that stays among the latest Capacity ones (the unit test inserts
\* numbers in order and "check[s] that the buffer remembers everything within
\* range of `size`").
RemembersEverything ==
    [][\A v \in Values :
          Insert(buf.sequence, v) =>
              \A s \in Held(buf) :
                  Behind(buf'.sequence, s) < Capacity => s \in Held(buf')]_vars
==============================================================================
