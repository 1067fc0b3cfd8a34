--------------------------- MODULE SequenceNumbers ---------------------------
(***************************************************************************)
(* The 16 bit sequence numbers of yojimbo-rs: message ids and packet       *)
(* sequences are u16 values that wrap, compared "considering wrapping" by  *)
(* sequence_greater_than and sequence_less_than                            *)
(* (src/src/channel/sequence_buffer.rs).  The width is the constant        *)
(* Modulus, 2^16 in the code, so that TLC can run with a small one.         *)
(***************************************************************************)
EXTENDS Integers

CONSTANT Modulus   \* how many sequence numbers there are: 2^16 in the code

ASSUME ModulusAssumption == /\ Modulus \in Nat
                           /\ Modulus >= 4
                           /\ Modulus % 2 = 0

SeqNum == 0 .. Modulus - 1

\* The 32768 of the comparison.
Half == Modulus \div 2

\* Bug: the addition does not wrap.
AddNoWrap(s, n) == s + n

\* u16::wrapping_add and u16::wrapping_sub.
WrappingAdd(s, n) == (s + n) % Modulus
WrappingSub(s, n) == (s - n) % Modulus

\* Bug: a comparison that ignores the wrap.
GreaterThanNoWrap(s1, s2) == s1 > s2

SequenceGreaterThan(s1, s2) ==
    \/ s1 > s2 /\ s1 - s2 <= Half
    \/ s1 < s2 /\ s2 - s1 > Half

SequenceLessThan(s1, s2) == SequenceGreaterThan(s2, s1)

\* How far s is behind the number just below the pointer h: 0 for h - 1.
Behind(h, s) == (h - 1 - s) % Modulus
==============================================================================
