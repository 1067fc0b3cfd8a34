------------------------------- MODULE WindowMap -------------------------------
(***************************************************************************)
(* What a sequence buffer promises its users: a map from sequence numbers  *)
(* to values that remembers exactly what was stored under the latest       *)
(* Window numbers and nothing else.  There are no slots here, so no        *)
(* collisions: the detailed specification is SequenceBufferMachine.        *)
(***************************************************************************)
EXTENDS SequenceNumbers

CONSTANTS Window,   \* how many numbers back the map remembers
          Values    \* what it stores

VARIABLES head,     \* one past the most recent number stored
          held,     \* the function from the numbers remembered to their values
          ret       \* what the last call returned

vars == <<head, held, ret>>

Init == /\ head = 0
        /\ held = [s \in {} |-> 0]
        /\ ret = <<>>

\* How far ahead of the head s + 1 is.
Ahead(s) == (s + 1 - head) % Modulus

Remember(newHead, s, v) ==
    [t \in {s} \cup {u \in DOMAIN held : Behind(newHead, u) < Window} |->
        IF t = s THEN v ELSE held[t]]

\* A number up to half the number space ahead becomes the most recent one.
StoreNewer(s, v) ==
    /\ Ahead(s) \in 1 .. Half
    /\ head' = WrappingAdd(s, 1)
    /\ held' = Remember(WrappingAdd(s, 1), s, v)
    /\ ret' = <<"insert", TRUE>>

\* A number inside the window is stored without moving it.
StoreInWindow(s, v) ==
    /\ Behind(head, s) < Window
    /\ held' = Remember(head, s, v)
    /\ ret' = <<"insert", TRUE>>
    /\ UNCHANGED head

\* Any other is refused; exactly half way round, the map may choose.
Refuse(s) ==
    /\ Ahead(s) \notin 1 .. Half - 1
    /\ Behind(head, s) >= Window
    /\ ret' = <<"insert", FALSE>>
    /\ UNCHANGED <<head, held>>

Insert(s, v) == StoreNewer(s, v) \/ StoreInWindow(s, v) \/ Refuse(s)

Take(s) ==
    /\ held' = [t \in DOMAIN held \ {s} |-> held[t]]
    /\ ret' = IF s \in DOMAIN held THEN <<"take", held[s]>> ELSE <<"take">>
    /\ UNCHANGED head

Reset ==
    /\ head' = 0
    /\ held' = [s \in {} |-> 0]
    /\ ret' = <<>>

Next == \/ \E s \in SeqNum : \E v \in Values : Insert(s, v)
        \/ \E s \in SeqNum : Take(s)
        \/ Reset

Spec == Init /\ [][Next]_vars
==============================================================================
