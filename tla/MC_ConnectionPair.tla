---------------------------- MODULE MC_ConnectionPair ----------------------------
(* Small instances of ConnectionPair for TLC.                                 *)
EXTENDS ConnectionPair

\* Every message is one byte.
OneByte(m) == 8

UnreliableThenReliable == <<UnreliableUnordered, ReliableOrdered>>

\* The client sends on both channels, more on the reliable one than a receive queue
\* holds, the server on the reliable one.
MostlyClient(p, i) ==
    CASE p = "client" /\ i \in Ordered -> 3
      [] p = "client" /\ i \notin Ordered -> 1
      [] p = "server" /\ i \in Ordered -> 1
      [] OTHER -> 0

\* The packets the two peers send in a session.
ThreeAndTwo(p) == IF p = "client" THEN 3 ELSE 2

\* ... as many as they like: sequences are below Modulus.
AnyNumber(p) == Modulus

TwoReliable == <<ReliableOrdered, ReliableOrdered>>

\* The client sends on the first channel, the server on the second.
OneEach(p, i) == IF (p = "client") = (i = 1) THEN 1 ELSE 0
==============================================================================
