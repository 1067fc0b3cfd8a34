----------------------------- MODULE MC_PacketBudget -----------------------------
(* Small instances of PacketBudget for TLC.                                   *)
EXTENDS PacketBudget

\* A message is its size.
ItsSize(m) == m

\* The reliable channel has what the unreliable one leaves.
ReliableSecond == <<UnreliableUnordered, ReliableOrdered>>

ReliableFirst == <<ReliableOrdered, UnreliableUnordered>>
==============================================================================
