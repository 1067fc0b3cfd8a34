--------------------------- MODULE MC_ReliableChannel ---------------------------
(* Small instances of ReliableChannel for TLC.                               *)
EXTENDS ReliableChannel

\* Every message is one byte.
OneByte(m) == 8

\* The fourth message is larger than any packet.
FourthTooLarge(m) == IF m = 4 THEN 2000 ELSE 8
==============================================================================
