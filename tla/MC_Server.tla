-------------------------------- MODULE MC_Server --------------------------------
(* A small instance of Server for TLC.                                        *)
EXTENDS Server

OneByte(m) == 8
OneUnreliable == <<UnreliableUnordered>>
==============================================================================
