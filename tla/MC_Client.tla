-------------------------------- MODULE MC_Client --------------------------------
(* A small instance of Client for TLC.                                        *)
EXTENDS Client

OneByte(m) == 8
OneUnreliable == <<UnreliableUnordered>>
==============================================================================
