--------------------------- MODULE MC_SequenceBuffer ---------------------------
(* Small instances of SequenceBufferMachine for TLC.                         *)
EXTENDS SequenceBufferMachine
==============================================================================
