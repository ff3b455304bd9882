------------------------- MODULE MCInstructionCodec -------------------------
(* Every byte string of at most Longest bytes of four values.               *)
EXTENDS InstructionCodec
=============================================================================
