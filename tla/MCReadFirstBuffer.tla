-------------------------- MODULE MCReadFirstBuffer --------------------------
(* The instance of ReadFirstBuffer for TLC: MCBuffer.cfg gives the constants. *)
EXTENDS ReadFirstBuffer
=============================================================================
