----------------------------- MODULE MCByteRing -----------------------------
(* A small instance of ByteRing for TLC.                                   *)
EXTENDS ByteRing
=============================================================================
