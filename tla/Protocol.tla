----------------------------- MODULE Protocol ------------------------------
(***************************************************************************)
(* What the server and the client both know of the wire format             *)
(* (include/protocol.h): the kinds of messages and their numbering.        *)
(***************************************************************************)
EXTENDS Naturals

CONSTANT SeqMod  \* number of values of the uint32_t sequence number

ASSUME SeqModAssumption == SeqMod \in Nat \ {0}

Types == {"trade", "quote", "heartbeat"}

SeqNums == 0 .. SeqMod - 1

\* Unsigned 32-bit increment of a sequence number.
NextSeqNum(n) == (n + 1) % SeqMod
=============================================================================
