------------------------------ MODULE MCParser ------------------------------
(***************************************************************************)
(* A small instance of Parser for TLC: sizes of a few bytes, in the order  *)
(* of the real ones (16 < 20 < 32 < 44).                                   *)
(***************************************************************************)
EXTENDS Parser

MCSize == [trade |-> 4, quote |-> 5, heartbeat |-> 3]

Msg(t, n, s) == [type |-> t, seq |-> n, sym |-> s]

\* An unbroken session with a message for a symbol out of range; a session in
\* which the server skips numbers (its fault injection).
Unbroken == << Msg("trade", 4, 0), Msg("quote", 5, 9), Msg("heartbeat", 6, 0), Msg("trade", 7, 1) >>
Skipping == << Msg("quote", 1, 0), Msg("heartbeat", 2, 0), Msg("quote", 5, 1), Msg("trade", 6, 0) >>
\* Numbers that reach the end of their range.
Wrapping == << Msg("heartbeat", 6, 0), Msg("trade", 7, 0), Msg("heartbeat", 0, 1), Msg("quote", 1, 0) >>
\* The server restarts and numbers from 0 again.
Restarted == << Msg("trade", 3, 0), Msg("quote", 4, 0), Msg("trade", 0, 1), Msg("quote", 1, 0) >>

MCStreams == {Unbroken, Skipping, Wrapping, Restarted}
=============================================================================
