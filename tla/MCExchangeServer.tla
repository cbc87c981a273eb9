-------------------------- MODULE MCExchangeServer --------------------------
(* A small instance of ExchangeServer for TLC.                             *)
EXTENDS ExchangeServer, TLC

\* Nothing tells one descriptor from another.
FdSymmetry == Permutations(Fds)
=============================================================================
