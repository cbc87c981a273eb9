--------------------------- MODULE MCSymbolCache ---------------------------
(* A small instance of SymbolCache for TLC.                                *)
EXTENDS SymbolCache, TLC

\* Ids 0 .. num_symbols, the last of them out of range.
MCSymbolIds == 0 .. num_symbols

MCQuotes == {[bid |-> 1, ask |-> 2], [bid |-> 2, ask |-> 3]}
=============================================================================
