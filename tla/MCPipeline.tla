----------------------------- MODULE MCPipeline -----------------------------
(***************************************************************************)
(* A small instance of Pipeline for TLC.  A tick is two price units and    *)
(* the floor two ticks.  A new price is below the floor, zero, or above    *)
(* it; spreads are so small that bid and ask round to the same tick.       *)
(***************************************************************************)
EXTENDS Pipeline

MCNewPrices == {0, 6}
MCHalfSpread == [p \in {0, 5, 6} |-> [wide \in BOOLEAN |-> 0]]
=============================================================================
