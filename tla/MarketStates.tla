---------------------------- MODULE MarketStates ---------------------------
(***************************************************************************)
(* MarketState (include/common/cache.h) and what an update makes of one    *)
(* (src/common/cache.cpp).                                                 *)
(*                                                                         *)
(* The quantities and last_update_time are stored and copied like the      *)
(* fields kept here and take part in no condition, so they are left out.   *)
(* Prices are positive integers; open_price is kept in half units, so that *)
(* (bid + ask) * 0.5 is exact.                                             *)
(***************************************************************************)
EXTENDS Naturals

Fields == {"best_bid", "best_ask", "last_traded_price", "update_count",
           "open_price"}

MarketState == [Fields -> Nat]

\* The value of a default-initialised MarketState.
ZeroState == [f \in Fields |-> 0]

\* MarketState after a quote, and after a trade, is applied to st.
AfterQuote(st, bid, ask) ==
    [st EXCEPT !["best_bid"]     = bid,
               !["best_ask"]     = ask,
               !["update_count"] = @ + 1,
               !["open_price"]   = IF @ = 0 THEN bid + ask ELSE @]

\* Mutant: a trade counts down.
AfterTradeCountsDown(st, price) ==
    [st EXCEPT !["last_traded_price"] = price,
               !["update_count"]      = @ - 1,
               !["open_price"]        = IF @ = 0 THEN 2 * price ELSE @]

AfterTrade(st, price) ==
    [st EXCEPT !["last_traded_price"] = price,
               !["update_count"]      = @ + 1,
               !["open_price"]        = IF @ = 0 THEN 2 * price ELSE @]
=============================================================================
