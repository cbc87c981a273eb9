------------------------------ MODULE TickLoop ------------------------------
(***************************************************************************)
(* The server's tick thread: ExchangeSimulator::tick_loop                  *)
(* (src/server/exchange_simulator.cpp) with TickGenerator                  *)
(* (src/server/tick_generator.cpp), seen from one client.  What broadcast  *)
(* does with the client table, the spill queues and partial sends is       *)
(* ExchangeServer's; here a message reaches the connection whole and in    *)
(* order while the client is live, and is lost to it otherwise.            *)
(*                                                                         *)
(* Data.  exp() may return any positive number, so the next price does not *)
(* depend on the present one and is drawn afresh.  Prices are multiples of *)
(* a unit smaller than the tick.  Quantities, times, names and the pacing  *)
(* of the batches are left out.                                            *)
(***************************************************************************)
EXTENDS Protocol, Sequences

CONSTANTS
    num_symbols,    \* number of symbols generated
    batch_size,     \* ticks per batch
    FaultPeriod,    \* fault injection looks at seq modulo this number (100)
    TICK_SIZE,      \* in price units
    MinPrice,       \* the floor of a price, 1.0
    initial_price,  \* initial_price of a symbol
    NewPrices,      \* the values new_price may take
    HalfSpread,     \* HalfSpread[p][wide], half the spread at price p
    MaxMessages,    \* bound: messages generated
    MaxWire         \* bound: messages on the connection

ASSUME LoopAssumption ==
    /\ num_symbols \in Nat \ {0} /\ batch_size \in Nat \ {0}
    /\ FaultPeriod \in Nat \ {0} /\ MaxMessages \in Nat /\ MaxWire \in Nat
ASSUME PriceAssumption ==
    /\ TICK_SIZE \in Nat \ {0} /\ NewPrices \subseteq Nat
    /\ MinPrice \in Nat /\ initial_price \in Nat /\ MinPrice <= initial_price
    /\ HalfSpread \in [NewPrices \union {initial_price} -> [BOOLEAN -> Nat]]
\* Spreads are a small fraction of the price, and the floor is many ticks.
ASSUME SpreadAssumption ==
    \A p \in DOMAIN HalfSpread, w \in BOOLEAN :
        p >= MinPrice => HalfSpread[p][w] + TICK_SIZE <= p

VARIABLES
    fault_injection,  \* fault_injection_, set before the start
    tpc,              \* tick thread: "batch", "heartbeat"; after stop() "last", "exit"
    b,                \* ticks of the batch done
    seq, symbol_idx,  \* as in tick_loop
    msgs_broadcast,   \* msgs_broadcast_, summed over the servers started
    live,             \* the client is connected and in phase LIVE
    wire,             \* messages on their way to the client
    issued,           \* ghost: numbers used up, by all the servers started
    steppedBack       \* ghost: seq wrapped around, or the server restarted

ticking == <<fault_injection, tpc, b, seq, symbol_idx, msgs_broadcast, issued>>
link    == <<live, wire>>

TickTypes ==
    /\ fault_injection \in BOOLEAN
    /\ tpc \in {"batch", "heartbeat", "last", "exit"} /\ b \in 0 .. batch_size - 1
    /\ seq \in SeqNums /\ symbol_idx \in SeqNums
    /\ msgs_broadcast \in 0 .. MaxMessages
    /\ live \in BOOLEAN /\ Len(wire) <= MaxWire
    /\ issued \in Nat /\ steppedBack \in BOOLEAN
    /\ \A k \in DOMAIN wire :
          wire[k].msg.type \in Types /\ wire[k].msg.seq \in SeqNums /\ wire[k].pos \in Nat

\* start(), and the first statements of tick_loop.
TickInit ==
    /\ fault_injection \in BOOLEAN
    /\ tpc = "batch" /\ b = 0 /\ seq = 0 /\ symbol_idx = 0 /\ msgs_broadcast = 0
    /\ live = FALSE /\ wire = <<>> /\ issued = 0 /\ steppedBack = FALSE

-----------------------------------------------------------------------------
(***************************************************************************)
(* The generator.                                                          *)
(***************************************************************************)

\* std::round rounds a half away from zero.
round_tick(p) == ((2 * p + TICK_SIZE) \div (2 * TICK_SIZE)) * TICK_SIZE

\* Mutant: no floor.
FlooredNot(p) == p

\* The floor guard.
Floored(p) == IF p < MinPrice THEN initial_price ELSE p

\* The quote at price p: at least one tick wide.
QuoteAt(p, half) ==
    LET bid == round_tick(p - half)
        ask == round_tick(p + half)
    IN  [bid |-> bid, ask |-> IF ask - bid < TICK_SIZE THEN bid + TICK_SIZE ELSE ask]

\* A quote; the spread is wider after a large move.
QuotesAt(p) == {QuoteAt(p, HalfSpread[p][wide]) : wide \in BOOLEAN}

\* The price of a trade, somewhere in the spread.
TradesAt(p) ==
    LET half == HalfSpread[p][FALSE]
    IN  {round_tick(p - half + x) : x \in 0 .. 2 * half}

\* generate_tick: what it may emit for symbol sym with number n.
GenerateTick(sym, n) ==
    LET prices == {Floored(p) : p \in NewPrices}
    IN  {[type |-> "quote", seq |-> n, sym |-> sym, bid |-> q.bid, ask |-> q.ask] :
             q \in UNION {QuotesAt(p) : p \in prices}}
        \union
        {[type |-> "trade", seq |-> n, sym |-> sym, price |-> t] :
             t \in UNION {TradesAt(p) : p \in prices}}

\* The callback set by start(), for a client that is live or is not.  `skipped'
\* numbers were left out before this one; pos counts those used up before it.
Broadcast(m, skipped) ==
    /\ msgs_broadcast < MaxMessages
    /\ msgs_broadcast' = msgs_broadcast + 1
    /\ issued' = issued + skipped + 1
    /\ IF live
         THEN /\ Len(wire) < MaxWire
              /\ wire' = Append(wire, [msg |-> m, pos |-> issued + skipped])
         ELSE UNCHANGED wire

-----------------------------------------------------------------------------
(***************************************************************************)
(* The loop.                                                               *)
(***************************************************************************)

\* The numbers fault injection leaves out before the next tick.
Skipped == IF fault_injection /\ seq % FaultPeriod = FaultPeriod - 1 THEN 2 ELSE 0

\* One tick; the last one of a batch ends it.
Tick ==
    /\ tpc = "batch"
    /\ LET n == (seq + Skipped) % SeqMod
       IN  /\ \E m \in GenerateTick(symbol_idx % num_symbols, n) : Broadcast(m, Skipped)
           /\ seq' = NextSeqNum(n)
           /\ steppedBack' = (steppedBack \/ seq' # seq + Skipped + 1)
    /\ b' = (b + 1) % batch_size
    /\ tpc' = IF b' = 0 THEN "heartbeat" ELSE "batch"
    /\ symbol_idx' = NextSeqNum(symbol_idx)
    /\ UNCHANGED <<fault_injection, live>>

AfterBatch == tpc' = IF tpc = "last" THEN "exit" ELSE "batch"

\* A second has passed since the last heartbeat: it takes a number of its own.
Heartbeat ==
    /\ tpc \in {"heartbeat", "last"}
    /\ Broadcast([type |-> "heartbeat", seq |-> seq, sym |-> 0], 0)
    /\ seq' = NextSeqNum(seq)
    /\ steppedBack' = (steppedBack \/ seq' # seq + 1)
    /\ AfterBatch
    /\ UNCHANGED <<fault_injection, b, symbol_idx, live>>

\* Or it has not.
NoHeartbeat ==
    /\ tpc \in {"heartbeat", "last"}
    /\ AfterBatch
    /\ UNCHANGED <<fault_injection, b, seq, symbol_idx, msgs_broadcast, issued, link, steppedBack>>

\* stop() has cleared running_, and the tick thread finds it so: in the loop over
\* the batch, which goes on to the heartbeat, or before the batch.  The main
\* thread prints statistics for ever, so the process and its connections stay.
StopServer ==
    /\ tpc = "batch"
    /\ \/ tpc' = "last"
       \/ b = 0 /\ tpc' = "exit"
    /\ b' = 0
    /\ UNCHANGED <<fault_injection, seq, symbol_idx, msgs_broadcast, issued, link, steppedBack>>

\* The process is started again, with the same options.
StartAgain ==
    /\ tpc' = "batch" /\ b' = 0 /\ seq' = 0 /\ symbol_idx' = 0
    /\ steppedBack' = TRUE
    /\ UNCHANGED <<fault_injection, msgs_broadcast, issued>>

TickThread == Tick \/ Heartbeat \/ NoHeartbeat
=============================================================================
