--------------------------- MODULE PipelineProofs ---------------------------
(***************************************************************************)
(* Proofs about Pipeline, for every number of symbols, entries, rows on    *)
(* the screen, messages and faults, and every range of sequence numbers.   *)
(***************************************************************************)
EXTENDS Pipeline, SequenceTheorems, FiniteSums, TLAPS

-----------------------------------------------------------------------------
(***************************************************************************)
(* The inductive invariant.                                                *)
(***************************************************************************)

\* What the generator puts into a message: prices above zero, a bid below the
\* ask.
Quotes ==
    {m \in [type : {"quote"}, seq : SeqNums, sym : Nat, bid : Nat, ask : Nat] :
        0 < m.bid /\ m.bid < m.ask}
Trades == {m \in [type : {"trade"}, seq : SeqNums, sym : Nat, price : Nat] : 0 < m.price}
Heartbeats == [type : {"heartbeat"}, seq : SeqNums, sym : Nat]

Packets == [msg : Quotes \union Trades \union Heartbeats, pos : Nat]

\* A number that comes after position p, at which n was expected, has not run
\* ahead: it exceeds n by no more than the positions between.
InStep(p, n, q, m) == p <= q /\ m + p <= q + n

\* The numbers on their way to the client, between what it expects and what the
\* server will use next.
WireInv ==
    /\ wire \in Seq(Packets)
    /\ \A k \in 1 .. Len(wire) :
          /\ InStep(wire[k].pos + 1, NextSeqNum(wire[k].msg.seq), issued, seq)
          /\ seq_initialized => InStep(parsed, expected_seq, wire[k].pos, wire[k].msg.seq)
          /\ \A j \in 1 .. k - 1 : InStep(wire[j].pos + 1, NextSeqNum(wire[j].msg.seq),
                                          wire[k].pos, wire[k].msg.seq)
    /\ seq_initialized => InStep(parsed, expected_seq, issued, seq)

\* Until the numbers step back they are the positions.
NumbersInv ==
    steppedBack \/ /\ seq = issued
                   /\ \A k \in 1 .. Len(wire) : wire[k].msg.seq = wire[k].pos
                   /\ seq_initialized => expected_seq = parsed

\* A state an entry of the cache may be in.
PricedState(st) ==
    /\ st \in MarketState
    /\ st["update_count"] > 0 => st["last_traded_price"] > 0 \/ st["best_bid"] > 0
    /\ st["best_bid"] > 0 => st["best_bid"] < st["best_ask"]

\* An update in progress is the next state of its entry.
CacheInv ==
    /\ \A s \in Entries : PricedState(cache[s])
    /\ IF ppc = "update"
         THEN /\ update \in Entries \X MarketState
              /\ PricedState(update[2])
              /\ update[2]["update_count"] = cache[update[1]]["update_count"] + 1
         ELSE update = <<>>

Counts == [s \in Entries |-> cache[s]["update_count"]]

\* Every message counted is in the cache, or was for no entry of it.
CountInv ==
    total_messages + (IF ppc = "count" THEN 1 ELSE 0) = foreign + SumOn(Counts, Entries)

\* The rows collected are states of their entries since the frame was begun, and
\* the symbols passed over had no updates then.
RowsInv ==
    /\ \A s \in Entries : before[s] <= cache[s]["update_count"]
    /\ \A s \in DOMAIN rows :
          /\ PricedState(rows[s]) /\ rows[s]["update_count"] > 0
          /\ before[s] <= rows[s]["update_count"]
          /\ rows[s]["update_count"] <= cache[s]["update_count"]
    /\ vpc = "snapshot" => cache[i]["update_count"] > 0 \/ Updating(i)
    /\ torn \/ \A s \in Entries \ DOMAIN rows : s < i \/ vpc = "top" => before[s] = 0

\* The header is no newer than the beginning of the frame.
HeaderInv == header <= foreign + SumOn(before, Entries)

TopInv ==
    IF vpc = "top" THEN top \in TopRows /\ (torn \/ top \subseteq opened) ELSE top = {}

\* The server, the connection and the sequence check.
NetInv ==
    /\ TickTypes /\ SequenceTypes
    /\ parsed \in Nat /\ accounted \in Nat
    /\ WireInv /\ NumbersInv /\ GapsAccounted

\* The callback, the cache and the display.
ShowInv ==
    /\ DisplayTypes
    /\ ppc \in {"loop", "update", "count"} /\ foreign \in Nat
    /\ CacheInv /\ CountInv /\ RowsInv /\ HeaderInv /\ TopInv

IInv == NetInv /\ ShowInv /\ faults \in 0 .. MaxFaults

netVars  == <<ticking, link, steppedBack, sequencing, parsed, accounted>>
showVars == <<ppc, foreign, shared, display>>

-----------------------------------------------------------------------------
(***************************************************************************)
(* Sequence numbers and prices.                                            *)
(***************************************************************************)

\* What reducing a number to 32 bits does to it.
LEMMA Reduced ==
    ASSUME NEW n \in Nat
    PROVE  /\ n % SeqMod \in SeqNums /\ n % SeqMod \in Nat /\ n % SeqMod <= n
           /\ n < SeqMod => n % SeqMod = n
<1>1. SeqMod \in Nat \ {0}
  BY SeqModAssumption
<1>2. n % SeqMod \in 0 .. SeqMod - 1
  BY <1>1
<1>3. n \div SeqMod \in Nat /\ n = (n \div SeqMod) * SeqMod + (n % SeqMod)
  BY <1>1
<1>4. (n \div SeqMod) * SeqMod \in Nat
  BY <1>1, <1>3
<1>5. n % SeqMod <= n
  BY <1>2, <1>3, <1>4
<1>6. ASSUME n < SeqMod PROVE n % SeqMod = n
  BY <1>1, <1>6
<1>7. QED
  BY <1>1, <1>2, <1>5, <1>6 DEF SeqNums

LEMMA NextNumber ==
    ASSUME NEW n \in SeqNums
    PROVE  /\ n \in Nat /\ NextSeqNum(n) \in SeqNums /\ NextSeqNum(n) \in Nat
           /\ NextSeqNum(n) <= n + 1
           /\ n + 1 < SeqMod => NextSeqNum(n) = n + 1
<1>1. n \in Nat /\ n + 1 \in Nat
  BY SeqModAssumption DEF SeqNums
<1>2. QED
  BY <1>1, Reduced DEF NextSeqNum

\* Rounding to the tick makes a price of a tick or more not zero.
LEMMA Rounded ==
    ASSUME NEW p \in Nat
    PROVE  /\ round_tick(p) \in Nat
           /\ p >= TICK_SIZE => round_tick(p) > 0
<1> DEFINE d == 2 * TICK_SIZE
           x == 2 * p + TICK_SIZE
<1>1. TICK_SIZE \in Nat /\ TICK_SIZE > 0 /\ d \in Nat \ {0} /\ x \in Nat
  BY PriceAssumption
<1>2. x \div d \in Nat /\ x % d \in 0 .. d - 1 /\ x = (x \div d) * d + (x % d)
  <2> HIDE DEF d, x
  <2>1. QED
    BY <1>1
<1>3. (x \div d) * TICK_SIZE \in Nat
  <2> HIDE DEF d, x
  <2>1. QED
    BY <1>1, <1>2
<1>4. ASSUME p >= TICK_SIZE PROVE (x \div d) * TICK_SIZE > 0
  <2>1. x >= d
    BY <1>1, <1>4
  <2>2. x \div d # 0
    <3> HIDE DEF d, x
    <3>1. QED
      BY <1>1, <1>2, <2>1
  <2> HIDE DEF d, x
  <2>3. PICK q \in Nat : x \div d = q + 1
    BY <1>2, <2>2
  <2>4. (q + 1) * TICK_SIZE = q * TICK_SIZE + TICK_SIZE /\ q * TICK_SIZE \in Nat
    BY <1>1
  <2>5. QED
    BY <1>1, <2>3, <2>4
<1>5. QED
  BY <1>3, <1>4 DEF round_tick

\* A floored price is one that spreads are known for, and well above them.
LEMMA FlooredPrice ==
    ASSUME NEW p \in NewPrices, NEW w \in BOOLEAN
    PROVE  /\ Floored(p) \in Nat /\ HalfSpread[Floored(p)][w] \in Nat
           /\ HalfSpread[Floored(p)][w] + TICK_SIZE <= Floored(p)
<1>1. Floored(p) \in DOMAIN HalfSpread /\ Floored(p) \in Nat /\ Floored(p) >= MinPrice
  BY PriceAssumption DEF Floored
<1>2. HalfSpread[Floored(p)] \in [BOOLEAN -> Nat]
  BY <1>1, PriceAssumption
<1>3. QED
  BY <1>1, <1>2, SpreadAssumption

LEMMA QuotePriced ==
    ASSUME NEW p \in NewPrices, NEW q \in QuotesAt(Floored(p))
    PROVE  q.bid \in Nat /\ q.ask \in Nat /\ 0 < q.bid /\ q.bid < q.ask
<1>1. PICK w \in BOOLEAN : q = QuoteAt(Floored(p), HalfSpread[Floored(p)][w])
  BY DEF QuotesAt
<1> DEFINE P == Floored(p)
           H == HalfSpread[P][w]
           bid == round_tick(P - H)
           ask == round_tick(P + H)
<1>2. P \in Nat /\ H \in Nat /\ H + TICK_SIZE <= P /\ TICK_SIZE \in Nat /\ TICK_SIZE > 0
  BY FlooredPrice, PriceAssumption
<1>3. P - H \in Nat /\ P - H >= TICK_SIZE /\ P + H \in Nat
  <2> HIDE DEF P, H
  <2>1. QED
    BY <1>2
<1>4. bid \in Nat /\ bid > 0 /\ ask \in Nat
  <2> HIDE DEF P, H
  <2>1. QED
    BY <1>3, Rounded
<1>5. q = [bid |-> bid, ask |-> IF ask - bid < TICK_SIZE THEN bid + TICK_SIZE ELSE ask]
  BY <1>1 DEF QuoteAt
<1> HIDE DEF bid, ask
<1>6. QED
  BY <1>2, <1>4, <1>5

LEMMA TradePriced ==
    ASSUME NEW p \in NewPrices, NEW t \in TradesAt(Floored(p))
    PROVE  t \in Nat /\ 0 < t
<1> DEFINE P == Floored(p)
           H == HalfSpread[P][FALSE]
<1>1. P \in Nat /\ H \in Nat /\ H + TICK_SIZE <= P /\ TICK_SIZE \in Nat
  BY FlooredPrice, PriceAssumption
<1>2. PICK x \in 0 .. 2 * H : t = round_tick(P - H + x)
  BY DEF TradesAt
<1>3. P - H + x \in Nat /\ P - H + x >= TICK_SIZE
  <2> HIDE DEF P, H
  <2>1. QED
    BY <1>1, <1>2
<1>4. QED
  BY <1>2, <1>3, Rounded

\* All that the generator emits is priced.
LEMMA TicksPriced ==
    ASSUME NEW sym \in Nat, NEW n \in SeqNums, NEW m \in GenerateTick(sym, n)
    PROVE  m \in Quotes \union Trades /\ m.seq = n
<1>1. CASE \E p \in NewPrices : \E q \in QuotesAt(Floored(p)) :
             m = [type |-> "quote", seq |-> n, sym |-> sym, bid |-> q.bid, ask |-> q.ask]
  <2>0. PICK p \in NewPrices : \E q \in QuotesAt(Floored(p)) :
             m = [type |-> "quote", seq |-> n, sym |-> sym, bid |-> q.bid, ask |-> q.ask]
    BY <1>1
  <2>1. PICK q \in QuotesAt(Floored(p)) :
             m = [type |-> "quote", seq |-> n, sym |-> sym, bid |-> q.bid, ask |-> q.ask]
    BY <2>0
  <2>2. q.bid \in Nat /\ q.ask \in Nat /\ 0 < q.bid /\ q.bid < q.ask
    BY QuotePriced
  <2>3. QED
    BY <2>1, <2>2 DEF Quotes
<1>2. CASE \E p \in NewPrices : \E t \in TradesAt(Floored(p)) :
             m = [type |-> "trade", seq |-> n, sym |-> sym, price |-> t]
  <2>0. PICK p \in NewPrices : \E t \in TradesAt(Floored(p)) :
             m = [type |-> "trade", seq |-> n, sym |-> sym, price |-> t]
    BY <1>2
  <2>1. PICK t \in TradesAt(Floored(p)) :
             m = [type |-> "trade", seq |-> n, sym |-> sym, price |-> t]
    BY <2>0
  <2>2. t \in Nat /\ 0 < t
    BY TradePriced
  <2>3. QED
    BY <2>1, <2>2 DEF Trades
<1>3. QED
  BY <1>1, <1>2 DEF GenerateTick

-----------------------------------------------------------------------------
(***************************************************************************)
(* The server, the connection and the sequence check.                      *)
(***************************************************************************)

\* A number stays in step when it grows no more than its position.
LEMMA StepOn ==
    ASSUME NEW p \in Nat, NEW n \in Nat, NEW q \in Nat, NEW m \in Nat, InStep(p, n, q, m),
           NEW r \in Nat, NEW x \in Nat, q <= r, x + q <= m + r
    PROVE  InStep(p, n, r, x)
BY DEF InStep

LEMMA PacketFacts ==
    ASSUME NEW p \in Packets
    PROVE  /\ p.pos \in Nat /\ p.msg.type \in Types /\ p.msg.seq \in SeqNums
           /\ p.msg.seq \in Nat /\ NextSeqNum(p.msg.seq) \in Nat
<1>1. p.pos \in Nat /\ p.msg \in Quotes \union Trades \union Heartbeats
  BY DEF Packets
<1>2. p.msg.type \in Types /\ p.msg.seq \in SeqNums
  BY <1>1 DEF Quotes, Trades, Heartbeats, Types
<1>3. QED
  BY <1>1, <1>2, NextNumber

\* What is known of any two packets on the wire.
LEMMA WireFacts ==
    ASSUME NetInv
    PROVE  /\ wire \in Seq(Packets) /\ Len(wire) \in Nat
           /\ seq \in SeqNums /\ seq \in Nat /\ issued \in Nat
           /\ expected_seq \in SeqNums /\ expected_seq \in Nat /\ parsed \in Nat
           /\ \A k \in 1 .. Len(wire) :
                /\ wire[k] \in Packets /\ wire[k].pos \in Nat
                /\ wire[k].msg.seq \in SeqNums /\ wire[k].msg.seq \in Nat
                /\ NextSeqNum(wire[k].msg.seq) \in Nat
<1>1. /\ wire \in Seq(Packets) /\ seq \in SeqNums /\ issued \in Nat
      /\ expected_seq \in SeqNums /\ parsed \in Nat
  BY DEF NetInv, WireInv, TickTypes, SequenceTypes
<1>2. Len(wire) \in Nat /\ \A k \in 1 .. Len(wire) : wire[k] \in Packets
  BY <1>1
<1>3. QED
  BY <1>1, <1>2, PacketFacts, NextNumber

\* Packets are all that TickTypes asks of the wire.
LEMMA WireTypes ==
    ASSUME NEW w \in Seq(Packets)
    PROVE  \A k \in DOMAIN w :
              w[k].msg.type \in Types /\ w[k].msg.seq \in SeqNums /\ w[k].pos \in Nat
BY PacketFacts

\* A message that takes the next number but `skip' goes on the wire, or is lost.
Sent(m, skip) ==
    /\ m.seq = (seq + skip) % SeqMod
    /\ Broadcast(m, skip)
    /\ seq' = NextSeqNum(m.seq)
    /\ steppedBack' = (steppedBack \/ seq' # seq + skip + 1)
    /\ UNCHANGED <<live, sequencing, parsed, accounted>>

LEMMA SentNumbers ==
    ASSUME NetInv, NEW skip \in Nat, NEW m \in Quotes \union Trades \union Heartbeats,
           Sent(m, skip)
    PROVE  /\ m.seq \in SeqNums /\ m.seq \in Nat /\ m.seq <= seq + skip
           /\ seq' \in SeqNums /\ seq' \in Nat /\ seq' <= seq + skip + 1
           /\ issued' = issued + skip + 1
           /\ ~steppedBack' => ~steppedBack /\ m.seq = seq + skip /\ seq' = seq + skip + 1
<1>1. /\ seq \in Nat /\ seq + skip \in Nat
  BY WireFacts
<1>2. m.seq \in SeqNums /\ m.seq \in Nat /\ m.seq <= seq + skip
  BY <1>1, Reduced DEF Sent
<1>3. seq' \in SeqNums /\ seq' \in Nat /\ seq' <= m.seq + 1
  BY <1>2, NextNumber DEF Sent
<1>4. issued' = issued + skip + 1
  BY DEF Sent, Broadcast
<1>5. ~steppedBack' => ~steppedBack /\ seq' = seq + skip + 1
  BY DEF Sent
<1>6. QED
  BY <1>1, <1>2, <1>3, <1>4, <1>5

LEMMA SentWire ==
    ASSUME NetInv, NEW skip \in Nat, NEW m \in Quotes \union Trades \union Heartbeats,
           Sent(m, skip)
    PROVE  WireInv' /\ NumbersInv' /\ GapsAccounted' /\ Len(wire') <= MaxWire
<1> DEFINE p == [msg |-> m, pos |-> issued + skip]
<1>1. /\ wire \in Seq(Packets) /\ Len(wire) \in Nat
      /\ seq \in SeqNums /\ seq \in Nat /\ issued \in Nat
      /\ expected_seq \in SeqNums /\ expected_seq \in Nat /\ parsed \in Nat
      /\ \A k \in 1 .. Len(wire) :
           /\ wire[k] \in Packets /\ wire[k].pos \in Nat
           /\ wire[k].msg.seq \in SeqNums /\ wire[k].msg.seq \in Nat
           /\ NextSeqNum(wire[k].msg.seq) \in Nat
  BY WireFacts
<1>2. /\ m.seq \in SeqNums /\ m.seq \in Nat /\ m.seq <= seq + skip
      /\ seq' \in SeqNums /\ seq' \in Nat /\ seq' <= seq + skip + 1
      /\ issued' = issued + skip + 1
      /\ ~steppedBack' => ~steppedBack /\ m.seq = seq + skip /\ seq' = seq + skip + 1
  BY SentNumbers
<1>3. /\ expected_seq' = expected_seq /\ seq_initialized' = seq_initialized
      /\ total_gap_size' = total_gap_size /\ parsed' = parsed /\ accounted' = accounted
  BY DEF Sent, sequencing
<1>4. p \in Packets /\ p.msg = m /\ p.pos = issued + skip /\ p.pos \in Nat
  BY <1>1 DEF Packets
<1>5. seq' = NextSeqNum(m.seq)
  BY DEF Sent
<1> HIDE DEF p
<1>6. /\ \A k \in 1 .. Len(wire) :
           /\ InStep(wire[k].pos + 1, NextSeqNum(wire[k].msg.seq), issued, seq)
           /\ seq_initialized => InStep(parsed, expected_seq, wire[k].pos, wire[k].msg.seq)
           /\ \A j \in 1 .. k - 1 : InStep(wire[j].pos + 1, NextSeqNum(wire[j].msg.seq),
                                           wire[k].pos, wire[k].msg.seq)
      /\ seq_initialized => InStep(parsed, expected_seq, issued, seq)
  <2>1. WireInv
    BY DEF NetInv
  <2>2. QED
    BY <2>1 DEF WireInv
<1>7. /\ p.pos \in Nat /\ p.msg.seq \in Nat /\ issued' \in Nat /\ seq' \in Nat
       /\ issued <= p.pos /\ p.msg.seq + issued <= seq + p.pos
       /\ issued <= issued' /\ seq' + issued <= seq + issued'
  <2>1. p.msg.seq \in Nat /\ p.msg.seq <= seq + skip
    BY <1>2, <1>4
  <2>2. PICK a \in Nat, c \in Nat : a = p.msg.seq /\ c = p.pos
    BY <1>4, <2>1
  <2>3. PICK d \in Nat, e \in Nat : d = seq' /\ e = issued'
    BY <1>1, <1>2
  <2>4. a <= seq + skip /\ c = issued + skip /\ d <= seq + skip + 1 /\ e = issued + skip + 1
    BY <1>2, <1>4, <2>1, <2>2, <2>3
  <2>5. seq \in Nat /\ issued \in Nat
    BY <1>1
  <2>6. issued <= c /\ a + issued <= seq + c /\ issued <= e /\ d + issued <= seq + e
    BY <2>4, <2>5
  <2>7. QED
    BY <2>2, <2>3, <2>6
<1>8. \A k \in 1 .. Len(wire) :
         /\ InStep(wire[k].pos + 1, NextSeqNum(wire[k].msg.seq), issued', seq')
         /\ InStep(wire[k].pos + 1, NextSeqNum(wire[k].msg.seq), p.pos, p.msg.seq)
  <2>2. TAKE k \in 1 .. Len(wire)
  <2>3. PICK x \in Nat, n \in Nat : x = wire[k].pos + 1 /\ n = NextSeqNum(wire[k].msg.seq)
    BY <1>1
  <2>4. InStep(x, n, issued, seq)
    BY <1>6, <2>3
  <2>5. InStep(x, n, p.pos, p.msg.seq) /\ InStep(x, n, issued', seq')
    BY <1>1, <1>7, <2>4, StepOn
  <2>6. QED
    BY <2>3, <2>5
<1>9. seq_initialized => /\ InStep(parsed, expected_seq, issued', seq')
                         /\ InStep(parsed, expected_seq, p.pos, p.msg.seq)
  <2>2. ASSUME seq_initialized
        PROVE  /\ InStep(parsed, expected_seq, p.pos, p.msg.seq)
               /\ InStep(parsed, expected_seq, issued', seq')
    <3>1. InStep(parsed, expected_seq, issued, seq)
      BY <1>6, <2>2
    <3>2. QED
      BY <1>1, <1>7, <3>1, StepOn
  <2>3. QED
    BY <2>2
<1>10. InStep(p.pos + 1, NextSeqNum(p.msg.seq), issued', seq')
  BY <1>1, <1>2, <1>4, <1>5 DEF InStep
<1>11. Len(wire) <= MaxWire /\ MaxWire \in Nat
  BY LoopAssumption DEF NetInv, TickTypes
<1>12. CASE live
  <2>1. wire' = Append(wire, p) /\ Len(wire) < MaxWire
    BY <1>12 DEF Sent, Broadcast, p
  <2>2. /\ wire' \in Seq(Packets) /\ Len(wire') = Len(wire) + 1
        /\ \A k \in 1 .. Len(wire) : wire'[k] = wire[k]
        /\ wire'[Len(wire) + 1] = p
    BY <1>1, <1>4, <2>1, AppendProperties
  <2>3. WireInv'
    <3>1. ASSUME NEW k \in 1 .. Len(wire')
          PROVE  /\ InStep(wire'[k].pos + 1, NextSeqNum(wire'[k].msg.seq), issued', seq')
                 /\ seq_initialized =>
                      InStep(parsed, expected_seq, wire'[k].pos, wire'[k].msg.seq)
                 /\ \A j \in 1 .. k - 1 :
                      InStep(wire'[j].pos + 1, NextSeqNum(wire'[j].msg.seq),
                             wire'[k].pos, wire'[k].msg.seq)
      <4>1. CASE k \in 1 .. Len(wire)
        <5>1. \A j \in 1 .. k - 1 : j \in 1 .. Len(wire)
          BY <1>1, <4>1
        <5>2. QED
          BY <1>6, <1>8, <2>2, <4>1, <5>1
      <4>2. CASE k = Len(wire) + 1
        <5>1. \A j \in 1 .. k - 1 : j \in 1 .. Len(wire)
          BY <1>1, <4>2
        <5>2. QED
          BY <1>8, <1>9, <1>10, <2>2, <4>2, <5>1
      <4>3. QED
        BY <1>1, <2>2, <4>1, <4>2
    <3>2. QED
      BY <1>3, <1>9, <2>2, <3>1 DEF WireInv
  <2>4. NumbersInv'
    <3>1. SUFFICES ASSUME ~steppedBack'
                   PROVE  /\ seq' = issued'
                          /\ \A k \in 1 .. Len(wire') : wire'[k].msg.seq = wire'[k].pos
                          /\ seq_initialized' => expected_seq' = parsed'
      BY DEF NumbersInv
    <3>2. /\ seq = issued
          /\ seq_initialized => expected_seq = parsed
          /\ \A k \in 1 .. Len(wire) : wire[k].msg.seq = wire[k].pos
      BY <1>2, <3>1 DEF NetInv, NumbersInv
    <3>3. p.msg.seq = p.pos /\ seq' = issued'
      BY <1>1, <1>2, <1>4, <3>1, <3>2
    <3>4. \A k \in 1 .. Len(wire') : wire'[k].msg.seq = wire'[k].pos
      <4>1. TAKE k \in 1 .. Len(wire')
      <4>2. CASE k \in 1 .. Len(wire)
        BY <2>2, <3>2, <4>2
      <4>3. CASE k = Len(wire) + 1
        BY <2>2, <3>3, <4>3
      <4>4. QED
        BY <1>1, <2>2, <4>2, <4>3
    <3>5. QED
      BY <1>3, <3>2, <3>3, <3>4
  <2>5. QED
    BY <1>3, <1>2, <1>11, <2>1, <2>2, <2>3, <2>4 DEF NetInv, GapsAccounted
<1>13. CASE ~live
  <2>1. wire' = wire
    BY <1>13 DEF Sent, Broadcast
  <2>2. WireInv'
    BY <1>1, <1>3, <1>6, <1>8, <1>9, <2>1 DEF WireInv
  <2>3. NumbersInv'
    BY <1>1, <1>2, <1>3, <2>1 DEF NetInv, NumbersInv
  <2>4. QED
    BY <1>2, <1>3, <1>11, <2>1, <2>2, <2>3 DEF NetInv, GapsAccounted
<1>14. QED
  BY <1>12, <1>13

\* Each step of the tick thread that broadcasts is such a step.
LEMMA TickSends ==
    ASSUME NetInv, Tick, UNCHANGED <<sequencing, parsed, accounted>>
    PROVE  \E m \in Quotes \union Trades \union Heartbeats, skip \in Nat : Sent(m, skip)
<1> DEFINE n == (seq + Skipped) % SeqMod
<1>1. Skipped \in Nat
  BY DEF Skipped
<1>2. seq \in Nat /\ symbol_idx \in Nat /\ num_symbols \in Nat \ {0}
  BY SeqModAssumption, LoopAssumption DEF NetInv, TickTypes, SeqNums
<1>3. symbol_idx % num_symbols \in Nat
  BY <1>2
<1>4. n \in SeqNums
  BY <1>1, <1>2, Reduced
<1>5. PICK m \in GenerateTick(symbol_idx % num_symbols, n) : Broadcast(m, Skipped)
  BY DEF Tick
<1>6. m \in Quotes \union Trades /\ m.seq = n
  BY <1>3, <1>4, TicksPriced
<1>7. /\ seq' = NextSeqNum(n) /\ steppedBack' = (steppedBack \/ seq' # seq + Skipped + 1)
      /\ live' = live
  BY DEF Tick
<1> HIDE DEF n
<1>8. Sent(m, Skipped)
  BY <1>5, <1>6, <1>7 DEF Sent, n
<1>9. QED
  BY <1>1, <1>6, <1>8

LEMMA HeartbeatSends ==
    ASSUME NetInv, Heartbeat, UNCHANGED <<sequencing, parsed, accounted>>
    PROVE  \E m \in Quotes \union Trades \union Heartbeats, skip \in Nat : Sent(m, skip)
<1> DEFINE m == [type |-> "heartbeat", seq |-> seq, sym |-> 0]
<1>1. seq \in SeqNums /\ seq \in Nat /\ SeqMod \in Nat
  BY SeqModAssumption, WireFacts
<1>2. m \in Heartbeats /\ m.seq = seq
  BY <1>1 DEF Heartbeats
<1>3. seq + 0 = seq /\ seq % SeqMod = seq /\ seq + 0 + 1 = seq + 1
  BY <1>1, Reduced DEF SeqNums
<1>4. /\ Broadcast(m, 0) /\ seq' = NextSeqNum(seq) /\ live' = live
      /\ steppedBack' = (steppedBack \/ seq' # seq + 1)
  BY DEF Heartbeat
<1> HIDE DEF m
<1>5. Sent(m, 0)
  BY <1>2, <1>3, <1>4 DEF Sent
<1>6. QED
  BY <1>2, <1>5

LEMMA TickNet ==
    ASSUME NetInv, Tick \/ Heartbeat, UNCHANGED <<sequencing, parsed, accounted>>
    PROVE  NetInv'
<1>1. PICK m \in Quotes \union Trades \union Heartbeats, skip \in Nat : Sent(m, skip)
  BY TickSends, HeartbeatSends
<1>2. WireInv' /\ NumbersInv' /\ GapsAccounted' /\ Len(wire') <= MaxWire
  BY <1>1, SentWire
<1>3. seq' \in SeqNums /\ issued' = issued + skip + 1
  BY <1>1, SentNumbers
<1>4. /\ expected_seq' = expected_seq /\ seq_initialized' = seq_initialized
      /\ sequence_gaps' = sequence_gaps /\ total_gap_size' = total_gap_size
      /\ parsed' = parsed /\ accounted' = accounted /\ live' = live
  BY <1>1 DEF Sent, sequencing
<1>5. SequenceTypes' /\ parsed' \in Nat /\ accounted' \in Nat
  BY <1>4 DEF NetInv, SequenceTypes
<1>6. issued' \in Nat /\ live' \in BOOLEAN
  BY <1>3, <1>4 DEF NetInv, TickTypes
<1>7. steppedBack' \in BOOLEAN
  BY <1>1, Zenon DEF Sent
<1>8. msgs_broadcast' \in 0 .. MaxMessages
  <2>1. msgs_broadcast < MaxMessages /\ msgs_broadcast' = msgs_broadcast + 1
    BY <1>1 DEF Sent, Broadcast
  <2>2. QED
    BY <2>1, LoopAssumption DEF NetInv, TickTypes
<1>9. /\ fault_injection' \in BOOLEAN /\ symbol_idx' \in SeqNums
      /\ tpc' \in {"batch", "heartbeat", "last", "exit"} /\ b' \in 0 .. batch_size - 1
  <2>1. CASE Tick
    <3>1. b \in Nat /\ batch_size \in Nat \ {0} /\ symbol_idx \in SeqNums
      BY LoopAssumption DEF NetInv, TickTypes
    <3>2. b' = (b + 1) % batch_size /\ symbol_idx' = NextSeqNum(symbol_idx)
      BY <2>1 DEF Tick
    <3>3. b' \in 0 .. batch_size - 1 /\ symbol_idx' \in SeqNums
      BY <3>1, <3>2, NextNumber
    <3>4. tpc' \in {"batch", "heartbeat", "last", "exit"} /\ fault_injection' = fault_injection
      BY <2>1 DEF Tick
    <3>5. QED
      BY <3>3, <3>4 DEF NetInv, TickTypes
  <2>2. CASE Heartbeat
    BY <2>2 DEF Heartbeat, AfterBatch, NetInv, TickTypes
  <2>3. QED
    BY <2>1, <2>2
<1>10. \A k \in DOMAIN wire' : wire'[k].msg.type \in Types /\ wire'[k].msg.seq \in SeqNums
                               /\ wire'[k].pos \in Nat
  <2>1. wire' \in Seq(Packets)
    BY <1>2 DEF WireInv
  <2>2. QED
    BY <2>1, WireTypes
<1>11. TickTypes'
  BY <1>2, <1>3, <1>6, <1>7, <1>8, <1>9, <1>10 DEF TickTypes
<1>12. QED
  BY <1>2, <1>5, <1>11 DEF NetInv

\* Steps that leave the wire and the numbers alone.
LEMMA QuietNet ==
    ASSUME NetInv, TickTypes',
           UNCHANGED <<seq, issued, wire, steppedBack, sequencing, parsed, accounted>>
    PROVE  NetInv'
<1>1. SequenceTypes' /\ parsed' \in Nat /\ accounted' \in Nat
  BY DEF NetInv, SequenceTypes, sequencing
<1>2. WireInv' /\ NumbersInv' /\ GapsAccounted'
  BY DEF NetInv, WireInv, NumbersInv, GapsAccounted, sequencing
<1>3. QED
  BY <1>1, <1>2 DEF NetInv

\* A connection or a server is lost, and with it the end of the wire.
LEMMA LossNet ==
    ASSUME NetInv, LoseWire, UNCHANGED <<issued, sequencing, parsed, accounted>>,
           \/ UNCHANGED <<ticking, steppedBack>>
           \/ StartAgain
    PROVE  NetInv'
<1>1. PICK n \in 0 .. Len(wire) : wire' = SubSeq(wire, 1, n)
  BY DEF LoseWire
<1>2. /\ wire \in Seq(Packets) /\ Len(wire) \in Nat
      /\ seq \in SeqNums /\ seq \in Nat /\ issued \in Nat
      /\ expected_seq \in SeqNums /\ expected_seq \in Nat /\ parsed \in Nat
      /\ \A k \in 1 .. Len(wire) :
           /\ wire[k] \in Packets /\ wire[k].pos \in Nat
           /\ wire[k].msg.seq \in SeqNums /\ wire[k].msg.seq \in Nat
           /\ NextSeqNum(wire[k].msg.seq) \in Nat
  BY WireFacts
<1>3. /\ wire' \in Seq(Packets) /\ Len(wire') = n /\ n \in Nat
      /\ \A k \in 1 .. n : wire'[k] = wire[k] /\ k \in 1 .. Len(wire)
  <2>1. \A k \in 1 .. n : wire[k] \in Packets /\ k \in 1 .. Len(wire)
    BY <1>2
  <2>2. QED
    BY <1>1, <1>2, <2>1, SubSeqProperties
<1>4. /\ expected_seq' = expected_seq /\ seq_initialized' = seq_initialized
      /\ sequence_gaps' = sequence_gaps /\ total_gap_size' = total_gap_size
      /\ parsed' = parsed /\ accounted' = accounted /\ issued' = issued
  BY DEF sequencing
<1>5. /\ seq' \in SeqNums /\ seq' \in Nat /\ seq' <= seq
      /\ ~steppedBack' => ~steppedBack /\ seq' = seq
  BY <1>2, SeqModAssumption DEF ticking, StartAgain, SeqNums
<1>6. issued <= issued /\ seq' + issued <= seq + issued
  <2>1. PICK x \in Nat : x = seq'
    BY <1>5
  <2>2. x <= seq /\ seq \in Nat /\ issued \in Nat
    BY <1>2, <1>5, <2>1
  <2>3. issued <= issued /\ x + issued <= seq + issued
    BY <2>2
  <2>4. QED
    BY <2>1, <2>3, Zenon
<1>7. WireInv'
  <2>1. WireInv
    BY DEF NetInv
  <2>2. ASSUME NEW k \in 1 .. n
        PROVE  InStep(wire'[k].pos + 1, NextSeqNum(wire'[k].msg.seq), issued, seq')
    <3>1. PICK x \in Nat, y \in Nat : x = wire[k].pos + 1 /\ y = NextSeqNum(wire[k].msg.seq)
      <4>1. wire[k].pos + 1 \in Nat /\ NextSeqNum(wire[k].msg.seq) \in Nat
        BY <1>2, <1>3
      <4>2. QED
        BY <4>1
    <3>2. InStep(x, y, issued, seq)
      BY <1>3, <2>1, <3>1 DEF WireInv
    <3>3. InStep(x, y, issued, seq')
      BY <1>2, <1>5, <1>6, <3>2, StepOn
    <3>4. QED
      BY <1>3, <3>1, <3>3
  <2>3. seq_initialized => InStep(parsed, expected_seq, issued, seq')
    <3>1. seq_initialized => InStep(parsed, expected_seq, issued, seq)
      BY <2>1 DEF WireInv
    <3>2. QED
      BY <1>2, <1>5, <1>6, <3>1, StepOn
  <2>4. \A k \in 1 .. n :
          /\ seq_initialized => InStep(parsed, expected_seq, wire'[k].pos, wire'[k].msg.seq)
          /\ \A j \in 1 .. k - 1 : InStep(wire'[j].pos + 1, NextSeqNum(wire'[j].msg.seq),
                                          wire'[k].pos, wire'[k].msg.seq)
    <3>1. TAKE k \in 1 .. n
    <3>2. \A j \in 1 .. k - 1 : j \in 1 .. n
      BY <1>3
    <3>3. QED
      BY <1>3, <2>1, <3>2 DEF WireInv
  <2>5. QED
    BY <1>3, <1>4, <2>2, <2>3, <2>4 DEF WireInv
<1>8. NumbersInv'
  BY <1>3, <1>4, <1>5 DEF NetInv, NumbersInv
<1>9. GapsAccounted'
  BY <1>4, <1>5 DEF NetInv, GapsAccounted
<1>10. SequenceTypes' /\ parsed' \in Nat /\ accounted' \in Nat
  BY <1>4 DEF NetInv, SequenceTypes
<1>11. TickTypes'
  <2>1. Len(wire') <= MaxWire
    BY <1>2, <1>3, LoopAssumption DEF NetInv, TickTypes
  <2>2. \A k \in DOMAIN wire' : wire'[k].msg.type \in Types /\ wire'[k].msg.seq \in SeqNums
                                /\ wire'[k].pos \in Nat
    BY <1>3, WireTypes
  <2>3. live' \in BOOLEAN
    BY DEF LoseWire
  <2>4. steppedBack' \in BOOLEAN /\ fault_injection' \in BOOLEAN
    BY DEF NetInv, TickTypes, StartAgain, ticking
  <2>5. /\ tpc' \in {"batch", "heartbeat", "last", "exit"} /\ b' \in 0 .. batch_size - 1
        /\ symbol_idx' \in SeqNums /\ msgs_broadcast' \in 0 .. MaxMessages
    BY LoopAssumption, SeqModAssumption DEF NetInv, TickTypes, StartAgain, ticking, SeqNums
  <2>6. QED
    BY <1>2, <1>4, <1>5, <2>1, <2>2, <2>3, <2>4, <2>5 DEF TickTypes
<1>12. QED
  BY <1>7, <1>8, <1>9, <1>10, <1>11 DEF NetInv

\* The message the parse thread takes.
LEMMA ParseNet ==
    ASSUME NetInv, ParseMessage
    PROVE  NetInv'
<1> DEFINE p == Head(wire)
           n == p.msg.seq
<1>1. /\ wire \in Seq(Packets) /\ Len(wire) \in Nat
      /\ seq \in SeqNums /\ seq \in Nat /\ issued \in Nat
      /\ expected_seq \in SeqNums /\ expected_seq \in Nat /\ parsed \in Nat
      /\ \A k \in 1 .. Len(wire) :
           /\ wire[k] \in Packets /\ wire[k].pos \in Nat
           /\ wire[k].msg.seq \in SeqNums /\ wire[k].msg.seq \in Nat
           /\ NextSeqNum(wire[k].msg.seq) \in Nat
  BY WireFacts
<1>2. wire # <<>> /\ wire' = Tail(wire)
  BY DEF ParseMessage
<1>3. /\ p = wire[1] /\ 1 \in 1 .. Len(wire) /\ wire' \in Seq(Packets)
      /\ Len(wire') = Len(wire) - 1 /\ Len(wire') \in Nat
      /\ \A k \in 1 .. Len(wire') : wire'[k] = wire[k + 1] /\ k + 1 \in 2 .. Len(wire)
  <2>1. Len(wire) # 0
    BY <1>1, <1>2, EmptySeq
  <2>2. /\ wire' \in Seq(Packets) /\ Len(wire') = Len(wire) - 1
        /\ \A k \in 1 .. Len(wire') : wire'[k] = wire[k + 1]
    BY <1>1, <1>2, HeadTailProperties
  <2>3. QED
    BY <1>1, <2>1, <2>2
<1>4. p \in Packets /\ p.pos \in Nat /\ n \in SeqNums /\ n \in Nat /\ NextSeqNum(n) \in Nat
  BY <1>1, <1>3
<1>5. /\ CheckSequence(n) /\ parsed' = p.pos + 1
      /\ accounted' = IF seq_initialized THEN accounted + (p.pos - parsed) ELSE accounted
  BY DEF ParseMessage
<1>6. /\ ticking' = ticking /\ seq' = seq /\ issued' = issued /\ live' = live
      /\ steppedBack' = steppedBack
  BY DEF ParseMessage, ticking
<1> HIDE DEF p, n
<1>7. expected_seq' = NextSeqNum(n) /\ seq_initialized' = TRUE
  BY <1>5 DEF CheckSequence
<1>8. /\ seq_initialized => InStep(parsed, expected_seq, p.pos, n)
      /\ InStep(p.pos + 1, NextSeqNum(n), issued, seq)
      /\ \A k \in 2 .. Len(wire) :
            InStep(p.pos + 1, NextSeqNum(n), wire[k].pos, wire[k].msg.seq)
  <2>1. WireInv
    BY DEF NetInv
  <2>2. \A k \in 2 .. Len(wire) : k \in 1 .. Len(wire) /\ 1 \in 1 .. k - 1
    BY <1>1
  <2>3. QED
    BY <1>3, <2>1, <2>2 DEF WireInv, n
<1>9. WireInv'
  <2>1. ASSUME NEW k \in 1 .. Len(wire')
        PROVE  /\ InStep(wire'[k].pos + 1, NextSeqNum(wire'[k].msg.seq), issued', seq')
               /\ InStep(parsed', expected_seq', wire'[k].pos, wire'[k].msg.seq)
               /\ \A j \in 1 .. k - 1 : InStep(wire'[j].pos + 1, NextSeqNum(wire'[j].msg.seq),
                                               wire'[k].pos, wire'[k].msg.seq)
    <3>1. k + 1 \in 1 .. Len(wire) /\ k + 1 \in 2 .. Len(wire) /\ wire'[k] = wire[k + 1]
      BY <1>1, <1>3
    <3>2. \A j \in 1 .. k - 1 : j + 1 \in 1 .. (k + 1) - 1 /\ wire'[j] = wire[j + 1]
      BY <1>3
    <3>3. /\ InStep(wire[k + 1].pos + 1, NextSeqNum(wire[k + 1].msg.seq), issued, seq)
          /\ \A j \in 1 .. (k + 1) - 1 :
                InStep(wire[j].pos + 1, NextSeqNum(wire[j].msg.seq),
                       wire[k + 1].pos, wire[k + 1].msg.seq)
      BY <3>1 DEF NetInv, WireInv
    <3>4. InStep(wire'[k].pos + 1, NextSeqNum(wire'[k].msg.seq), issued', seq')
      BY <1>6, <3>1, <3>3
    <3>5. InStep(parsed', expected_seq', wire'[k].pos, wire'[k].msg.seq)
      BY <1>5, <1>7, <1>8, <3>1
    <3>6. \A j \in 1 .. k - 1 : InStep(wire'[j].pos + 1, NextSeqNum(wire'[j].msg.seq),
                                       wire'[k].pos, wire'[k].msg.seq)
      BY <3>1, <3>2, <3>3
    <3>7. QED
      BY <3>4, <3>5, <3>6
  <2>2. InStep(parsed', expected_seq', issued', seq')
    BY <1>5, <1>6, <1>7, <1>8
  <2>3. QED
    BY <1>3, <2>1, <2>2 DEF WireInv
<1>10. NumbersInv'
  <2>1. SUFFICES ASSUME ~steppedBack
                 PROVE  /\ seq' = issued'
                        /\ \A k \in 1 .. Len(wire') : wire'[k].msg.seq = wire'[k].pos
                        /\ expected_seq' = parsed'
    BY <1>6 DEF NumbersInv
  <2>2. seq = issued /\ \A k \in 1 .. Len(wire) : wire[k].msg.seq = wire[k].pos
    BY <2>1 DEF NetInv, NumbersInv
  <2>3. \A k \in 1 .. Len(wire') : wire'[k].msg.seq = wire'[k].pos
    <3>1. TAKE k \in 1 .. Len(wire')
    <3>2. wire'[k] = wire[k + 1] /\ k + 1 \in 1 .. Len(wire)
      BY <1>1, <1>3
    <3>3. QED
      BY <2>2, <3>2
  <2>4. n = p.pos /\ p.pos + 1 <= seq /\ seq < SeqMod /\ SeqMod \in Nat
    BY <1>1, <1>3, <1>8, <2>2, SeqModAssumption DEF n, InStep, SeqNums
  <2>5. NextSeqNum(n) = n + 1
    <3>1. n + 1 < SeqMod
      BY <1>1, <1>4, <2>4
    <3>2. QED
      BY <1>4, <3>1, NextNumber
  <2>6. QED
    BY <1>5, <1>6, <1>7, <2>2, <2>3, <2>4, <2>5
<1>11. GapsAccounted' /\ SequenceTypes' /\ parsed' \in Nat /\ accounted' \in Nat
  <2>1. /\ total_gap_size \in Nat /\ sequence_gaps \in Nat /\ accounted \in Nat
        /\ total_gap_size <= accounted
        /\ steppedBack \/ total_gap_size = accounted
    BY DEF NetInv, SequenceTypes, GapsAccounted
  <2>2. parsed' \in Nat /\ expected_seq' \in SeqNums /\ seq_initialized' \in BOOLEAN
    BY <1>4, <1>5, <1>7, NextNumber
  <2>3. CASE seq_initialized /\ n > expected_seq
    <3>1. /\ sequence_gaps' = sequence_gaps + 1
          /\ total_gap_size' = total_gap_size + (n - expected_seq)
      BY <1>5, <2>3 DEF CheckSequence
    <3>2. accounted' = accounted + (p.pos - parsed)
      BY <1>5, <2>3
    <3>3. parsed <= p.pos /\ n + parsed <= p.pos + expected_seq
      BY <1>8, <2>3 DEF InStep
    <3>4. /\ sequence_gaps' \in Nat /\ total_gap_size' \in Nat /\ accounted' \in Nat
          /\ total_gap_size' <= accounted'
      <4>1. PICK x \in Nat, y \in Nat : x = n - expected_seq /\ y = p.pos - parsed /\ x <= y
        <5>1. PICK q \in Nat : q = p.pos
          BY <1>4
        <5>2. n - expected_seq \in Nat /\ q - parsed \in Nat /\ n - expected_seq <= q - parsed
          BY <1>1, <1>4, <2>3, <3>3, <5>1
        <5>3. QED
          BY <5>1, <5>2
      <4>2. /\ sequence_gaps' = sequence_gaps + 1 /\ total_gap_size' = total_gap_size + x
            /\ accounted' = accounted + y
        BY <3>1, <3>2, <4>1
      <4>3. QED
        BY <2>1, <4>1, <4>2
    <3>5. ASSUME ~steppedBack PROVE total_gap_size' = accounted'
      <4>1. n = p.pos /\ expected_seq = parsed
        BY <1>3, <2>3, <3>5 DEF NetInv, NumbersInv, n
      <4>2. QED
        BY <2>1, <3>1, <3>2, <3>5, <4>1
    <3>6. QED
      BY <1>6, <2>2, <3>4, <3>5 DEF GapsAccounted, SequenceTypes
  <2>4. CASE seq_initialized /\ ~(n > expected_seq)
    <3>1. sequence_gaps' = sequence_gaps /\ total_gap_size' = total_gap_size
      BY <1>5, <2>4 DEF CheckSequence
    <3>2. accounted' = accounted + (p.pos - parsed)
      BY <1>5, <2>4
    <3>3. parsed <= p.pos
      BY <1>8, <2>4 DEF InStep
    <3>4. accounted' \in Nat /\ accounted <= accounted'
      BY <1>1, <1>4, <2>1, <3>2, <3>3
    <3>5. ASSUME ~steppedBack PROVE total_gap_size' = accounted'
      <4>1. n = p.pos /\ expected_seq = parsed
        BY <1>3, <2>4, <3>5 DEF NetInv, NumbersInv, n
      <4>2. p.pos - parsed = 0
        BY <1>1, <1>4, <2>4, <3>3, <4>1
      <4>3. QED
        BY <2>1, <3>1, <3>2, <3>5, <4>2
    <3>6. total_gap_size' <= accounted'
      BY <2>1, <3>1, <3>4
    <3>7. QED
      BY <1>6, <2>1, <2>2, <3>1, <3>4, <3>5, <3>6 DEF GapsAccounted, SequenceTypes
  <2>5. CASE ~seq_initialized
    <3>1. /\ sequence_gaps' = sequence_gaps /\ total_gap_size' = total_gap_size
          /\ accounted' = accounted
      BY <1>5, <2>5 DEF CheckSequence
    <3>2. QED
      BY <1>6, <2>1, <2>2, <3>1 DEF GapsAccounted, SequenceTypes
  <2>6. QED
    BY <2>3, <2>4, <2>5
<1>12. TickTypes'
  <2>1. Len(wire') <= MaxWire
    BY <1>1, <1>3, LoopAssumption DEF NetInv, TickTypes
  <2>2. \A k \in DOMAIN wire' : wire'[k].msg.type \in Types /\ wire'[k].msg.seq \in SeqNums
                                /\ wire'[k].pos \in Nat
    BY <1>3, WireTypes
  <2>3. QED
    BY <1>6, <2>1, <2>2 DEF NetInv, TickTypes, ticking
<1>13. QED
  BY <1>9, <1>10, <1>11, <1>12 DEF NetInv

LEMMA NetStep ==
    ASSUME NetInv, [Next]_vars
    PROVE  NetInv'
<1>1. CASE Server
  <2>1. UNCHANGED <<sequencing, parsed, accounted>>
    BY <1>1 DEF Server, client
  <2>2. CASE Tick \/ Heartbeat
    BY <2>1, <2>2, TickNet
  <2>3. CASE NoHeartbeat
    <3>1. UNCHANGED <<seq, issued, wire, steppedBack>>
      BY <2>3 DEF NoHeartbeat, link
    <3>2. TickTypes'
      BY <2>3 DEF NoHeartbeat, AfterBatch, link, NetInv, TickTypes
    <3>3. QED
      BY <2>1, <3>1, <3>2, QuietNet
  <2>4. QED
    BY <1>1, <2>2, <2>3 DEF Server, TickThread
<1>2. CASE Connect
  <2>1. UNCHANGED <<seq, issued, wire, steppedBack, sequencing, parsed, accounted>>
    BY <1>2 DEF Connect, ticking, client
  <2>2. TickTypes'
    BY <1>2 DEF Connect, ticking, NetInv, TickTypes
  <2>3. QED
    BY <2>1, <2>2, QuietNet
<1>3. CASE Disconnect
  <2>1. /\ LoseWire /\ UNCHANGED <<issued, sequencing, parsed, accounted>>
        /\ UNCHANGED <<ticking, steppedBack>>
    BY <1>3 DEF Disconnect, ticking, client
  <2>2. QED
    BY <2>1, LossNet
<1>4. CASE Restart
  <2>1. LoseWire /\ UNCHANGED <<issued, sequencing, parsed, accounted>> /\ StartAgain
    BY <1>4 DEF Restart, StartAgain, client
  <2>2. QED
    BY <2>1, LossNet
<1>5. CASE ParseMessage
  BY <1>5, ParseNet
<1>6. CASE netVars' = netVars
  <2>1. UNCHANGED <<seq, issued, wire, steppedBack, sequencing, parsed, accounted>>
    BY <1>6 DEF netVars, ticking, link
  <2>2. TickTypes'
    BY <1>6 DEF netVars, ticking, link, NetInv, TickTypes
  <2>3. QED
    BY <2>1, <2>2, QuietNet
<1>7. CASE Updated
  <2>1. netVars' = netVars
    BY <1>7 DEF Updated, netVars
  <2>2. QED
    BY <2>1, <1>6
<1>8. CASE CountMessage
  <2>1. netVars' = netVars
    BY <1>8 DEF CountMessage, netVars
  <2>2. QED
    BY <2>1, <1>6
<1>9. CASE Render
  <2>1. netVars' = netVars
    BY <1>9 DEF Render, netVars
  <2>2. QED
    BY <2>1, <1>6
<1>10. CASE Quit
  <2>1. UNCHANGED <<seq, issued, wire, steppedBack, sequencing, parsed, accounted>>
    BY <1>10 DEF Quit, StopServer, link, client
  <2>2. TickTypes'
    BY <1>10, LoopAssumption DEF Quit, StopServer, link, NetInv, TickTypes
  <2>3. QED
    BY <2>1, <2>2, QuietNet
<1>11. CASE UNCHANGED vars
  <2>1. netVars' = netVars
    BY <1>11 DEF vars, client, netVars
  <2>2. QED
    BY <2>1, <1>6
<1>12. QED
  BY <1>1, <1>2, <1>3, <1>4, <1>5, <1>7, <1>8, <1>9, <1>10, <1>11 DEF Next, Parse

LEMMA NetStart == ASSUME Init PROVE NetInv
<1>1. /\ wire = <<>> /\ seq = 0 /\ issued = 0 /\ parsed = 0 /\ accounted = 0
      /\ seq_initialized = FALSE /\ total_gap_size = 0 /\ sequence_gaps = 0
      /\ expected_seq = 0 /\ steppedBack = FALSE
  BY DEF Init, TickInit, SequenceInit
<1>2. wire \in Seq(Packets) /\ Len(wire) = 0 /\ DOMAIN wire = {}
  BY <1>1
<1>3. 0 \in SeqNums
  BY SeqModAssumption DEF SeqNums
<1>4. TickTypes
  <2>1. /\ fault_injection \in BOOLEAN /\ live \in BOOLEAN /\ tpc = "batch"
        /\ b = 0 /\ symbol_idx = 0 /\ msgs_broadcast = 0
    BY DEF Init, TickInit
  <2>2. Len(wire) <= MaxWire /\ 0 \in 0 .. MaxMessages /\ 0 \in 0 .. batch_size - 1
    BY <1>2, LoopAssumption
  <2>3. QED
    BY <1>1, <1>2, <1>3, <2>1, <2>2 DEF TickTypes
<1>5. SequenceTypes
  BY <1>1, <1>3 DEF SequenceTypes
<1>6. WireInv /\ NumbersInv /\ GapsAccounted
  BY <1>1, <1>2 DEF WireInv, NumbersInv, GapsAccounted
<1>7. QED
  BY <1>1, <1>4, <1>5, <1>6 DEF NetInv

\* The gaps reported are the numbers left out and the messages lost: never more
\* and, until the numbers step back, never fewer.
THEOREM GapsAreAccounted == Spec => []GapsAccounted
<1>1. Init => NetInv
  BY NetStart
<1>2. NetInv /\ [Next]_vars => NetInv'
  BY NetStep
<1>3. NetInv => GapsAccounted
  BY DEF NetInv
<1>4. QED
  BY <1>1, <1>2, <1>3, PTL DEF Spec

-----------------------------------------------------------------------------
(***************************************************************************)
(* The cache, the counts and the display.                                  *)
(***************************************************************************)

LEMMA EntriesFinite == IsFiniteSet(Entries) /\ Entries \in SUBSET Nat
<1>1. NumEntries \in Nat
  BY DisplayAssumption
<1>2. QED
  BY <1>1, FS_Interval DEF Entries

\* What an update makes of a state the cache may be in.
LEMMA QuoteApplied ==
    ASSUME NEW st, PricedState(st), NEW bid \in Nat, NEW ask \in Nat, 0 < bid, bid < ask
    PROVE  /\ PricedState(AfterQuote(st, bid, ask))
           /\ AfterQuote(st, bid, ask)["update_count"] = st["update_count"] + 1
<1> DEFINE new == AfterQuote(st, bid, ask)
<1>1. st \in [Fields -> Nat]
  BY DEF PricedState, MarketState
<1>2. {"best_bid", "best_ask", "last_traded_price", "update_count", "open_price"} = Fields
  BY DEF Fields
<1>3. /\ new["best_bid"] = bid /\ new["best_ask"] = ask
      /\ new["last_traded_price"] = st["last_traded_price"]
      /\ new["update_count"] = st["update_count"] + 1
  BY <1>1, <1>2 DEF AfterQuote
<1>4. new \in [Fields -> Nat]
  BY <1>1, <1>2 DEF AfterQuote
<1> HIDE DEF new
<1>5. QED
  BY <1>3, <1>4 DEF PricedState, MarketState, new

LEMMA TradeApplied ==
    ASSUME NEW st, PricedState(st), NEW price \in Nat, 0 < price
    PROVE  /\ PricedState(AfterTrade(st, price))
           /\ AfterTrade(st, price)["update_count"] = st["update_count"] + 1
<1> DEFINE new == AfterTrade(st, price)
<1>1. st \in [Fields -> Nat] /\ (st["best_bid"] > 0 => st["best_bid"] < st["best_ask"])
  BY DEF PricedState, MarketState
<1>2. {"best_bid", "best_ask", "last_traded_price", "update_count", "open_price"} = Fields
  BY DEF Fields
<1>3. /\ new["best_bid"] = st["best_bid"] /\ new["best_ask"] = st["best_ask"]
      /\ new["last_traded_price"] = price
      /\ new["update_count"] = st["update_count"] + 1
  BY <1>1, <1>2 DEF AfterTrade
<1>4. new \in [Fields -> Nat]
  BY <1>1, <1>2 DEF AfterTrade
<1> HIDE DEF new
<1>5. QED
  BY <1>1, <1>3, <1>4 DEF PricedState, MarketState, new

\* The counts of the entries, as numbers.
LEMMA CountsAreNumbers ==
    ASSUME ShowInv
    PROVE  /\ \A s \in Entries : cache[s]["update_count"] \in Nat
           /\ \A s \in Entries : before[s] \in Nat
           /\ SumOn(Counts, Entries) \in Nat /\ SumOn(before, Entries) \in Nat
<1>1. "update_count" \in Fields
  BY DEF Fields
<1>2. \A s \in Entries : cache[s]["update_count"] \in Nat /\ before[s] \in Nat
  BY <1>1 DEF ShowInv, DisplayTypes, MarketState
<1>3. \A s \in Entries : Counts[s] \in Nat
  BY <1>2 DEF Counts
<1>4. SumOn(Counts, Entries) \in Nat
  BY <1>3, EntriesFinite, SumNat
<1>5. SumOn(before, Entries) \in Nat
  BY <1>2, EntriesFinite, SumNat
<1>6. QED
  BY <1>2, <1>4, <1>5

\* What is known while no update is in progress.
LEMMA NoUpdate ==
    ASSUME ShowInv, ppc # "update"
    PROVE  /\ update = <<>> /\ \A s : ~Updating(s)
           /\ vpc = "snapshot" => cache[i]["update_count"] > 0
<1>1. update = <<>>
  BY DEF ShowInv, CacheInv
<1>2. \A s : ~Updating(s)
  BY <1>1 DEF Updating
<1>3. QED
  BY <1>1, <1>2 DEF ShowInv, RowsInv

\* Steps of the other threads.
LEMMA QuietShow ==
    ASSUME ShowInv, showVars' = showVars
    PROVE  ShowInv'
<1>1. /\ ppc' = ppc /\ foreign' = foreign /\ cache' = cache /\ update' = update
      /\ total_messages' = total_messages /\ vpc' = vpc /\ i' = i /\ header' = header
      /\ rows' = rows /\ top' = top /\ opened' = opened /\ torn' = torn /\ before' = before
  BY DEF showVars, shared, display
<1>2. DisplayTypes' /\ ppc' \in {"loop", "update", "count"} /\ foreign' \in Nat
  BY <1>1 DEF ShowInv, DisplayTypes
<1>3. CacheInv'
  BY <1>1 DEF ShowInv, CacheInv
<1>4. CountInv'
  BY <1>1 DEF ShowInv, CountInv, Counts
<1>5. RowsInv'
  BY <1>1 DEF ShowInv, RowsInv, Updating
<1>6. HeaderInv'
  BY <1>1 DEF ShowInv, HeaderInv
<1>7. TopInv'
  BY <1>1 DEF ShowInv, TopInv, TopRows, Ahead
<1>8. QED
  BY <1>2, <1>3, <1>4, <1>5, <1>6, <1>7 DEF ShowInv

\* The message applied to its entry.
LEMMA MessageApplied ==
    ASSUME ShowInv, NEW m \in Quotes \union Trades \union Heartbeats,
           m.type # "heartbeat", m.sym \in Entries
    PROVE  /\ PricedState(Applied(m))
           /\ Applied(m)["update_count"] = cache[m.sym]["update_count"] + 1
<1>1. PricedState(cache[m.sym])
  BY DEF ShowInv, CacheInv
<1>2. CASE m \in Quotes
  <2>1. m.type = "quote" /\ m.bid \in Nat /\ m.ask \in Nat /\ 0 < m.bid /\ m.bid < m.ask
    BY <1>2 DEF Quotes
  <2>2. Applied(m) = AfterQuote(cache[m.sym], m.bid, m.ask)
    BY <2>1 DEF Applied
  <2>3. QED
    BY <1>1, <2>1, <2>2, QuoteApplied
<1>3. CASE m \in Trades
  <2>1. m.type = "trade" /\ m.price \in Nat /\ 0 < m.price
    BY <1>3 DEF Trades
  <2>2. Applied(m) = AfterTrade(cache[m.sym], m.price)
    BY <2>1 DEF Applied
  <2>3. QED
    BY <1>1, <2>1, <2>2, TradeApplied
<1>4. QED
  BY <1>2, <1>3 DEF Heartbeats

LEMMA ParseShow ==
    ASSUME NetInv, ShowInv, ParseMessage
    PROVE  ShowInv'
<1> DEFINE m == Head(wire).msg
<1>1. ppc = "loop" /\ wire # <<>>
  BY DEF ParseMessage
<1>2. m \in Quotes \union Trades \union Heartbeats
  <2>1. wire \in Seq(Packets)
    BY WireFacts
  <2>2. Head(wire) \in Packets
    BY <1>1, <2>1, HeadTailProperties
  <2>3. QED
    BY <2>2 DEF Packets
<1>3. /\ cache' = cache /\ total_messages' = total_messages /\ vpc' = vpc /\ i' = i
      /\ header' = header /\ rows' = rows /\ top' = top /\ opened' = opened /\ torn' = torn
      /\ before' = before
  BY DEF ParseMessage, display
<1>4. \/ ppc' = ppc /\ update' = update /\ foreign' = foreign
      \/ /\ m.type # "heartbeat" /\ m.sym \in Entries
         /\ ppc' = "update" /\ update' = <<m.sym, Applied(m)>> /\ foreign' = foreign
      \/ ppc' = "count" /\ update' = update /\ foreign' = foreign + 1
  BY DEF ParseMessage
<1> HIDE DEF m
<1>5. /\ update = <<>> /\ \A s : ~Updating(s)
      /\ vpc = "snapshot" => cache[i]["update_count"] > 0
  BY <1>1, NoUpdate
<1>6. foreign \in Nat /\ foreign' \in Nat /\ foreign <= foreign'
  BY <1>4 DEF ShowInv
<1>7. DisplayTypes' /\ ppc' \in {"loop", "update", "count"}
  <2>1. ppc' \in {"loop", "update", "count"}
    BY <1>1, <1>4
  <2>2. QED
    BY <1>3, <2>1 DEF ShowInv, DisplayTypes
<1>8. CacheInv'
  <2>1. \A s \in Entries : PricedState(cache'[s])
    BY <1>3 DEF ShowInv, CacheInv
  <2>2. CASE ppc' # "update"
    <3>1. update' = <<>>
      BY <1>4, <1>5, <2>2
    <3>2. QED
      BY <2>1, <2>2, <3>1 DEF CacheInv
  <2>3. CASE ppc' = "update"
    <3>1. m.type # "heartbeat" /\ m.sym \in Entries /\ update' = <<m.sym, Applied(m)>>
      BY <1>1, <1>4, <2>3
    <3>2. /\ PricedState(Applied(m))
          /\ Applied(m)["update_count"] = cache[m.sym]["update_count"] + 1
      BY <1>2, <3>1, MessageApplied
    <3>3. /\ update' \in Entries \X MarketState /\ PricedState(update'[2])
          /\ update'[2]["update_count"] = cache'[update'[1]]["update_count"] + 1
      BY <1>3, <3>1, <3>2 DEF PricedState
    <3>4. QED
      BY <2>1, <2>3, <3>3 DEF CacheInv
  <2>4. QED
    BY <2>2, <2>3
<1>9. CountInv'
  <2>1. Counts' = Counts
    BY <1>3 DEF Counts
  <2>2. total_messages + 0 = foreign + SumOn(Counts, Entries)
    BY <1>1 DEF ShowInv, CountInv
  <2>3. total_messages \in Nat /\ SumOn(Counts, Entries) \in Nat
    BY CountsAreNumbers DEF ShowInv, DisplayTypes
  <2>4. CASE ppc' = "count"
    <3>1. foreign' = foreign + 1
      BY <1>1, <1>4, <2>4
    <3>2. total_messages + 1 = foreign' + SumOn(Counts, Entries)
      BY <1>6, <2>2, <2>3, <3>1
    <3>3. QED
      BY <1>3, <2>1, <2>4, <3>2 DEF CountInv
  <2>5. CASE ppc' # "count"
    <3>1. foreign' = foreign
      BY <1>4, <2>5
    <3>2. QED
      BY <1>3, <2>1, <2>2, <2>5, <3>1 DEF CountInv
  <2>6. QED
    BY <2>4, <2>5
<1>10. RowsInv'
  <2>1. RowsInv
    BY DEF ShowInv
  <2>2. QED
    BY <1>3, <1>5, <2>1 DEF RowsInv
<1>11. HeaderInv'
  <2>1. header <= foreign + SumOn(before, Entries) /\ header \in Nat
    BY DEF ShowInv, HeaderInv, DisplayTypes
  <2>2. SumOn(before, Entries) \in Nat
    BY CountsAreNumbers
  <2>3. header <= foreign' + SumOn(before, Entries)
    BY <1>6, <2>1, <2>2
  <2>4. QED
    BY <1>3, <2>3 DEF HeaderInv
<1>12. TopInv'
  BY <1>3 DEF ShowInv, TopInv, TopRows, Ahead
<1>13. QED
  BY <1>6, <1>7, <1>8, <1>9, <1>10, <1>11, <1>12 DEF ShowInv

LEMMA UpdatedShow ==
    ASSUME ShowInv, Updated
    PROVE  ShowInv'
<1>1. /\ ppc = "update" /\ ppc' = "count" /\ update' = <<>>
      /\ cache' = [cache EXCEPT ![update[1]] = update[2]]
      /\ total_messages' = total_messages /\ foreign' = foreign /\ vpc' = vpc /\ i' = i
      /\ header' = header /\ rows' = rows /\ top' = top /\ opened' = opened /\ torn' = torn
      /\ before' = before
  BY DEF Updated, display
<1>2. /\ update \in Entries \X MarketState /\ PricedState(update[2])
      /\ update[2]["update_count"] = cache[update[1]]["update_count"] + 1
  BY <1>1 DEF ShowInv, CacheInv
<1>3. PICK x \in Entries, st \in MarketState : update = <<x, st>>
  BY <1>2
<1>4. /\ PricedState(st) /\ st["update_count"] = cache[x]["update_count"] + 1
      /\ cache' = [cache EXCEPT ![x] = st]
  BY <1>1, <1>2, <1>3
<1>5. cache \in [Entries -> MarketState]
  BY DEF ShowInv, DisplayTypes
<1>6. /\ cache' \in [Entries -> MarketState] /\ cache'[x] = st
      /\ \A s \in Entries : s # x => cache'[s] = cache[s]
  BY <1>4, <1>5
<1>7. \A s \in Entries : cache[s]["update_count"] \in Nat /\ before[s] \in Nat
  BY CountsAreNumbers
<1>8. \A s \in Entries : /\ cache'[s]["update_count"] \in Nat
                         /\ cache[s]["update_count"] <= cache'[s]["update_count"]
  BY <1>4, <1>6, <1>7
<1>9. DisplayTypes' /\ ppc' \in {"loop", "update", "count"} /\ foreign' \in Nat
  BY <1>1, <1>6 DEF ShowInv, DisplayTypes
<1>10. CacheInv'
  BY <1>1, <1>4, <1>6 DEF ShowInv, CacheInv
<1>11. CountInv'
  <2>1. PICK f, g : f = Counts /\ g = Counts'
    OBVIOUS
  <2>2. /\ \A s \in Entries : f[s] \in Nat /\ g[s] \in Nat
        /\ \A s \in Entries : s # x => f[s] = g[s]
        /\ g[x] = f[x] + 1
    BY <1>4, <1>6, <1>7, <1>8, <2>1 DEF Counts
  <2>3. SumOn(g, Entries) + f[x] = SumOn(f, Entries) + g[x]
    <3>1. PICK S : S = Entries
      OBVIOUS
    <3>2. IsFiniteSet(S) /\ x \in S
      BY <3>1, EntriesFinite
    <3>3. /\ \A s \in S : f[s] \in Nat /\ g[s] \in Nat
          /\ \A s \in S : s # x => f[s] = g[s]
      BY <2>2, <3>1
    <3>4. SumOn(g, S) + f[x] = SumOn(f, S) + g[x]
      BY <3>2, <3>3, SumUpdate
    <3>5. QED
      BY <3>1, <3>4
  <2>4. SumOn(f, Entries) \in Nat /\ SumOn(g, Entries) \in Nat
    BY <2>2, EntriesFinite, SumNat
  <2>5. f[x] \in Nat
    BY <2>2
  <2>6. SumOn(g, Entries) = SumOn(f, Entries) + 1
    BY <2>2, <2>3, <2>4, <2>5
  <2>7. total_messages + 0 = foreign + SumOn(f, Entries)
    BY <1>1, <2>1 DEF ShowInv, CountInv
  <2>8. total_messages \in Nat /\ foreign \in Nat
    BY DEF ShowInv, DisplayTypes
  <2>9. total_messages + 1 = foreign + SumOn(g, Entries)
    BY <2>4, <2>6, <2>7, <2>8
  <2>10. QED
    BY <1>1, <2>1, <2>9 DEF CountInv
<1>12. RowsInv'
  <2>1. RowsInv /\ DOMAIN rows \subseteq Entries
    BY DEF ShowInv, DisplayTypes
  <2>2. \A s \in Entries : before[s] <= cache'[s]["update_count"]
    BY <1>7, <1>8, <2>1 DEF RowsInv
  <2>3. \A s \in DOMAIN rows :
          /\ PricedState(rows[s]) /\ rows[s]["update_count"] > 0
          /\ before[s] <= rows[s]["update_count"]
          /\ rows[s]["update_count"] <= cache'[s]["update_count"]
    <3>1. TAKE s \in DOMAIN rows
    <3>2. /\ PricedState(rows[s]) /\ rows[s]["update_count"] > 0
          /\ before[s] <= rows[s]["update_count"]
          /\ rows[s]["update_count"] <= cache[s]["update_count"] /\ s \in Entries
      BY <2>1 DEF RowsInv
    <3>3. rows[s]["update_count"] \in Nat
      BY <3>2 DEF PricedState, MarketState, Fields
    <3>4. QED
      BY <1>7, <1>8, <3>2, <3>3
  <2>4. vpc = "snapshot" => cache'[i]["update_count"] > 0
    <3>1. SUFFICES ASSUME vpc = "snapshot" PROVE cache'[i]["update_count"] > 0
      OBVIOUS
    <3>2. i \in Entries
      BY <3>1 DEF ShowInv, DisplayTypes
    <3>3. CASE Updating(i)
      <4>1. i = x
        BY <1>3, <3>3 DEF Updating
      <4>2. QED
        BY <1>4, <1>6, <1>7, <4>1
    <3>4. CASE ~Updating(i)
      <4>1. cache[i]["update_count"] > 0
        BY <2>1, <3>1, <3>4 DEF RowsInv
      <4>2. QED
        BY <1>7, <1>8, <3>2, <4>1
    <3>5. QED
      BY <3>3, <3>4
  <2>5. QED
    BY <1>1, <2>1, <2>2, <2>3, <2>4 DEF RowsInv
<1>13. HeaderInv' /\ TopInv'
  BY <1>1 DEF ShowInv, HeaderInv, TopInv, TopRows, Ahead
<1>14. QED
  BY <1>9, <1>10, <1>11, <1>12, <1>13 DEF ShowInv

LEMMA CountShow ==
    ASSUME ShowInv, CountMessage
    PROVE  ShowInv'
<1>1. /\ ppc = "count" /\ ppc' = "loop" /\ total_messages' = total_messages + 1
      /\ cache' = cache /\ update' = update /\ foreign' = foreign /\ vpc' = vpc /\ i' = i
      /\ header' = header /\ rows' = rows /\ top' = top /\ opened' = opened /\ torn' = torn
      /\ before' = before
  BY DEF CountMessage, display
<1>2. DisplayTypes' /\ ppc' \in {"loop", "update", "count"} /\ foreign' \in Nat
  BY <1>1 DEF ShowInv, DisplayTypes
<1>3. CacheInv' /\ RowsInv'
  BY <1>1 DEF ShowInv, CacheInv, RowsInv, Updating
<1>4. CountInv'
  <2>1. total_messages + 1 = foreign + SumOn(Counts, Entries)
    BY <1>1 DEF ShowInv, CountInv
  <2>2. total_messages' + 0 = foreign + SumOn(Counts, Entries)
    BY <1>1, <2>1 DEF ShowInv, DisplayTypes
  <2>3. Counts' = Counts
    BY <1>1 DEF Counts
  <2>4. QED
    BY <1>1, <2>2, <2>3 DEF CountInv
<1>5. HeaderInv' /\ TopInv'
  BY <1>1 DEF ShowInv, HeaderInv, TopInv, TopRows, Ahead
<1>6. QED
  BY <1>2, <1>3, <1>4, <1>5 DEF ShowInv

-----------------------------------------------------------------------------
(***************************************************************************)
(* The display thread.                                                     *)
(***************************************************************************)

\* What every step of it leaves alone.
LEMMA RenderKeeps ==
    ASSUME Render
    PROVE  /\ ppc' = ppc /\ foreign' = foreign /\ cache' = cache /\ update' = update
           /\ total_messages' = total_messages
BY DEF Render, RenderThread, Header, LoadCount, Snapshot, SnapshotLeftEarly, Draw, shared

LEMMA CacheKept ==
    ASSUME ShowInv, Render
    PROVE  /\ CacheInv' /\ CountInv' /\ ppc' \in {"loop", "update", "count"}
           /\ foreign' \in Nat /\ cache' \in [Entries -> MarketState] /\ total_messages' \in Nat
<1>1. /\ ppc' = ppc /\ foreign' = foreign /\ cache' = cache /\ update' = update
      /\ total_messages' = total_messages
  BY RenderKeeps
<1>2. CacheInv'
  BY <1>1 DEF ShowInv, CacheInv
<1>3. CountInv'
  BY <1>1 DEF ShowInv, CountInv, Counts
<1>4. QED
  BY <1>1, <1>2, <1>3 DEF ShowInv, DisplayTypes

LEMMA HeaderShow ==
    ASSUME ShowInv, Render, Header
    PROVE  ShowInv'
<1>1. /\ header' = total_messages /\ rows' = NoRows /\ top' = {} /\ i' = 0 /\ torn' = FALSE
      /\ before' = [s \in Entries |-> cache[s]["update_count"]] /\ vpc' = "rows"
      /\ opened' = opened
  BY DEF Header
<1>2. foreign' = foreign /\ cache' = cache /\ total_messages \in Nat /\ foreign \in Nat
  BY RenderKeeps DEF ShowInv, DisplayTypes
<1>3. DOMAIN rows' = {}
  BY <1>1 DEF NoRows
<1>4. \A s \in Entries : cache[s]["update_count"] \in Nat
  BY CountsAreNumbers
<1>5. DisplayTypes'
  <2>1. before' \in [Entries -> Nat]
    BY <1>1, <1>4
  <2>2. i' \in 0 .. NumEntries
    BY <1>1, DisplayAssumption
  <2>3. vpc' \in {"top", "rows", "snapshot"} /\ (vpc' = "snapshot" => i' \in Entries)
    BY <1>1
  <2>4. opened' \subseteq Entries /\ torn' \in BOOLEAN /\ header' \in Nat
    BY <1>1, <1>2 DEF ShowInv, DisplayTypes
  <2>5. QED
    BY <1>1, <1>3, <2>1, <2>2, <2>3, <2>4, CacheKept DEF DisplayTypes
<1>6. RowsInv'
  <2>1. \A s \in Entries : before'[s] <= cache'[s]["update_count"]
    BY <1>1, <1>2, <1>4
  <2>2. \A s \in Entries : ~(s < i')
    BY <1>1, EntriesFinite
  <2>3. QED
    BY <1>1, <1>3, <2>1, <2>2 DEF RowsInv
<1>7. HeaderInv'
  <2>1. before' = Counts
    BY <1>1 DEF Counts
  <2>2. total_messages <= foreign + SumOn(Counts, Entries)
    <3>1. total_messages + (IF ppc = "count" THEN 1 ELSE 0) = foreign + SumOn(Counts, Entries)
      BY DEF ShowInv, CountInv
    <3>2. SumOn(Counts, Entries) \in Nat
      BY CountsAreNumbers
    <3>3. QED
      BY <1>2, <3>1, <3>2
  <2>3. QED
    BY <1>1, <1>2, <2>1, <2>2 DEF HeaderInv
<1>8. TopInv'
  BY <1>1 DEF TopInv
<1>9. QED
  BY <1>5, <1>6, <1>7, <1>8, CacheKept DEF ShowInv

\* A count that is loaded as zero is zero and was zero.
LEMMA LoadCountShow ==
    ASSUME ShowInv, Render, LoadCount
    PROVE  ShowInv'
<1>1. /\ vpc = "rows" /\ i < NumEntries
      /\ header' = header /\ rows' = rows /\ top' = top /\ opened' = opened /\ torn' = torn
      /\ before' = before
  BY DEF LoadCount
<1>2. PICK cnt \in LoadedCounts(i) : IF cnt = 0 THEN i' = i + 1 /\ vpc' = vpc
                                                ELSE vpc' = "snapshot" /\ i' = i
  BY DEF LoadCount
<1>3. /\ ppc' = ppc /\ foreign' = foreign /\ cache' = cache /\ update' = update
  BY RenderKeeps
<1>4. i \in Nat /\ NumEntries \in Nat /\ i \in Entries
  BY <1>1, DisplayAssumption DEF ShowInv, DisplayTypes, Entries
<1>5. cache[i]["update_count"] \in Nat /\ before[i] \in Nat /\ before[i] <= cache[i]["update_count"]
  BY <1>4, CountsAreNumbers DEF ShowInv, RowsInv
<1>6. \/ cnt = cache[i]["update_count"]
      \/ Updating(i) /\ cnt = cache[i]["update_count"] + 1
  <2>1. SUFFICES ASSUME Updating(i), cnt = update[2]["update_count"]
                 PROVE  cnt = cache[i]["update_count"] + 1
    BY <1>2 DEF LoadedCounts
  <2>2. ppc = "update"
    BY <2>1, NoUpdate
  <2>3. update[2]["update_count"] = cache[update[1]]["update_count"] + 1
    BY <2>2 DEF ShowInv, CacheInv
  <2>4. QED
    BY <2>1, <2>3 DEF Updating
<1>7. DisplayTypes'
  <2>1. vpc' \in {"top", "rows", "snapshot"} /\ (vpc' = "snapshot" => i' \in Entries)
    BY <1>1, <1>2, <1>4
  <2>2. i' \in 0 .. NumEntries
    BY <1>1, <1>2, <1>4
  <2>3. QED
    BY <1>1, <2>1, <2>2, CacheKept DEF ShowInv, DisplayTypes
<1>8. RowsInv'
  <2>1. RowsInv
    BY DEF ShowInv
  <2>2. vpc' = "snapshot" => cache[i']["update_count"] > 0 \/ Updating(i')
    BY <1>1, <1>2, <1>5, <1>6
  <2>3. torn \/ \A s \in Entries \ DOMAIN rows : s < i' \/ vpc' = "top" => before[s] = 0
    <3>1. SUFFICES ASSUME ~torn, NEW s \in Entries \ DOMAIN rows, s < i' PROVE before[s] = 0
      BY <1>1, <1>2
    <3>2. CASE s < i
      BY <2>1, <3>1, <3>2 DEF RowsInv
    <3>3. CASE ~(s < i)
      <4>1. cnt = 0 /\ s = i
        BY <1>2, <1>4, <3>1, <3>3, EntriesFinite
      <4>2. QED
        BY <1>5, <1>6, <4>1
    <3>4. QED
      BY <3>2, <3>3
  <2>4. QED
    BY <1>1, <1>3, <2>1, <2>2, <2>3 DEF RowsInv, Updating
<1>9. HeaderInv'
  BY <1>1, <1>3 DEF ShowInv, HeaderInv
<1>10. TopInv'
  BY <1>1, <1>2 DEF ShowInv, TopInv
<1>11. QED
  BY <1>7, <1>8, <1>9, <1>10, CacheKept DEF ShowInv

\* A row is collected that has updates, as many as the frame began with.
LEMMA SnapshotShow ==
    ASSUME ShowInv, Render, Snapshot
    PROVE  ShowInv'
<1>1. /\ vpc = "snapshot" /\ ~Updating(i) /\ vpc' = "rows" /\ i' = i + 1
      /\ header' = header /\ top' = top /\ opened' = opened /\ torn' = torn
      /\ before' = before
      /\ rows' = IF torn THEN rows
                         ELSE [s \in DOMAIN rows \union {i} |-> IF s = i THEN cache[i] ELSE rows[s]]
  BY DEF Snapshot
<1>2. /\ ppc' = ppc /\ foreign' = foreign /\ cache' = cache /\ update' = update
  BY RenderKeeps
<1>3. i \in Nat /\ NumEntries \in Nat /\ i \in Entries /\ i + 1 \in 0 .. NumEntries
  BY <1>1, DisplayAssumption DEF ShowInv, DisplayTypes, Entries
<1>4. /\ cache[i]["update_count"] \in Nat /\ before[i] \in Nat
      /\ before[i] <= cache[i]["update_count"] /\ cache[i]["update_count"] > 0
      /\ PricedState(cache[i])
  BY <1>1, <1>3, CountsAreNumbers DEF ShowInv, RowsInv, CacheInv
<1>5. \/ rows' = rows /\ torn
      \/ /\ ~torn
         /\ DOMAIN rows' = DOMAIN rows \union {i}
         /\ \A s \in DOMAIN rows' : rows'[s] = IF s = i THEN cache[i] ELSE rows[s]
  BY <1>1
<1>6. \A s \in DOMAIN rows' : \/ s \in DOMAIN rows /\ rows'[s] = rows[s]
                              \/ s = i /\ rows'[s] = cache[i]
  BY <1>5
<1>7. DisplayTypes'
  <2>1. DOMAIN rows' \subseteq Entries /\ top' \subseteq DOMAIN rows'
    BY <1>1, <1>3, <1>5 DEF ShowInv, DisplayTypes
  <2>2. \A s \in DOMAIN rows' : rows'[s] \in MarketState
    BY <1>4, <1>6 DEF ShowInv, DisplayTypes, PricedState
  <2>3. QED
    BY <1>1, <1>3, <2>1, <2>2, CacheKept DEF ShowInv, DisplayTypes
<1>8. RowsInv'
  <2>1. RowsInv
    BY DEF ShowInv
  <2>2. \A s \in DOMAIN rows' :
          /\ PricedState(rows'[s]) /\ rows'[s]["update_count"] > 0
          /\ before[s] <= rows'[s]["update_count"]
          /\ rows'[s]["update_count"] <= cache[s]["update_count"]
    BY <1>4, <1>6, <2>1 DEF RowsInv
  <2>3. torn \/ \A s \in Entries \ DOMAIN rows' : s < i' => before[s] = 0
    <3>1. SUFFICES ASSUME ~torn, NEW s \in Entries \ DOMAIN rows', s < i' PROVE before[s] = 0
      OBVIOUS
    <3>2. s \notin DOMAIN rows /\ s # i
      BY <1>5, <3>1
    <3>3. s < i
      BY <1>1, <1>3, <3>1, <3>2, EntriesFinite
    <3>4. QED
      BY <2>1, <3>1, <3>2, <3>3 DEF RowsInv
  <2>4. QED
    BY <1>1, <1>2, <2>1, <2>2, <2>3 DEF RowsInv
<1>9. HeaderInv'
  BY <1>1, <1>2 DEF ShowInv, HeaderInv
<1>10. TopInv'
  BY <1>1 DEF ShowInv, TopInv
<1>11. QED
  BY <1>7, <1>8, <1>9, <1>10, CacheKept DEF ShowInv

LEMMA SnapshotLeftEarlyShow ==
    ASSUME ShowInv, Render, SnapshotLeftEarly
    PROVE  ShowInv'
<1>1. /\ vpc = "snapshot" /\ vpc' = "rows" /\ i' = i + 1 /\ rows' = NoRows /\ torn' = TRUE
      /\ header' = header /\ top' = top /\ opened' = opened /\ before' = before
  BY DEF SnapshotLeftEarly
<1>2. foreign' = foreign /\ cache' = cache
  BY RenderKeeps
<1>3. i + 1 \in 0 .. NumEntries
  BY <1>1, DisplayAssumption DEF ShowInv, DisplayTypes, Entries
<1>4. DOMAIN rows' = {} /\ top' = {}
  BY <1>1 DEF NoRows, ShowInv, TopInv
<1>5. DisplayTypes'
  BY <1>1, <1>3, <1>4, CacheKept DEF ShowInv, DisplayTypes
<1>6. RowsInv'
  BY <1>1, <1>2, <1>4 DEF ShowInv, RowsInv
<1>7. HeaderInv' /\ TopInv'
  BY <1>1, <1>2, <1>4 DEF ShowInv, HeaderInv, TopInv
<1>8. QED
  BY <1>5, <1>6, <1>7, CacheKept DEF ShowInv

\* Every row that is drawn is priced, so each has its reference price.
LEMMA DrawShow ==
    ASSUME ShowInv, Render, Draw
    PROVE  ShowInv'
<1>1. /\ vpc = "rows" /\ i = NumEntries /\ vpc' = "top" /\ top' \in TopRows
      /\ i' = i /\ header' = header /\ rows' = rows /\ torn' = torn /\ before' = before
  BY DEF Draw
<1>2. /\ ppc' = ppc /\ foreign' = foreign /\ cache' = cache /\ update' = update
  BY RenderKeeps
<1>3. top' \subseteq DOMAIN rows /\ DOMAIN rows \subseteq Entries
  BY <1>1 DEF TopRows, ShowInv, DisplayTypes
<1>4. \A s \in DOMAIN rows : Priced(s)
  BY DEF ShowInv, RowsInv, PricedState, Priced
<1>5. opened' \subseteq Entries /\ (torn \/ top' \subseteq opened')
  <2>1. opened \subseteq Entries
    BY DEF ShowInv, DisplayTypes
  <2>2. CASE torn
    BY <2>1, <2>2 DEF Draw
  <2>3. CASE ~torn
    <3>1. opened' = opened \union {s \in top' : Priced(s)}
      BY <2>3 DEF Draw
    <3>2. QED
      BY <1>3, <1>4, <2>1, <3>1
  <2>4. QED
    BY <2>2, <2>3
<1>6. DisplayTypes'
  BY <1>1, <1>3, <1>5, CacheKept DEF ShowInv, DisplayTypes
<1>7. RowsInv'
  <2>1. RowsInv
    BY DEF ShowInv
  <2>2. \A s \in Entries : s < i
    BY <1>1, DisplayAssumption DEF Entries
  <2>3. QED
    BY <1>1, <1>2, <2>1, <2>2 DEF RowsInv
<1>8. HeaderInv'
  BY <1>1, <1>2 DEF ShowInv, HeaderInv
<1>9. TopInv'
  <2>1. TopRows' = TopRows
    BY <1>1 DEF TopRows, Ahead
  <2>2. QED
    BY <1>1, <1>5, <2>1 DEF TopInv
<1>10. QED
  BY <1>6, <1>7, <1>8, <1>9, CacheKept DEF ShowInv

LEMMA ShowStep ==
    ASSUME NetInv, ShowInv, [Next]_vars
    PROVE  ShowInv'
<1>1. CASE Server \/ Connect \/ Disconnect \/ Restart \/ Quit \/ UNCHANGED vars
  <2>1. UNCHANGED <<client, display>>
    BY <1>1 DEF Server, Connect, Disconnect, Restart, Quit, vars
  <2>2. showVars' = showVars
    BY <2>1 DEF client, showVars
  <2>3. QED
    BY <2>2, QuietShow
<1>2. CASE Parse
  BY <1>2, ParseShow, UpdatedShow, CountShow DEF Parse
<1>3. CASE Render
  <2>1. Header \/ LoadCount \/ Snapshot \/ SnapshotLeftEarly \/ Draw
    BY <1>3 DEF Render, RenderThread
  <2>2. QED
    BY <1>3, <2>1, HeaderShow, LoadCountShow, SnapshotShow, SnapshotLeftEarlyShow, DrawShow
<1>4. QED
  BY <1>1, <1>2, <1>3 DEF Next

LEMMA ZeroPriced == ZeroState \in MarketState /\ PricedState(ZeroState)
                    /\ ZeroState["update_count"] = 0
<1>1. ZeroState \in MarketState
  BY DEF ZeroState, MarketState
<1>2. ZeroState["update_count"] = 0 /\ ZeroState["best_bid"] = 0
  BY DEF ZeroState, Fields
<1>3. QED
  BY <1>1, <1>2 DEF PricedState

LEMMA ShowStart == ASSUME Init PROVE ShowInv
<1>1. /\ cache = [s \in Entries |-> ZeroState] /\ update = <<>> /\ total_messages = 0
      /\ vpc = "top" /\ i = 0 /\ header = 0 /\ rows = NoRows /\ top = {} /\ opened = {}
      /\ torn = FALSE /\ before = [s \in Entries |-> 0] /\ ppc = "loop" /\ foreign = 0
  BY DEF Init, DisplayInit
<1>2. DOMAIN rows = {}
  BY <1>1 DEF NoRows
<1>3. \A s \in Entries : /\ cache[s] \in MarketState /\ PricedState(cache[s])
                         /\ cache[s]["update_count"] = 0 /\ before[s] = 0
  BY <1>1, ZeroPriced
<1>4. DisplayTypes
  <2>1. cache \in [Entries -> MarketState] /\ before \in [Entries -> Nat]
    BY <1>1, ZeroPriced
  <2>2. 0 \in 0 .. NumEntries
    BY DisplayAssumption
  <2>3. QED
    BY <1>1, <1>2, <2>1, <2>2 DEF DisplayTypes
<1>5. CacheInv
  BY <1>1, <1>3 DEF CacheInv
<1>6. SumOn(Counts, Entries) = 0 /\ SumOn(before, Entries) = 0
  <2>1. \A s \in Entries : Counts[s] = 0 /\ before[s] = 0
    BY <1>3 DEF Counts
  <2>2. QED
    BY <2>1, EntriesFinite, SumZero
<1>7. CountInv /\ HeaderInv
  BY <1>1, <1>6 DEF CountInv, HeaderInv
<1>8. RowsInv
  BY <1>1, <1>2, <1>3 DEF RowsInv
<1>9. TopInv
  <2>1. Cardinality({}) = 0 /\ TOP_N_SYMBOLS \in Nat \ {0}
    BY FS_EmptySet, DisplayAssumption
  <2>2. {} \in TopRows
    BY <1>2, <2>1 DEF TopRows
  <2>3. QED
    BY <1>1, <2>2 DEF TopInv
<1>10. QED
  BY <1>1, <1>4, <1>5, <1>7, <1>8, <1>9 DEF ShowInv

-----------------------------------------------------------------------------
(***************************************************************************)
(* The theorems.                                                           *)
(***************************************************************************)

LEMMA Start == Init => IInv
<1>1. Init => faults \in 0 .. MaxFaults
  BY FaultAssumption DEF Init
<1>2. QED
  BY <1>1, NetStart, ShowStart DEF IInv

LEMMA FaultsBounded ==
    ASSUME faults \in 0 .. MaxFaults, [Next]_vars
    PROVE  faults' \in 0 .. MaxFaults
<1>1. CASE Disconnect \/ Restart
  BY <1>1, FaultAssumption DEF Disconnect, Restart
<1>2. CASE ~(Disconnect \/ Restart)
  <2>1. faults' = faults
    BY <1>2 DEF Next, Server, Connect, Parse, ParseMessage, Updated, CountMessage, Render, Quit,
                vars
  <2>2. QED
    BY <2>1
<1>3. QED
  BY <1>1, <1>2

LEMMA Step == IInv /\ [Next]_vars => IInv'
BY NetStep, ShowStep, FaultsBounded DEF IInv

\* The invariant of the composition: the numbers on their way agree with what
\* the client expects and the server uses next, every counted message is in the
\* cache, and the rows collected lie between the beginning of the frame and now.
THEOREM PipelineInvariant == Spec => []IInv
BY Start, Step, PTL DEF Spec

LEMMA FullTypes == IInv => TypeOK
<1>1. SUFFICES ASSUME IInv PROVE TypeOK
  OBVIOUS
<1>2. (ppc = "update") = (update # <<>>)
  <2>1. CASE ppc = "update"
    <3>1. update \in Entries \X MarketState
      BY <1>1, <2>1 DEF IInv, ShowInv, CacheInv
    <3>2. update # <<>>
      BY <3>1
    <3>3. QED
      BY <2>1, <3>2, Zenon
  <2>2. CASE ppc # "update"
    <3>1. update = <<>>
      BY <1>1, <2>2 DEF IInv, ShowInv, CacheInv
    <3>2. QED
      BY <2>2, <3>1, Zenon
  <2>3. QED
    BY <2>1, <2>2
<1>3. QED
  BY <1>1, <1>2 DEF IInv, NetInv, ShowInv, TypeOK

\* Every variable keeps its type.
THEOREM TypeCorrect == Spec => []TypeOK
BY PipelineInvariant, FullTypes, PTL

\* In a frame that is drawn whole, header and rows agree: no message is counted
\* in the header whose update the rows miss.
THEOREM HeaderIsNotAhead == Spec => []HeaderNotAhead
<1>1. ASSUME IInv, WholeFrame
      PROVE  header <= foreign + SumOn(RowCounts, DOMAIN rows)
  <2>1. /\ vpc = "top" /\ ~torn /\ RowsInv /\ HeaderInv /\ foreign \in Nat /\ header \in Nat
        /\ DOMAIN rows \in SUBSET Entries /\ \A s \in DOMAIN rows : rows[s] \in MarketState
    BY <1>1 DEF IInv, ShowInv, DisplayTypes, WholeFrame
  <2>2. \A s \in DOMAIN rows : rows[s]["update_count"] \in Nat
    BY <2>1 DEF MarketState, Fields
  <2>3. \A s \in Entries : before[s] \in Nat
    BY <1>1, CountsAreNumbers DEF IInv
  <2>4. PICK g : g = [s \in Entries |->
                        IF s \in DOMAIN rows THEN rows[s]["update_count"] ELSE 0]
    OBVIOUS
  <2>5. \A s \in Entries : g[s] \in Nat /\ before[s] \in Nat /\ before[s] <= g[s]
    <3>1. TAKE s \in Entries
    <3>2. CASE s \in DOMAIN rows
      BY <2>1, <2>2, <2>3, <2>4, <3>2 DEF RowsInv
    <3>3. CASE s \notin DOMAIN rows
      <4>1. before[s] = 0 /\ g[s] = 0
        BY <2>1, <2>4, <3>3 DEF RowsInv
      <4>2. QED
        BY <4>1
    <3>4. QED
      BY <3>2, <3>3
  <2>6. SumOn(before, Entries) <= SumOn(g, Entries)
    BY <2>5, EntriesFinite, SumMonotone
  <2>7. SumOn(g, Entries) = SumOn(g, DOMAIN rows)
    <3>1. \A s \in Entries \ DOMAIN rows : g[s] = 0
      BY <2>4
    <3>2. QED
      BY <2>1, <2>5, <3>1, EntriesFinite, SumSupport
  <2>8. SumOn(g, DOMAIN rows) = SumOn(RowCounts, DOMAIN rows)
    <3>1. IsFiniteSet(DOMAIN rows)
      BY <2>1, EntriesFinite, FS_Subset
    <3>2. \A s \in DOMAIN rows : g[s] \in Nat /\ g[s] = RowCounts[s]
      BY <2>1, <2>2, <2>4 DEF RowCounts
    <3>3. QED
      BY <3>1, <3>2, SumEqual
  <2>9. SumOn(before, Entries) \in Nat /\ SumOn(g, Entries) \in Nat
    BY <2>5, EntriesFinite, SumNat
  <2>10. header <= foreign + SumOn(before, Entries)
    BY <2>1 DEF HeaderInv
  <2>11. header <= foreign + SumOn(g, Entries)
    BY <2>1, <2>6, <2>9, <2>10
  <2>12. QED
    BY <2>7, <2>8, <2>11
<1>2. IInv => HeaderNotAhead
  BY <1>1, Zenon DEF HeaderNotAhead, SumOn
<1>3. QED
  BY PipelineInvariant, <1>2, PTL

\* The rows cut from a frame drawn whole are not the busy ones.
THEOREM TopSymbolsAreShown == Spec => []TopSymbolsShown
<1>1. ASSUME IInv, WholeFrame, NEW t \in Entries \ top, before[t] # 0
      PROVE  /\ Cardinality(top) = TOP_N_SYMBOLS
             /\ \A s \in top : before[t] <= cache[s]["update_count"]
  <2>1. /\ vpc = "top" /\ ~torn /\ RowsInv /\ top \in TopRows
        /\ \A s \in DOMAIN rows : rows[s] \in MarketState /\ s \in Entries
    BY <1>1 DEF IInv, ShowInv, DisplayTypes, WholeFrame, TopInv
  <2>2. t \in DOMAIN rows
    BY <1>1, <2>1 DEF RowsInv
  <2>3. /\ Cardinality(top) = TOP_N_SYMBOLS /\ top \in SUBSET DOMAIN rows
        /\ \A s \in top : Ahead(s, t)
    BY <1>1, <2>1, <2>2 DEF TopRows
  <2>4. \A s \in DOMAIN rows : /\ rows[s]["update_count"] \in Nat
                               /\ cache[s]["update_count"] \in Nat /\ before[s] \in Nat
    <3>1. \A s \in Entries : cache[s]["update_count"] \in Nat /\ before[s] \in Nat
      BY <1>1, CountsAreNumbers DEF IInv
    <3>2. QED
      BY <2>1, <3>1 DEF MarketState, Fields
  <2>5. ASSUME NEW s \in top PROVE before[t] <= cache[s]["update_count"]
    <3>1. s \in DOMAIN rows /\ rows[s]["update_count"] >= rows[t]["update_count"]
      BY <2>3 DEF Ahead
    <3>2. /\ before[t] <= rows[t]["update_count"]
          /\ rows[s]["update_count"] <= cache[s]["update_count"]
      BY <2>1, <2>2, <3>1 DEF RowsInv
    <3>3. QED
      BY <2>2, <2>4, <3>1, <3>2
  <2>6. QED
    BY <2>3, <2>5
<1>2. IInv => TopSymbolsShown
  BY <1>1 DEF TopSymbolsShown
<1>3. QED
  BY PipelineInvariant, <1>2, PTL

\* Every row of a frame drawn whole has a price and a reference price, and its
\* bid is below its ask.
THEOREM RowsArePriced == Spec => []RowsPriced
<1>1. ASSUME IInv, WholeFrame, NEW s \in top
      PROVE  /\ s \in opened
             /\ rows[s]["last_traded_price"] > 0 \/ rows[s]["best_bid"] > 0
             /\ rows[s]["best_bid"] > 0 => rows[s]["best_bid"] < rows[s]["best_ask"]
  <2>1. vpc = "top" /\ ~torn /\ RowsInv /\ top \subseteq opened /\ s \in DOMAIN rows
    BY <1>1 DEF IInv, ShowInv, DisplayTypes, WholeFrame, TopInv
  <2>2. PricedState(rows[s]) /\ rows[s]["update_count"] > 0
    BY <2>1 DEF RowsInv
  <2>3. QED
    BY <2>1, <2>2 DEF PricedState
<1>2. IInv => RowsPriced
  BY <1>1 DEF RowsPriced
<1>3. QED
  BY PipelineInvariant, <1>2, PTL
=============================================================================
