------------------------- MODULE SymbolCacheProofs -------------------------
(***************************************************************************)
(* Proofs about SymbolCache, for every set of readers, symbols and prices  *)
(* and every bound on the updates.                                         *)
(***************************************************************************)
EXTENDS SymbolCache, TLAPS

-----------------------------------------------------------------------------
(***************************************************************************)
(* Facts about the operators.                                              *)
(***************************************************************************)

\* The initial MarketState is one.
LEMMA ZeroStateType == ZeroState \in MarketState
BY DEF ZeroState, MarketState

\* The states update_quote and update_trade compute are MarketStates that agree
\* with the old one outside the fields the update stores.
LEMMA AfterQuoteType ==
    ASSUME NEW st \in MarketState, NEW bid \in Nat, NEW ask \in Nat
    PROVE  /\ AfterQuote(st, bid, ask) \in MarketState
           /\ QuoteFields(st) \in SUBSET Fields
           /\ \A f \in Fields \ QuoteFields(st) : AfterQuote(st, bid, ask)[f] = st[f]
<1>1. QuoteFields(st) \in SUBSET Fields
  BY DEF QuoteFields, Fields
<1>2. AfterQuote(st, bid, ask) \in MarketState
  BY DEF AfterQuote, MarketState, Fields
<1>3. \A f \in Fields \ QuoteFields(st) : AfterQuote(st, bid, ask)[f] = st[f]
  BY DEF AfterQuote, QuoteFields, MarketState, Fields
<1>4. QED
  BY <1>1, <1>2, <1>3

LEMMA AfterTradeType ==
    ASSUME NEW st \in MarketState, NEW price \in Nat
    PROVE  /\ AfterTrade(st, price) \in MarketState
           /\ TradeFields(st) \in SUBSET Fields
           /\ \A f \in Fields \ TradeFields(st) : AfterTrade(st, price)[f] = st[f]
<1>1. TradeFields(st) \in SUBSET Fields
  BY DEF TradeFields, Fields
<1>2. AfterTrade(st, price) \in MarketState
  BY DEF AfterTrade, MarketState, Fields
<1>3. \A f \in Fields \ TradeFields(st) : AfterTrade(st, price)[f] = st[f]
  BY DEF AfterTrade, TradeFields, MarketState, Fields
<1>4. QED
  BY <1>1, <1>2, <1>3

\* Incrementing the counter stays within the width of seq.
LEMMA NextSeqType == ASSUME NEW n \in Seqs PROVE NextSeq(n) \in Seqs
BY SeqAssumption DEF NextSeq, Seqs

\* Doubling is even, and its successor odd.
LEMMA Parity ==
    ASSUME NEW n \in Nat
    PROVE  ~Odd(2 * n) /\ Odd(2 * n + 1)
BY DEF Odd

-----------------------------------------------------------------------------
(***************************************************************************)
(* Type correctness.                                                       *)
(***************************************************************************)

LEMMA TypeInit == Init => TypeOK /\ RoomLeft
<1> SUFFICES ASSUME Init PROVE TypeOK /\ RoomLeft
  OBVIOUS
<1>1. 0 \in Seqs /\ 0 \in 0 .. MaxUpdates
  BY SeqAssumption, UpdatesAssumption DEF Seqs
<1>2. QED
  BY <1>1, ZeroStateType DEF Init, TypeOK, RoomLeft

\* Every way to begin an update keeps the types.
LEMMA UpdateType ==
    ASSUME TypeOK, RoomLeft, NEW s \in Entries, NEW new \in MarketState,
           NEW todo \in SUBSET Fields, Update(s, new, todo)
    PROVE  TypeOK' /\ RoomLeft'
<1>1. s \in SymbolIds
  BY DEF Entries
<1>2. QED
  BY <1>1 DEF TypeOK, RoomLeft, Update, rvars

LEMMA TypeStep == TypeOK /\ RoomLeft /\ [Next]_vars => TypeOK' /\ RoomLeft'
<1> SUFFICES ASSUME TypeOK, RoomLeft, [Next]_vars PROVE TypeOK' /\ RoomLeft'
  OBVIOUS
<1>1. CASE UpdateQuote
  <2>1. PICK s \in Entries, q \in Quotes :
          Update(s, AfterQuote(state[s], q.bid, q.ask), QuoteFields(state[s]))
    BY <1>1 DEF UpdateQuote
  <2>2. state[s] \in MarketState /\ q.bid \in Nat /\ q.ask \in Nat
    BY PricesAssumption DEF TypeOK
  <2>3. QED
    BY <2>1, <2>2, AfterQuoteType, UpdateType
<1>2. CASE UpdateTrade
  <2>1. PICK s \in Entries, price \in TradePrices :
          Update(s, AfterTrade(state[s], price), TradeFields(state[s]))
    BY <1>2 DEF UpdateTrade
  <2>2. state[s] \in MarketState /\ price \in Nat
    BY PricesAssumption DEF TypeOK
  <2>3. QED
    BY <2>1, <2>2, AfterTradeType, UpdateType
<1>3. CASE SeqlockWriteBegin
  BY <1>3, NextSeqType DEF TypeOK, RoomLeft, SeqlockWriteBegin, rvars
<1>4. CASE StoreField
  BY <1>4 DEF TypeOK, RoomLeft, StoreField, rvars, MarketState
<1>5. CASE SeqlockWriteEnd
  <2>1. completed[wsym] + 1 \in 0 .. MaxUpdates
    BY <1>5, UpdatesAssumption DEF TypeOK, RoomLeft, SeqlockWriteEnd
  <2>2. QED
    BY <1>5, <2>1, NextSeqType DEF TypeOK, RoomLeft, SeqlockWriteEnd, rvars
<1>6. ASSUME NEW r \in Readers, GetSnapshot(r) PROVE TypeOK' /\ RoomLeft'
  <2>1. Entries \subseteq SymbolIds
    BY DEF Entries
  <2>2. QED
    BY <1>6, <2>1, ZeroStateType, SMTT(30) DEF TypeOK, RoomLeft, GetSnapshot, wvars
<1>7. ASSUME NEW r \in Readers, LoadSeq1(r) PROVE TypeOK' /\ RoomLeft'
  <2>1. rsym[r] \in Entries /\ seq[rsym[r]] \in Seqs
    BY <1>7 DEF TypeOK, LoadSeq1
  <2>2. seq1' \in [Readers -> Seqs]
    BY <1>7, <2>1 DEF TypeOK, LoadSeq1
  <2>3. PICK p \in {"test", "copy"} : rpc' = [rpc EXCEPT ![r] = p]
    BY <1>7 DEF LoadSeq1
  <2>4. /\ rpc' \in [Readers -> {"idle", "seq1", "copy", "test", "done"}]
        /\ \A q \in Readers : rpc'[q] # "idle" => rsym[q] \in Entries
    BY <2>1, <2>3 DEF TypeOK
  <2>5. rtodo' \in [Readers -> SUBSET Fields]
    BY <1>7 DEF TypeOK, LoadSeq1
  <2>6. UNCHANGED <<seq, state, wvars, rsym, seq2, snap, since, completed, hist>>
    BY <1>7 DEF LoadSeq1
  <2>7. QED
    BY <2>2, <2>4, <2>5, <2>6 DEF TypeOK, RoomLeft, wvars
<1>8. ASSUME NEW r \in Readers, CopyField(r) PROVE TypeOK' /\ RoomLeft'
  BY <1>8, SMTT(30) DEF TypeOK, RoomLeft, CopyField, wvars, MarketState
<1>9. ASSUME NEW r \in Readers, LoadSeq2(r) PROVE TypeOK' /\ RoomLeft'
  BY <1>9 DEF TypeOK, RoomLeft, LoadSeq2, wvars
<1>10. ASSUME NEW r \in Readers, TestSeq(r) PROVE TypeOK' /\ RoomLeft'
  BY <1>10 DEF TypeOK, RoomLeft, TestSeq, wvars
<1>11. ASSUME NEW r \in Readers, Return(r) PROVE TypeOK' /\ RoomLeft'
  <2>1. 0 \in Seqs /\ 0 \in 0 .. MaxUpdates
    BY SeqAssumption, UpdatesAssumption DEF Seqs
  <2>2. QED
    BY <1>11, <2>1, ZeroStateType DEF TypeOK, RoomLeft, Return, wvars
<1>12. CASE UNCHANGED vars
  BY <1>12 DEF TypeOK, RoomLeft, vars, wvars, rvars
<1>13. QED
  BY <1>1, <1>2, <1>3, <1>4, <1>5, <1>6, <1>7, <1>8, <1>9, <1>10, <1>11, <1>12
  DEF Next, WriterStep, ReaderStep

\* Every variable of the cache keeps its type: in particular the writer never
\* works on an entry outside the array and seq never leaves its width.
THEOREM TypeCorrect == Spec => []TypeOK
<1>1. TypeOK /\ RoomLeft => TypeOK
  OBVIOUS
<1>2. QED
  BY TypeInit, TypeStep, <1>1, PTL DEF Spec

-----------------------------------------------------------------------------
(***************************************************************************)
(* Atomicity of snapshots.                                                 *)
(***************************************************************************)

LEMMA InvInit == Init => IInv
<1> SUFFICES ASSUME Init PROVE IInv
  OBVIOUS
<1>1. TypeOK /\ RoomLeft
  BY TypeInit
<1>2. SeqCounts
  BY DEF Init, SeqCounts
<1>3. MemoryState
  BY UpdatesAssumption DEF Init, MemoryState
<1>4. WriterPlan
  BY DEF Init, WriterPlan
<1>5. \A r \in Readers : ReaderInv(r)
  BY DEF Init, ReaderInv
<1>6. QED
  BY <1>1, <1>2, <1>3, <1>4, <1>5 DEF IInv

\* A reader's part of the invariant survives a step that leaves it, the
\* counters and the history alone.
LEMMA ReaderFrame ==
    ASSUME IInv, NEW r \in Readers,
           UNCHANGED <<seq, completed, hist>>,
           UNCHANGED <<rpc[r], rsym[r], seq1[r], seq2[r], rtodo[r], snap[r], since[r]>>
    PROVE  ReaderInv(r)'
BY DEF IInv, ReaderInv, CopyAgrees, CopyExact

\* Beginning an update.
LEMMA UpdateInv ==
    ASSUME IInv, NEW s \in Entries, NEW new \in MarketState,
           NEW todo \in SUBSET Fields,
           \A f \in Fields \ todo : new[f] = state[s][f],
           Update(s, new, todo)
    PROVE  IInv'
<1>1. TypeOK' /\ RoomLeft'
  BY UpdateType DEF IInv
<1>2. SeqCounts'
  BY DEF IInv, SeqCounts, Update
<1>3. MemoryState'
  BY DEF IInv, MemoryState, Update
<1>4. WriterPlan'
  BY DEF IInv, MemoryState, WriterPlan, Update, TypeOK
<1>5. \A r \in Readers : ReaderInv(r)'
  BY ReaderFrame DEF Update, rvars
<1>6. QED
  BY <1>1, <1>2, <1>3, <1>4, <1>5 DEF IInv

\* The odd store: no reader's even value of the counter is current any more.
LEMMA WriteBeginInv ==
    ASSUME IInv, TypeOK', RoomLeft', SeqlockWriteBegin
    PROVE  IInv'
<1> USE DEF SeqlockWriteBegin
<1>1. wsym \in Entries /\ seq[wsym] = 2 * completed[wsym] /\ completed[wsym] \in Nat
  BY UpdatesAssumption DEF IInv, SeqCounts, TypeOK
<1>2. seq' = [seq EXCEPT ![wsym] = 2 * completed[wsym] + 1]
  <2>1. NextSeq(seq[wsym]) = 2 * completed[wsym] + 1
    BY <1>1, SeqAssumption, UpdatesAssumption DEF IInv, RoomLeft, NextSeq
  <2>2. QED
    BY <2>1
<1>3. SeqCounts'
  BY <1>1, <1>2 DEF IInv, SeqCounts, TypeOK
<1>4. MemoryState'
  BY DEF IInv, MemoryState
<1>5. WriterPlan'
  BY DEF IInv, WriterPlan
<1>6. ASSUME NEW r \in Readers PROVE ReaderInv(r)'
  <2>1. CASE rpc[r] = "copy" /\ rsym[r] = wsym
    <3>1. seq1[r] # seq'[rsym[r]] /\ seq1[r] <= seq'[rsym[r]]
      BY <1>1, <1>2, <2>1, Parity DEF IInv, ReaderInv, CopyAgrees, TypeOK, Seqs
    <3>2. QED
      BY <2>1, <3>1 DEF IInv, ReaderInv, CopyAgrees, rvars
  <2>2. CASE ~(rpc[r] = "copy" /\ rsym[r] = wsym)
    BY <1>2, <2>2 DEF IInv, ReaderInv, CopyAgrees, CopyExact, rvars, TypeOK
  <2>3. QED
    BY <2>1, <2>2
<1>7. QED
  BY <1>3, <1>4, <1>5, <1>6 DEF IInv

\* A field store happens while the counter is odd, and touches no reader.
LEMMA StoreFieldInv ==
    ASSUME IInv, TypeOK', RoomLeft', StoreField
    PROVE  IInv'
<1> USE DEF StoreField
<1>1. SeqCounts'
  BY DEF IInv, SeqCounts
<1>2. MemoryState'
  BY SMTT(30) DEF IInv, MemoryState, TypeOK, MarketState
<1>3. WriterPlan'
  BY DEF IInv, WriterPlan
<1>4. \A r \in Readers : ReaderInv(r)'
  BY ReaderFrame DEF rvars
<1>5. QED
  BY <1>1, <1>2, <1>3, <1>4 DEF IInv

\* The even store completes the update: history gains one state, and the
\* counter passes every value a reader may hold.
LEMMA WriteEndInv ==
    ASSUME IInv, TypeOK', RoomLeft', SeqlockWriteEnd
    PROVE  IInv'
<1> USE DEF SeqlockWriteEnd
<1>1. /\ wsym \in Entries /\ completed[wsym] \in Nat
      /\ completed[wsym] < MaxUpdates /\ completed[wsym] + 1 \in 0 .. MaxUpdates
      /\ seq[wsym] = 2 * completed[wsym] + 1
  BY UpdatesAssumption DEF IInv, SeqCounts, TypeOK, RoomLeft
<1>2. seq' = [seq EXCEPT ![wsym] = 2 * (completed[wsym] + 1)]
  <2>1. NextSeq(seq[wsym]) = 2 * (completed[wsym] + 1)
    BY <1>1, SeqAssumption, UpdatesAssumption DEF NextSeq
  <2>2. QED
    BY <2>1
<1>3. \A s \in Entries, n \in 0 .. MaxUpdates :
        n <= completed[s] => hist'[s][n] = hist[s][n]
  <2> SUFFICES ASSUME NEW s \in Entries, NEW n \in 0 .. MaxUpdates, n <= completed[s]
               PROVE  hist'[s][n] = hist[s][n]
    OBVIOUS
  <2>1. CASE s = wsym
    <3>1. n # completed[wsym] + 1
      BY <1>1, <2>1, UpdatesAssumption
    <3>2. QED
      BY <1>1, <2>1, <3>1 DEF IInv, TypeOK
  <2>2. CASE s # wsym
    BY <2>2 DEF IInv, TypeOK
  <2>3. QED
    BY <2>1, <2>2
<1>4. SeqCounts'
  BY <1>1, <1>2 DEF IInv, SeqCounts, TypeOK
<1>5. MemoryState'
  <2>1. hist'[wsym][completed'[wsym]] = state[wsym]
    BY <1>1 DEF IInv, TypeOK
  <2>2. QED
    BY <2>1 DEF IInv, MemoryState, TypeOK
<1>6. WriterPlan'
  BY DEF WriterPlan
<1>7. ASSUME NEW r \in Readers PROVE ReaderInv(r)'
  <2>1. rpc[r] = "idle" \/ rsym[r] \in Entries
    BY DEF IInv, TypeOK
  <2>2. rsym[r] \in Entries =>
          completed[rsym[r]] \in 0 .. MaxUpdates /\ completed'[rsym[r]] \in 0 .. MaxUpdates
          /\ completed[rsym[r]] <= completed'[rsym[r]]
    BY <1>1 DEF IInv, TypeOK
  <2>3. rsym[r] \in Entries /\ CopyExact(r) => CopyExact(r)'
    BY <1>3, <2>2, UpdatesAssumption DEF CopyExact, rvars
  <2>4. rsym[r] \in Entries /\ CopyAgrees(r) => CopyAgrees(r)'
    BY <1>1, <1>2, SMTT(30) DEF IInv, CopyAgrees, rvars, TypeOK, Seqs
  <2>5. QED
    BY <2>1, <2>2, <2>3, <2>4, UpdatesAssumption
    DEF IInv, ReaderInv, rvars, TypeOK
<1>8. QED
  BY <1>4, <1>5, <1>6, <1>7 DEF IInv

\* The part of the invariant about memory and the writer, and what every
\* reader step leaves alone.
LEMMA ReaderStepFrame ==
    ASSUME IInv, UNCHANGED <<seq, state, wvars, completed, hist>>
    PROVE  SeqCounts' /\ MemoryState' /\ WriterPlan'
BY DEF IInv, SeqCounts, MemoryState, WriterPlan, wvars

\* Each step of reader q.
LEMMA ReaderStepInv ==
    ASSUME IInv, TypeOK', RoomLeft', NEW q \in Readers,
           GetSnapshot(q) \/ ReaderStep(q)
    PROVE  IInv'
<1>1. UNCHANGED <<seq, state, wvars, completed, hist>>
  BY DEF GetSnapshot, ReaderStep, LoadSeq1, CopyField, LoadSeq2,
         TestSeq, Return
<1>2. SeqCounts' /\ MemoryState' /\ WriterPlan'
  BY <1>1, ReaderStepFrame
<1>3. ASSUME NEW r \in Readers, r # q PROVE ReaderInv(r)'
  <2>1. UNCHANGED <<rpc[r], rsym[r], seq1[r], seq2[r], rtodo[r], snap[r], since[r]>>
    BY <1>3 DEF IInv, TypeOK, GetSnapshot, ReaderStep, LoadSeq1,
       CopyField, LoadSeq2, TestSeq, Return, rvars
  <2>2. QED
    BY <1>1, <2>1, ReaderFrame
<1>4. ReaderInv(q)'
  <2>2. CASE GetSnapshot(q)
    <3>1. PICK s \in Entries : /\ rsym' = [rsym EXCEPT ![q] = s]
                               /\ since' = [since EXCEPT ![q] = completed[s]]
      BY <2>2 DEF GetSnapshot
    <3>2. /\ rpc'[q] = "seq1" /\ rtodo'[q] = {}
          /\ rsym'[q] = s /\ since'[q] = completed[s] /\ completed'[s] = completed[s]
      <4>1. /\ q \in DOMAIN rpc /\ q \in DOMAIN rsym /\ q \in DOMAIN since
            /\ rpc[q] = "idle" /\ rpc' = [rpc EXCEPT ![q] = "seq1"]
            /\ UNCHANGED <<rtodo, completed>>
        BY <2>2 DEF IInv, TypeOK, GetSnapshot
      <4>2. rtodo[q] = {}
        BY <4>1 DEF IInv, ReaderInv
      <4>3. QED
        BY <3>1, <4>1, <4>2
    <3>3. completed[s] <= completed[s]
      BY UpdatesAssumption DEF IInv, TypeOK
    <3>4. QED
      BY <3>2, <3>3 DEF ReaderInv
  <2>3. CASE LoadSeq1(q)
    <3>1. /\ rsym[q] \in Entries /\ completed[rsym[q]] \in Nat /\ since[q] \in Nat
          /\ since[q] <= completed[rsym[q]]
      BY <2>3, UpdatesAssumption DEF IInv, TypeOK, ReaderInv, LoadSeq1
    <3>2. CASE Odd(seq[rsym[q]])
      BY <2>3, <3>1, <3>2 DEF IInv, TypeOK, ReaderInv, LoadSeq1
    <3>3. CASE ~Odd(seq[rsym[q]])
      <4>1. seq[rsym[q]] = 2 * completed[rsym[q]]
        BY <3>1, <3>3, Parity DEF IInv, SeqCounts
      <4>2. rtodo'[q] = Fields /\ seq1'[q] = seq[rsym[q]] /\ rpc'[q] = "copy"
        BY <2>3, <3>3 DEF IInv, TypeOK, LoadSeq1
      <4>3. CopyAgrees(q)'
        BY <2>3, <3>1, <4>1, <4>2 DEF CopyAgrees, LoadSeq1
      <4>4. QED
        BY <3>3, <4>2, <4>3 DEF ReaderInv
    <3>4. QED
      BY <3>2, <3>3
  <2>4. CASE CopyField(q)
    <3>1. rpc[q] = "copy" /\ rsym[q] \in Entries /\ ~Odd(seq1[q]) /\ CopyAgrees(q)
      BY <2>4 DEF IInv, TypeOK, ReaderInv, CopyField
    <3>2. seq[rsym[q]] = seq1[q] => ~(wpc = "store" /\ wsym = rsym[q])
      BY <3>1, Parity, UpdatesAssumption DEF IInv, SeqCounts, TypeOK
    <3>3. seq[rsym[q]] = seq1[q] =>
            \A f \in Fields : state[rsym[q]][f] = hist[rsym[q]][completed[rsym[q]]][f]
      BY <3>1, <3>2 DEF IInv, MemoryState, WriterPlan, TypeOK
    <3>4. CopyAgrees(q)'
      BY <2>4, <3>1, <3>3, SMTT(30) DEF IInv, TypeOK, MarketState, CopyAgrees, CopyField
    <3>5. QED
      BY <2>4, <3>1, <3>4 DEF ReaderInv, CopyField
  <2>5. CASE LoadSeq2(q)
    <3>1. /\ rpc[q] = "copy" /\ rsym[q] \in Entries /\ ~Odd(seq1[q]) /\ CopyAgrees(q)
          /\ rtodo[q] = {} /\ completed[rsym[q]] \in Nat /\ since[q] \in Nat
      BY <2>5, UpdatesAssumption DEF IInv, TypeOK, ReaderInv, LoadSeq2
    <3>2. since[q] <= completed[rsym[q]]
      BY <3>1 DEF IInv, SeqCounts, CopyAgrees, TypeOK, Seqs
    <3>3. ASSUME seq[rsym[q]] = seq1[q]
          PROVE  CopyExact(q)
      <4>1. seq1[q] = 2 * completed[rsym[q]]
        BY <3>1, <3>3, Parity DEF IInv, SeqCounts
      <4>2. snap[q] = hist[rsym[q]][completed[rsym[q]]]
        <5>1. /\ snap[q] \in [Fields -> Nat]
              /\ hist[rsym[q]][completed[rsym[q]]] \in [Fields -> Nat]
          <6>1. /\ snap[q] \in MarketState
                /\ hist[rsym[q]][completed[rsym[q]]] \in MarketState
            BY <3>1 DEF IInv, TypeOK
          <6>2. QED
            BY <6>1 DEF MarketState
        <5>2. \A f \in Fields : snap[q][f] = hist[rsym[q]][completed[rsym[q]]][f]
          BY <3>1, <3>3 DEF CopyAgrees
        <5>3. QED
          BY <5>1, <5>2
      <4>3. QED
        BY <3>1, <4>1, <4>2 DEF CopyExact, CopyAgrees
    <3>4. seq2'[q] = seq[rsym[q]] /\ rpc'[q] = "test"
      BY <2>5 DEF IInv, TypeOK, LoadSeq2
    <3>5. CopyExact(q) => CopyExact(q)'
      BY <2>5 DEF CopyExact, LoadSeq2
    <3>6. QED
      BY <2>5, <3>1, <3>2, <3>3, <3>4, <3>5 DEF ReaderInv, LoadSeq2
  <2>6. CASE TestSeq(q)
    <3>1. CopyExact(q) => CopyExact(q)'
      BY <2>6 DEF CopyExact, TestSeq
    <3>2. QED
      BY <2>6, <3>1 DEF IInv, TypeOK, ReaderInv, TestSeq
  <2>7. CASE Return(q)
    BY <2>7 DEF IInv, TypeOK, ReaderInv, Return
  <2>8. QED
    BY <2>2, <2>3, <2>4, <2>5, <2>6, <2>7 DEF ReaderStep
<1>5. QED
  BY <1>2, <1>3, <1>4 DEF IInv

LEMMA InvStep == IInv /\ [Next]_vars => IInv'
<1> SUFFICES ASSUME IInv, [Next]_vars PROVE IInv'
  OBVIOUS
<1>1. TypeOK' /\ RoomLeft'
  BY TypeStep DEF IInv
<1>2. CASE UpdateQuote
  <2>1. PICK s \in Entries, q \in Quotes :
          Update(s, AfterQuote(state[s], q.bid, q.ask), QuoteFields(state[s]))
    BY <1>2 DEF UpdateQuote
  <2>2. state[s] \in MarketState /\ q.bid \in Nat /\ q.ask \in Nat
    BY PricesAssumption DEF IInv, TypeOK
  <2>3. QED
    BY <2>1, <2>2, AfterQuoteType, UpdateInv
<1>3. CASE UpdateTrade
  <2>1. PICK s \in Entries, price \in TradePrices :
          Update(s, AfterTrade(state[s], price), TradeFields(state[s]))
    BY <1>3 DEF UpdateTrade
  <2>2. state[s] \in MarketState /\ price \in Nat
    BY PricesAssumption DEF IInv, TypeOK
  <2>3. QED
    BY <2>1, <2>2, AfterTradeType, UpdateInv
<1>4. CASE SeqlockWriteBegin
  BY <1>1, <1>4, WriteBeginInv
<1>5. CASE StoreField
  BY <1>1, <1>5, StoreFieldInv
<1>6. CASE SeqlockWriteEnd
  BY <1>1, <1>6, WriteEndInv
<1>7. CASE \E r \in Readers : GetSnapshot(r) \/ ReaderStep(r)
  BY <1>1, <1>7, ReaderStepInv
<1>8. CASE UNCHANGED vars
  <2>1. SeqCounts' /\ MemoryState' /\ WriterPlan'
    BY <1>8, ReaderStepFrame DEF vars
  <2>2. \A r \in Readers : ReaderInv(r)'
    BY <1>8, ReaderFrame DEF vars, rvars
  <2>3. QED
    BY <1>1, <2>1, <2>2 DEF IInv
<1>9. QED
  BY <1>2, <1>3, <1>4, <1>5, <1>6, <1>7, <1>8 DEF Next, WriterStep

LEMMA InvImpliesAtomic == IInv => EvenExitAtomic
<1> SUFFICES ASSUME IInv, NEW r \in Readers, rpc[r] = "done", ~Odd(seq1[r])
             PROVE  snap[r] \in StatesSince(rsym[r], since[r])
  BY DEF EvenExitAtomic
<1>1. CopyExact(r)
  BY DEF IInv, ReaderInv
<1>2. PICK n \in 0 .. completed[rsym[r]] :
        seq1[r] = 2 * n /\ snap[r] = hist[rsym[r]][n] /\ 2 * since[r] <= seq1[r]
  BY <1>1 DEF CopyExact
<1>3. rsym[r] \in Entries /\ completed[rsym[r]] \in Nat /\ since[r] \in Nat
  BY UpdatesAssumption DEF IInv, TypeOK
<1>4. n \in since[r] .. completed[rsym[r]]
  BY <1>2, <1>3
<1>5. QED
  BY <1>2, <1>4 DEF StatesSince

\* get_snapshot, whenever it leaves its loop on an even counter, returns one
\* state the entry really had during the call, with any number of readers and
\* any interleaving with the writer, provided field accesses stay between the
\* two accesses of seq and the counter does not wrap around.
THEOREM SnapshotAtomic == Spec => []EvenExitAtomic
<1>1. QED
  BY InvInit, InvStep, InvImpliesAtomic, PTL DEF Spec

\* The invariant of the seqlock: the counter is odd exactly while an update
\* stores its fields, memory holds the last completed state but for the fields
\* stored so far, and what a reader has copied on an even counter is, unless
\* the counter has moved, the state of that moment.
THEOREM SeqlockInvariant == Spec => []IInv
BY InvInit, InvStep, PTL DEF Spec

-----------------------------------------------------------------------------
(***************************************************************************)
(* The opening price.                                                      *)
(***************************************************************************)

\* An update that has open_price to store found it 0, and so does the store.
OpenPlan ==
    wpc # "idle" /\ "open_price" \in wtodo => state[wsym]["open_price"] = 0

LEMMA OpenPlanStep ==
    ASSUME TypeOK, OpenPlan, [Next]_vars
    PROVE  /\ OpenPlan'
           /\ \A s \in Entries : state[s]["open_price"] # 0 =>
                state'[s]["open_price"] = state[s]["open_price"]
<1>1. CASE UpdateQuote
  <2>1. PICK s \in Entries, q \in Quotes :
          Update(s, AfterQuote(state[s], q.bid, q.ask), QuoteFields(state[s]))
    BY <1>1 DEF UpdateQuote
  <2>2. "open_price" \in QuoteFields(state[s]) => state[s]["open_price"] = 0
    BY DEF QuoteFields
  <2>3. QED
    BY <2>1, <2>2 DEF Update, OpenPlan
<1>2. CASE UpdateTrade
  <2>1. PICK s \in Entries, price \in TradePrices :
          Update(s, AfterTrade(state[s], price), TradeFields(state[s]))
    BY <1>2 DEF UpdateTrade
  <2>2. "open_price" \in TradeFields(state[s]) => state[s]["open_price"] = 0
    BY DEF TradeFields
  <2>3. QED
    BY <2>1, <2>2 DEF Update, OpenPlan
<1>3. CASE StoreField
  <2>1. PICK f \in wtodo :
          /\ state' = [state EXCEPT ![wsym] = [@ EXCEPT ![f] = wnew[f]]]
          /\ wtodo' = wtodo \ {f} /\ wpc = "store" /\ UNCHANGED <<wpc, wsym>>
    BY <1>3 DEF StoreField
  <2>2. /\ wsym \in Entries /\ f \in Fields /\ state \in [Entries -> MarketState]
        /\ state[wsym] \in [Fields -> Nat]
    BY <2>1 DEF TypeOK, MarketState
  <2>3. /\ \A s \in Entries : s # wsym => state'[s] = state[s]
        /\ \A g \in Fields : g # f => state'[wsym][g] = state[wsym][g]
    BY <2>1, <2>2
  <2>4. "open_price" \in Fields
    BY DEF Fields
  <2>5. CASE f = "open_price"
    <3>1. OpenPlan'
      BY <2>1, <2>5 DEF OpenPlan
    <3>2. state[wsym]["open_price"] = 0
      BY <2>1, <2>5 DEF OpenPlan
    <3>3. QED
      BY <2>3, <3>1, <3>2
  <2>6. CASE f # "open_price"
    <3>1. state'[wsym]["open_price"] = state[wsym]["open_price"]
      BY <2>3, <2>4, <2>6
    <3>2. OpenPlan'
      BY <2>1, <3>1 DEF OpenPlan
    <3>3. QED
      BY <2>3, <3>1, <3>2
  <2>7. QED
    BY <2>5, <2>6
<1>4. CASE SeqlockWriteBegin \/ SeqlockWriteEnd
  BY <1>4 DEF SeqlockWriteBegin, SeqlockWriteEnd, OpenPlan
<1>5. CASE \E r \in Readers : GetSnapshot(r) \/ ReaderStep(r)
  <2>1. UNCHANGED <<state, wvars>>
    BY <1>5 DEF GetSnapshot, ReaderStep, LoadSeq1, CopyField, LoadSeq2, TestSeq, Return
  <2>2. QED
    BY <2>1 DEF wvars, OpenPlan
<1>6. CASE UNCHANGED vars
  BY <1>6 DEF vars, wvars, OpenPlan
<1>7. QED
  BY <1>1, <1>2, <1>3, <1>4, <1>5, <1>6 DEF Next, WriterStep

\* The session's opening price of an entry, once update_quote or update_trade
\* has stored it, is never stored again: the test for 0, made before the odd
\* store, still holds when the field is written.
THEOREM OpeningPriceKept == Spec => OpenPriceFixed
<1>1. Init => OpenPlan
  BY DEF Init, OpenPlan
<1>2. TypeOK /\ OpenPlan /\ [Next]_vars => OpenPlan'
  BY OpenPlanStep
<1>3. TypeOK /\ OpenPlan /\ [Next]_vars
        => [\A s \in Entries : state[s]["open_price"] # 0 =>
              state'[s]["open_price"] = state[s]["open_price"]]_vars
  BY OpenPlanStep
<1>4. QED
  BY <1>1, <1>2, <1>3, TypeCorrect, PTL DEF Spec, OpenPriceFixed
=============================================================================
