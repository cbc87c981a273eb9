---------------------------- MODULE SymbolCache ----------------------------
(***************************************************************************)
(* SymbolCache (include/common/cache.h, src/common/cache.cpp): an array of *)
(* MarketState entries, each guarded by a sequence lock.  One writer, the  *)
(* parse thread, calls update_quote and update_trade; any number of        *)
(* readers call get_snapshot without a lock.  (get_update_count is one     *)
(* plain load and changes nothing.)                                        *)
(*                                                                         *)
(* Every shared access is a step of its own: the two stores of seq, each   *)
(* store of a MarketState field, each load of a field by the reader's      *)
(* struct copy and the two loads of seq.  The struct copy and the plain    *)
(* stores between the two seq stores have no order among themselves, so    *)
(* wtodo and rtodo are sets.  They are taken to stay between the two seq   *)
(* accesses, as x86-64 keeps them; the release store before them and the   *)
(* acquire load after them, which is all the code asks for, would not.     *)
(***************************************************************************)
EXTENDS MarketStates

CONSTANTS
    SymbolIds,    \* the symbol ids callers pass, some of them out of range
    num_symbols,  \* number of entries
    Readers,      \* threads that read snapshots
    Quotes,       \* the [bid, ask] pairs of the quotes the feed delivers
    TradePrices,  \* the prices of the trades it delivers
    MaxUpdates,   \* bound: updates of one entry
    SeqMax        \* largest value of the uint32_t seq, an odd number

ASSUME IdsAssumption     == SymbolIds \subseteq Nat /\ num_symbols \in Nat
ASSUME PricesAssumption  == /\ Quotes \subseteq [bid : Nat \ {0}, ask : Nat \ {0}]
                            /\ TradePrices \subseteq Nat \ {0}
ASSUME UpdatesAssumption == MaxUpdates \in Nat
\* No entry is updated often enough for its counter to wrap around.
ASSUME SeqAssumption     == SeqMax \in Nat /\ 2 * MaxUpdates < SeqMax

\* if (symbol_id >= num_symbols_) return: such a call touches nothing shared.
Entries == {s \in SymbolIds : s < num_symbols}

Seqs == 0 .. SeqMax

VARIABLES
    seq,        \* seq[s], the sequence counter of entry s
    state,      \* state[s], the MarketState in memory
    wpc,        \* writer: "idle", "begin" (odd store next), "store"
    wsym,       \* writer: the entry being updated
    wnew,       \* writer: the value the update is storing
    wtodo,      \* writer: the fields still to be stored
    rpc,        \* reader: "idle", "seq1", "copy", "test", "done"
    rsym,       \* reader: the entry being read
    seq1, seq2, \* reader: the two loads of seq
    rtodo,      \* reader: the fields still to be copied
    snap,       \* reader: its local copy s
    completed,  \* ghost: updates of each entry that have returned
    hist,       \* ghost: hist[s][n], the state after n updates of entry s
    since       \* ghost: completed[rsym] when get_snapshot was called

wvars == <<wpc, wsym, wnew, wtodo>>
rvars == <<rpc, rsym, seq1, seq2, rtodo, snap, since>>
vars  == <<seq, state, wvars, rvars, completed, hist>>

Odd(n) == n % 2 = 1

TypeOK ==
    /\ seq \in [Entries -> Seqs]
    /\ state \in [Entries -> MarketState]
    /\ wpc \in {"idle", "begin", "store"}
    /\ wsym \in SymbolIds
    /\ wpc # "idle" => wsym \in Entries
    /\ wnew \in MarketState
    /\ wtodo \in SUBSET Fields
    /\ rpc \in [Readers -> {"idle", "seq1", "copy", "test", "done"}]
    /\ rsym \in [Readers -> SymbolIds]
    /\ \A r \in Readers : rpc[r] # "idle" => rsym[r] \in Entries
    /\ seq1 \in [Readers -> Seqs]
    /\ seq2 \in [Readers -> Seqs]
    /\ rtodo \in [Readers -> SUBSET Fields]
    /\ snap \in [Readers -> MarketState]
    /\ completed \in [Entries -> 0 .. MaxUpdates]
    /\ hist \in [Entries -> [0 .. MaxUpdates -> MarketState]]
    /\ since \in [Readers -> 0 .. MaxUpdates]

Init ==
    /\ seq = [s \in Entries |-> 0]
    /\ state = [s \in Entries |-> ZeroState]
    /\ wpc = "idle"
    /\ wsym \in SymbolIds
    /\ wnew = ZeroState
    /\ wtodo = {}
    /\ rpc = [r \in Readers |-> "idle"]
    /\ rsym \in [Readers -> SymbolIds]
    /\ seq1 = [r \in Readers |-> 0]
    /\ seq2 = [r \in Readers |-> 0]
    /\ rtodo = [r \in Readers |-> {}]
    /\ snap = [r \in Readers |-> ZeroState]
    /\ completed = [s \in Entries |-> 0]
    /\ hist = [s \in Entries |-> [n \in 0 .. MaxUpdates |-> ZeroState]]
    /\ since = [r \in Readers |-> 0]

-----------------------------------------------------------------------------
(***************************************************************************)
(* The writer.                                                             *)
(***************************************************************************)

\* Unsigned 32-bit increment of the sequence counter.
NextSeq(n) == IF n = SeqMax THEN 0 ELSE n + 1

\* The fields update_quote and update_trade store, given the state they find.
QuoteFields(st) == {"best_bid", "best_ask", "update_count"}
                     \union (IF st["open_price"] = 0 THEN {"open_price"} ELSE {})
TradeFields(st) == {"last_traded_price", "update_count"}
                     \union (IF st["open_price"] = 0 THEN {"open_price"} ELSE {})

Update(s, new, todo) ==
    /\ wpc = "idle"
    /\ completed[s] < MaxUpdates
    /\ wpc' = "begin"
    /\ wsym' = s
    /\ wnew' = new
    /\ wtodo' = todo
    /\ UNCHANGED <<seq, state, rvars, completed, hist>>

UpdateQuote ==
    \E s \in Entries, q \in Quotes :
        Update(s, AfterQuote(state[s], q.bid, q.ask), QuoteFields(state[s]))

UpdateTrade ==
    \E s \in Entries, price \in TradePrices :
        Update(s, AfterTrade(state[s], price), TradeFields(state[s]))

\* Mutant: the dirty mark is not stored, the counter moves only at the end.
SeqlockWriteBeginNoMark ==
    /\ wpc = "begin"
    /\ wpc' = "store"
    /\ UNCHANGED <<seq, state, wsym, wnew, wtodo, rvars, completed, hist>>

SeqlockWriteBegin ==
    /\ wpc = "begin"
    /\ seq' = [seq EXCEPT ![wsym] = NextSeq(@)]
    /\ wpc' = "store"
    /\ UNCHANGED <<state, wsym, wnew, wtodo, rvars, completed, hist>>

\* Mutant: open_price follows every update instead of the first one.
StoreFieldReopen ==
    \E f \in wtodo :
        /\ wpc = "store"
        /\ state' = [state EXCEPT ![wsym] =
                       [@ EXCEPT ![f] = wnew[f], !["open_price"] = 2 * wnew["best_ask"]]]
        /\ wtodo' = wtodo \ {f}
        /\ UNCHANGED <<seq, wpc, wsym, wnew, rvars, completed, hist>>

StoreField ==
    \E f \in wtodo :
        /\ wpc = "store"
        /\ state' = [state EXCEPT ![wsym] = [@ EXCEPT ![f] = wnew[f]]]
        /\ wtodo' = wtodo \ {f}
        /\ UNCHANGED <<seq, wpc, wsym, wnew, rvars, completed, hist>>

\* Mutant: an update that leaves the counter odd.
SeqlockWriteEndLeftOdd ==
    /\ wpc = "store"
    /\ wtodo = {}
    /\ wpc' = "idle"
    /\ completed' = [completed EXCEPT ![wsym] = @ + 1]
    /\ hist' = [hist EXCEPT ![wsym] = [@ EXCEPT ![completed[wsym] + 1] = state[wsym]]]
    /\ UNCHANGED <<seq, state, wsym, wnew, wtodo, rvars>>

SeqlockWriteEnd ==
    /\ wpc = "store"
    /\ wtodo = {}
    /\ seq' = [seq EXCEPT ![wsym] = NextSeq(@)]
    /\ wpc' = "idle"
    /\ completed' = [completed EXCEPT ![wsym] = @ + 1]
    /\ hist' = [hist EXCEPT ![wsym] = [@ EXCEPT ![completed[wsym] + 1] = state[wsym]]]
    /\ UNCHANGED <<state, wsym, wnew, wtodo, rvars>>

-----------------------------------------------------------------------------
(***************************************************************************)
(* A reader.                                                               *)
(***************************************************************************)

\* Entry to get_snapshot: s is value-initialised by its member initialisers,
\* seq2 is not initialised and may hold anything.
GetSnapshot(r) ==
    /\ rpc[r] = "idle"
    /\ \E s \in Entries, garbage \in Seqs :
         /\ rsym' = [rsym EXCEPT ![r] = s]
         /\ seq2' = [seq2 EXCEPT ![r] = garbage]
         /\ since' = [since EXCEPT ![r] = completed[s]]
    /\ snap' = [snap EXCEPT ![r] = ZeroState]
    /\ rpc' = [rpc EXCEPT ![r] = "seq1"]
    /\ UNCHANGED <<seq, state, wvars, seq1, rtodo, completed, hist>>

\* First load of seq.  When it is odd, `continue' jumps to the loop condition,
\* which compares it with whatever seq2 holds.
LoadSeq1(r) ==
    /\ rpc[r] = "seq1"
    /\ seq1' = [seq1 EXCEPT ![r] = seq[rsym[r]]]
    /\ IF Odd(seq[rsym[r]])
         THEN /\ rpc' = [rpc EXCEPT ![r] = "test"]
              /\ UNCHANGED rtodo
         ELSE /\ rpc' = [rpc EXCEPT ![r] = "copy"]
              /\ rtodo' = [rtodo EXCEPT ![r] = Fields]
    /\ UNCHANGED <<seq, state, wvars, rsym, seq2, snap, since, completed, hist>>

CopyField(r) ==
    /\ rpc[r] = "copy"
    /\ \E f \in rtodo[r] :
         /\ snap' = [snap EXCEPT ![r] = [@ EXCEPT ![f] = state[rsym[r]][f]]]
         /\ rtodo' = [rtodo EXCEPT ![r] = @ \ {f}]
    /\ UNCHANGED <<seq, state, wvars, rpc, rsym, seq1, seq2, since, completed, hist>>

LoadSeq2(r) ==
    /\ rpc[r] = "copy"
    /\ rtodo[r] = {}
    /\ seq2' = [seq2 EXCEPT ![r] = seq[rsym[r]]]
    /\ rpc' = [rpc EXCEPT ![r] = "test"]
    /\ UNCHANGED <<seq, state, wvars, rsym, seq1, rtodo, snap, since, completed, hist>>

\* Mutant: the copy is accepted without comparing the two loads.
TestSeqAlwaysAccept(r) ==
    /\ rpc[r] = "test"
    /\ rpc' = [rpc EXCEPT ![r] = IF Odd(seq1[r]) THEN "seq1" ELSE "done"]
    /\ UNCHANGED <<seq, state, wvars, rsym, seq1, seq2, rtodo, snap, since, completed,
                   hist>>

\* while (seq1 != seq2)
TestSeq(r) ==
    /\ rpc[r] = "test"
    /\ rpc' = [rpc EXCEPT ![r] = IF seq1[r] = seq2[r] THEN "done" ELSE "seq1"]
    /\ UNCHANGED <<seq, state, wvars, rsym, seq1, seq2, rtodo, snap, since, completed,
                   hist>>

\* The caller has its copy; the locals of the call go out of scope.
Return(r) ==
    /\ rpc[r] = "done"
    /\ rpc' = [rpc EXCEPT ![r] = "idle"]
    /\ seq1' = [seq1 EXCEPT ![r] = 0]
    /\ seq2' = [seq2 EXCEPT ![r] = 0]
    /\ snap' = [snap EXCEPT ![r] = ZeroState]
    /\ since' = [since EXCEPT ![r] = 0]
    /\ UNCHANGED <<seq, state, wvars, rsym, rtodo, completed, hist>>

-----------------------------------------------------------------------------
WriterStep == SeqlockWriteBegin \/ StoreField \/ SeqlockWriteEnd

ReaderStep(r) ==
    LoadSeq1(r) \/ CopyField(r) \/ LoadSeq2(r) \/ TestSeq(r) \/ Return(r)

Next ==
    \/ UpdateQuote
    \/ UpdateTrade
    \/ WriterStep
    \/ \E r \in Readers : GetSnapshot(r) \/ ReaderStep(r)

Spec == Init /\ [][Next]_vars

\* An update and a snapshot, once begun, are carried on by a running thread.
FairSpec ==
    /\ Spec
    /\ WF_vars(WriterStep)
    /\ \A r \in Readers : WF_vars(ReaderStep(r))

-----------------------------------------------------------------------------
(***************************************************************************)
(* Properties.                                                             *)
(***************************************************************************)

\* The states entry s went through between update lo and the present.
StatesSince(s, lo) == {hist[s][n] : n \in lo .. completed[s]}

\* A snapshot accepted on an even counter (the exit get_snapshot intends) is
\* the whole state of the entry at one moment of the call: never a mixture of
\* two updates, and never older than the last update completed before the call.
EvenExitAtomic ==
    \A r \in Readers :
        rpc[r] = "done" /\ ~Odd(seq1[r]) =>
            snap[r] \in StatesSince(rsym[r], since[r])

\* The session's opening price of an entry, once stored, never changes.
OpenPriceFixed ==
    [][\A s \in Entries : state[s]["open_price"] # 0 =>
          state'[s]["open_price"] = state[s]["open_price"]]_vars

\* A snapshot returns once the writer has stopped updating (updates are finite
\* here): no interleaving leaves the counter odd for good.
SnapshotReturns ==
    \A r \in Readers : rpc[r] # "idle" ~> rpc[r] = "idle"

\* What the documentation promises of every snapshot: "readers never see a
\* partially-written state".  Not true of the exits taken on an odd counter.
SnapshotNeverPartial ==
    \A r \in Readers :
        rpc[r] = "done" => snap[r] \in StatesSince(rsym[r], 0)

-----------------------------------------------------------------------------
(***************************************************************************)
(* The inductive invariant behind EvenExitAtomic.                          *)
(***************************************************************************)

\* The counter is twice the number of completed updates, plus one exactly
\* while the writer is storing fields.
SeqCounts ==
    \A s \in Entries :
        seq[s] = 2 * completed[s] + (IF wpc = "store" /\ wsym = s THEN 1 ELSE 0)

\* Memory holds the last completed state, except for the fields the update in
\* progress has already stored.
MemoryState ==
    \A s \in Entries : \A f \in Fields :
        state[s][f] = IF wpc # "idle" /\ wsym = s /\ f \notin wtodo
                        THEN wnew[f]
                        ELSE hist[s][completed[s]][f]

\* The bound on updates leaves room for the one in progress.
RoomLeft == wpc # "idle" => completed[wsym] < MaxUpdates

\* An update stores every field in which its new value differs, none of them
\* before the odd store.
WriterPlan ==
    /\ wpc = "begin" => \A f \in Fields \ wtodo : wnew[f] = hist[wsym][completed[wsym]][f]
    /\ wpc = "idle" => wtodo = {}

\* The copy r is making on the even counter value seq1[r] agrees with the state
\* of that moment in every field copied so far, unless the counter has moved.
CopyAgrees(r) ==
    /\ seq1[r] <= seq[rsym[r]]
    /\ 2 * since[r] <= seq1[r]
    /\ seq[rsym[r]] = seq1[r] =>
         \A f \in Fields \ rtodo[r] : snap[r][f] = hist[rsym[r]][completed[rsym[r]]][f]

\* The copy is the state after seq1[r] / 2 updates.
CopyExact(r) ==
    /\ 2 * since[r] <= seq1[r]
    /\ \E n \in 0 .. completed[rsym[r]] :
         /\ seq1[r] = 2 * n
         /\ snap[r] = hist[rsym[r]][n]

ReaderInv(r) ==
    /\ rpc[r] \in {"seq1", "test"} => since[r] <= completed[rsym[r]]
    /\ rpc[r] # "copy" => rtodo[r] = {}
    /\ rpc[r] = "copy" => ~Odd(seq1[r]) /\ CopyAgrees(r)
    /\ rpc[r] = "test" /\ ~Odd(seq1[r]) /\ seq1[r] = seq2[r] => CopyExact(r)
    /\ rpc[r] = "done" /\ ~Odd(seq1[r]) => CopyExact(r)

IInv ==
    /\ TypeOK /\ RoomLeft
    /\ SeqCounts /\ MemoryState /\ WriterPlan
    /\ \A r \in Readers : ReaderInv(r)
=============================================================================
