----------------------------- MODULE Visualizer -----------------------------
(***************************************************************************)
(* Visualizer (include/client/visualizer.h, src/client/visualizer.cpp):    *)
(* the thread that draws a frame every half second from the cache and the  *)
(* counters, both of which the parse thread goes on changing.              *)
(*                                                                         *)
(* A frame is its header's message count and its rows; colours, columns,   *)
(* names, the uptime, the latency line (LatencyTracker) and the other      *)
(* header fields are left out.  The lines of a frame are ordered by the    *)
(* comparison that cuts them, so a frame is kept as a set of rows.         *)
(*                                                                         *)
(* While the parse thread updates an entry, a plain load may return the    *)
(* old or the new value.  A snapshot waits for the update to end, unless   *)
(* the reader leaves through the comparison with a stale seq2 (see         *)
(* SymbolCache): it is then a mixture, the frame is marked torn, and what  *)
(* it shows and the reference prices it leaves behind may be anything.     *)
(*                                                                         *)
(* stop() ends the loop between two frames; FeedHandler models it.         *)
(***************************************************************************)
EXTENDS MarketStates, FiniteSets

CONSTANTS
    NumEntries,     \* cache_.num_symbols()
    TOP_N_SYMBOLS

ASSUME DisplayAssumption == NumEntries \in Nat /\ TOP_N_SYMBOLS \in Nat \ {0}

Entries == 0 .. NumEntries - 1

VARIABLES
    cache,           \* the entries of the cache
    update,          \* the update in progress, <<symbol, new state>>, or <<>>
    total_messages,  \* stats_.total_messages
    vpc,             \* "top" (a frame is drawn), "rows", "snapshot"
    i,               \* loop variable of build_frame
    header,          \* the message count in the header of the frame
    rows,            \* rows collected: a function from symbols to states
    top,             \* the rows left after the cut, once the frame is drawn
    opened,          \* symbols whose reference price, open_price_, is not zero
    torn,            \* a snapshot of the frame was left early
    before           \* ghost: update counts when the frame was begun

display == <<vpc, i, header, rows, top, opened, torn, before>>
shared  == <<cache, update, total_messages>>

NoRows == [s \in {} |-> ZeroState]

DisplayTypes ==
    /\ cache \in [Entries -> MarketState]
    /\ total_messages \in Nat
    /\ vpc \in {"top", "rows", "snapshot"}
    /\ i \in 0 .. NumEntries /\ (vpc = "snapshot" => i \in Entries)
    /\ header \in Nat
    /\ DOMAIN rows \subseteq Entries /\ \A s \in DOMAIN rows : rows[s] \in MarketState
    /\ top \subseteq DOMAIN rows
    /\ opened \subseteq Entries /\ torn \in BOOLEAN /\ before \in [Entries -> Nat]

DisplayInit ==
    /\ cache = [s \in Entries |-> ZeroState] /\ update = <<>> /\ total_messages = 0
    /\ vpc = "top"
    /\ i = 0 /\ header = 0
    /\ rows = NoRows /\ top = {}
    /\ opened = {} /\ torn = FALSE /\ before = [s \in Entries |-> 0]

-----------------------------------------------------------------------------
Updating(s) == update # <<>> /\ update[1] = s

\* What a load of the update count of entry s may return.
LoadedCounts(s) ==
    {cache[s]["update_count"]} \union (IF Updating(s) THEN {update[2]["update_count"]} ELSE {})

\* The next frame, while running_ is set: build_frame loads the counter for the
\* header.
Header ==
    /\ vpc = "top"
    /\ header' = total_messages
    /\ rows' = NoRows /\ top' = {} /\ i' = 0 /\ torn' = FALSE
    /\ before' = [s \in Entries |-> cache[s]["update_count"]]
    /\ vpc' = "rows"
    /\ UNCHANGED <<shared, opened>>

\* Mutant: a symbol with a single update is left out.
LoadCountFromTwo ==
    /\ vpc = "rows" /\ i < NumEntries
    /\ \E cnt \in LoadedCounts(i) : IF cnt <= 1
                                      THEN i' = i + 1 /\ UNCHANGED vpc
                                      ELSE vpc' = "snapshot" /\ UNCHANGED i
    /\ UNCHANGED <<shared, header, rows, top, opened, torn, before>>

\* get_update_count, a plain load: symbols without updates are left out.
LoadCount ==
    /\ vpc = "rows" /\ i < NumEntries
    /\ \E cnt \in LoadedCounts(i) : IF cnt = 0
                                      THEN i' = i + 1 /\ UNCHANGED vpc
                                      ELSE vpc' = "snapshot" /\ UNCHANGED i
    /\ UNCHANGED <<shared, header, rows, top, opened, torn, before>>

\* The row is collected, unless the frame is spoilt already.
Snapshot ==
    /\ vpc = "snapshot" /\ ~Updating(i)
    /\ rows' = IF torn THEN rows
                       ELSE [s \in DOMAIN rows \union {i} |-> IF s = i THEN cache[i] ELSE rows[s]]
    /\ i' = i + 1
    /\ vpc' = "rows"
    /\ UNCHANGED <<shared, header, top, opened, torn, before>>

\* The snapshot is left during an update.
SnapshotLeftEarly ==
    /\ vpc = "snapshot" /\ Updating(i)
    /\ rows' = NoRows /\ torn' = TRUE
    /\ i' = i + 1
    /\ vpc' = "rows"
    /\ UNCHANGED <<shared, header, top, opened, before>>

\* Row s may be sorted before row t.
Ahead(s, t) == rows[s]["update_count"] >= rows[t]["update_count"]

\* Mutant: the comparison is the wrong way round.
TopRowsAscending ==
    {S \in SUBSET DOMAIN rows :
        \/ Cardinality(S) = TOP_N_SYMBOLS /\ \A s \in S, t \in DOMAIN rows \ S : Ahead(t, s)
        \/ Cardinality(S) < TOP_N_SYMBOLS /\ S = DOMAIN rows}

\* What a sort by update count, in which ties fall any way, may leave in front.
TopRows ==
    {S \in SUBSET DOMAIN rows :
        \/ Cardinality(S) = TOP_N_SYMBOLS /\ \A s \in S, t \in DOMAIN rows \ S : Ahead(s, t)
        \/ Cardinality(S) < TOP_N_SYMBOLS /\ S = DOMAIN rows}

\* A drawn row without a reference price takes the first one it shows, of a trade
\* or else of a quote, and keeps it.
Priced(s) == rows[s]["last_traded_price"] > 0 \/ rows[s]["best_bid"] > 0

\* Sort, cut, draw, sleep.
Draw ==
    /\ vpc = "rows" /\ i = NumEntries
    /\ top' \in TopRows
    /\ IF torn THEN \E S \in SUBSET Entries : opened' = opened \union S
               ELSE opened' = opened \union {s \in top' : Priced(s)}
    /\ vpc' = "top"
    /\ UNCHANGED <<shared, i, header, rows, torn, before>>

RenderThread == Header \/ LoadCount \/ Snapshot \/ SnapshotLeftEarly \/ Draw
=============================================================================
