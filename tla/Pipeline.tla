------------------------------ MODULE Pipeline ------------------------------
(***************************************************************************)
(* The whole path of a message: the tick thread of the exchange, a         *)
(* connection that may be lost at any time, the parse thread with its      *)
(* sequence check and the callback of FeedHandler, the symbol cache, and   *)
(* the thread that draws it.                                               *)
(*                                                                         *)
(* The connection carries whole messages: what the parser makes of a       *)
(* message cut in two is Parser's, and how the client comes to connect     *)
(* again is FeedHandler's.                                                 *)
(***************************************************************************)
EXTENDS TickLoop, SequenceCheck, Visualizer, FiniteSetsExt

CONSTANTS
    MaxFaults  \* bound: connections lost and servers killed

ASSUME FaultAssumption == MaxFaults \in Nat

VARIABLES
    ppc,        \* parse thread: "loop", "update" (in the cache), "count"
    faults,     \* connections lost and servers killed so far
    parsed,     \* ghost: numbers used up, the last message parsed included
    accounted,  \* ghost: numbers missing between the messages parsed
    foreign     \* ghost: messages parsed for a symbol the cache has no entry for

client == <<ppc, parsed, accounted, foreign, sequencing, shared>>
vars   == <<ticking, link, steppedBack, client, display, faults>>

TypeOK ==
    /\ TickTypes /\ SequenceTypes /\ DisplayTypes
    /\ ppc \in {"loop", "update", "count"}
    /\ faults \in 0 .. MaxFaults
    /\ parsed \in Nat /\ accounted \in Nat /\ foreign \in Nat
    /\ (ppc = "update") = (update # <<>>)

Init ==
    /\ TickInit /\ SequenceInit /\ DisplayInit
    /\ ppc = "loop" /\ faults = 0
    /\ parsed = 0 /\ accounted = 0 /\ foreign = 0

-----------------------------------------------------------------------------
(***************************************************************************)
(* The connection.                                                         *)
(***************************************************************************)

\* The client connects and subscribes; the accept loop runs until stop().
Connect ==
    /\ ~live /\ tpc \in {"batch", "heartbeat"}
    /\ live' = TRUE
    /\ UNCHANGED <<ticking, wire, steppedBack, client, display, faults>>

\* The connection breaks: what the client has not received is gone.
LoseWire ==
    /\ live' = FALSE
    /\ \E n \in 0 .. Len(wire) : wire' = SubSeq(wire, 1, n)

Disconnect ==
    /\ live /\ faults < MaxFaults
    /\ LoseWire
    /\ faults' = faults + 1
    /\ UNCHANGED <<ticking, steppedBack, client, display>>

\* The server is killed, at any moment, and started again.
Restart ==
    /\ faults < MaxFaults
    /\ LoseWire
    /\ StartAgain
    /\ faults' = faults + 1
    /\ UNCHANGED <<client, display>>

-----------------------------------------------------------------------------
(***************************************************************************)
(* The parse thread.                                                       *)
(***************************************************************************)

\* The state the message makes of the one it finds.
Applied(m) ==
    IF m.type = "quote" THEN AfterQuote(cache[m.sym], m.bid, m.ask)
                        ELSE AfterTrade(cache[m.sym], m.price)

\* process: the sequence check; then the callback, except for a heartbeat.  An
\* update for a symbol out of range returns at once.
ParseMessage ==
    /\ ppc = "loop" /\ wire # <<>>
    /\ LET m == Head(wire).msg
       IN  /\ CheckSequence(m.seq)
           /\ accounted' = IF seq_initialized THEN accounted + (Head(wire).pos - parsed)
                                              ELSE accounted
           /\ parsed' = Head(wire).pos + 1
           /\ IF m.type = "heartbeat" THEN UNCHANGED <<ppc, update, foreign>>
              ELSE IF m.sym \in Entries
                THEN ppc' = "update" /\ update' = <<m.sym, Applied(m)>> /\ UNCHANGED foreign
                ELSE ppc' = "count" /\ foreign' = foreign + 1 /\ UNCHANGED update
    /\ wire' = Tail(wire)
    /\ UNCHANGED <<ticking, live, steppedBack, cache, total_messages, display, faults>>

\* The update returns.
Updated ==
    /\ ppc = "update"
    /\ cache' = [cache EXCEPT ![update[1]] = update[2]]
    /\ update' = <<>>
    /\ ppc' = "count"
    /\ UNCHANGED <<ticking, link, steppedBack, total_messages, parsed, accounted, foreign,
                   sequencing, display, faults>>

\* The callback counts the message.
CountMessage ==
    /\ ppc = "count"
    /\ total_messages' = total_messages + 1
    /\ ppc' = "loop"
    /\ UNCHANGED <<ticking, link, steppedBack, cache, update, parsed, accounted, foreign,
                   sequencing, display, faults>>

-----------------------------------------------------------------------------
Server == TickThread /\ UNCHANGED <<client, display, faults>>

Parse == ParseMessage \/ Updated \/ CountMessage

Render == RenderThread /\ UNCHANGED <<ticking, link, steppedBack, ppc, parsed, accounted, foreign,
                                      sequencing, faults>>

Quit == StopServer /\ UNCHANGED <<client, display, faults>>

Next == Server \/ Connect \/ Disconnect \/ Restart \/ Parse \/ Render \/ Quit

Spec == Init /\ [][Next]_vars

\* The three threads are scheduled.  Nothing is assumed of the connection.
FairSpec == Spec /\ WF_vars(Server) /\ WF_vars(Parse) /\ WF_vars(Render)

-----------------------------------------------------------------------------
(***************************************************************************)
(* Properties.                                                             *)
(***************************************************************************)

\* The gaps the client reports are the numbers the server left out and the
\* messages lost on the way, whatever the order of fault injection, heartbeats,
\* disconnections and restarts: never more of them and, until the numbers step
\* back, never fewer.
GapsAccounted ==
    /\ total_gap_size <= accounted
    /\ steppedBack \/ total_gap_size = accounted

\* A frame has just been drawn, of snapshots that did not leave early.
WholeFrame == vpc = "top" /\ ~torn

\* The updates each row of the frame shows.
RowCounts == [s \in DOMAIN rows |-> rows[s]["update_count"]]

\* The header of a frame never counts a message whose update its rows miss,
\* although header and rows are read at different times.
HeaderNotAhead ==
    WholeFrame =>
        header <= foreign + MapThenSumSet(LAMBDA s : RowCounts[s], DOMAIN rows)

\* The rows cut from a frame are not the busy ones: a symbol that is left out
\* had no more updates when the frame was begun than any symbol on the screen
\* has now, and is left out only if the screen is full or it had none.
TopSymbolsShown ==
    WholeFrame =>
        \A t \in Entries \ top :
            \/ before[t] = 0
            \/ /\ Cardinality(top) = TOP_N_SYMBOLS
               /\ \A s \in top : before[t] <= cache[s]["update_count"]

\* Zero means `no price yet' to the cache and the display, so no price that gets
\* there may be zero: a drawn row has a reference price for its percentage and a
\* trade or a quote, and its bid, if any, is below its ask.
RowsPriced ==
    WholeFrame =>
        \A s \in top :
            LET row == rows[s]
            IN  /\ s \in opened
                /\ row["last_traded_price"] > 0 \/ row["best_bid"] > 0
                /\ row["best_bid"] > 0 => row["best_bid"] < row["best_ask"]

\* The frame on the screen shows the present state of the cache.
Current ==
    /\ \A s \in top : rows[s] = cache[s]
    /\ \A s \in Entries \ top :
          cache[s]["update_count"] = 0 \/ Cardinality(top) = TOP_N_SYMBOLS

\* When the feed falls silent the display catches up.
DisplayCatchesUp == <>[](vpc = "top" => Current)
=============================================================================
