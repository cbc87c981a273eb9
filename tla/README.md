# Verification of the market feed handler

TLA+ models of the exchange simulator and the feed handler in this repository,
TLC configurations that check them on small instances, and TLAPS proofs of the
results that hold for every instance. Paths such as `cache.cpp:97` are relative
to the repository (`src/common/`, `include/common/`, `src/client/`,
`include/client/`, `src/server/`).

    tlc -config SymbolCache.cfg MCSymbolCache      (and so on, see "Runs")
    tlapm SymbolCacheProofs.tla

## 1. The system

Two programs talk over one TCP connection per client.

    exchange_simulator                              feed_handler
    accept thread --+                        +-- network thread --feed--> ByteRingBuffer
                    +-- clients_ ==TCP======>|                                 |
    tick thread ----+                        +-- reconnect thread           process
                                             +-- parse thread <----------------+
                                             |       |  update_quote / update_trade
                                             +-- display thread <-- get_snapshot -- SymbolCache
                                             +-- main thread

| Component | State | Operations | Shared with | What is hard | What makes it correct |
|---|---|---|---|---|---|
| Symbol cache (`cache.h/.cpp`) | per symbol a counter `seq` and a `MarketState` | `update_quote`, `update_trade`, `get_snapshot` | parse thread writes, display reads, no lock | a copy that races with stores; memory ordering; the retry loop | a snapshot is one whole, recent state; every snapshot returns |
| Byte ring (`ring_buffer.h`) | array, two positions | `write`, `peek`, `consume`, `read`, `reset` | network thread writes, parse thread reads, main thread resets | full, empty, array end, wrap-around, a third thread | it is a bounded byte stream |
| Parser (`parser.h/.cpp`, `protocol.h`) | ring, expected sequence number, statistics | `feed`, `process`, `reset_stats` | network and parse threads | messages cut in pieces, bytes lost in the middle | resynchronises, accepts each message once, counts gaps |
| Feed handler (`feed_handler.h/.cpp`, client `socket.h/.cpp`) | flags `running_`, `connected_`, `reconnect_pending_`, `attempt_`, eventfd, epoll, `last_recv_ns_` | four thread loops, `do_connect`, `on_disconnect`, `stop` | atomics and one plain counter between the threads | lost wake-ups, stale events, timeouts, races of giving up and connecting, joining | a lost connection is always followed up; shutdown completes |
| Client manager, simulator threads (`client_manager.h/.cpp`, `exchange_simulator.h/.cpp`) | `clients_` with subscription state and spill queue, epoll interest | `add_client`, `remove_client`, `on_recv`, `send_to`, `broadcast`, `flush_pending`, `tick`, `accept_loop`, `tick_loop` | both threads, no lock | everything: no mutual exclusion, descriptor reuse, partial sends | each client's byte stream is unbroken, table and kernel agree |
| Tick loop and generator (`exchange_simulator.cpp`, `tick_generator.h/.cpp`) | `seq`, `symbol_idx`, prices | `tick_loop`, `generate_tick`, `generate_heartbeat`, `stop` | its messages go to the client manager | one counter for ticks, heartbeats and fault injection; rounding | prices are never zero, numbers are used once |
| Latency tracker (`latency_tracker.h/.cpp`) | histogram, count, sum, min, max, all relaxed atomics | `record`, `reset`, `get_stats`, `export_csv` | parse, main and display threads | reset between the updates of one record; three tables that must fit | exact at rest, percentiles not overstated |
| Visualizer (`visualizer.h/.cpp`) | the frame, reference prices | `render_loop`, `build_frame`, `start`, `stop` | reads cache and counters while they change | a frame is read over a stretch of time | header, rows and cut are consistent, and catch up |
| `main`s | options, a global pointer | signal handlers | call `stop()` in the middle of `run()` | nested calls | shutdown completes |
| Memory pool, SPSC queue | | | | | used by no program here; not modelled |

## 2. Modules

| Module | Models | Used by |
|---|---|---|
| `MarketStates` | `MarketState` and what an update makes of it | `SymbolCache`, `Visualizer` |
| `SymbolCache` | the cache's writer and readers, one load or store per step | `MCSymbolCache`, `SymbolCacheProofs` |
| `ByteFifo` | abstract: what a byte ring promises | refined by `ByteRing` |
| `ByteRing` | the ring buffer, one access per step, with a refinement mapping to `ByteFifo` | `MCByteRing`, `ByteRingProofs` |
| `Protocol` | message kinds and sequence numbers | `SequenceCheck`, `TickLoop` |
| `SequenceCheck` | the parser's gap detection | `Parser`, `Pipeline` |
| `Parser` | `feed` and `process` over the byte queue that `ByteRing` implements | `MCParser`, `ParserProofs` |
| `FeedHandler` | the four client threads, the socket, epoll and the eventfd, the peer and the clock | `MCFeedHandler`, `FeedHandlerProofs` |
| `ExchangeServer` | the two server threads over the client table, the kernel's descriptors and the clients | `MCExchangeServer`, `ExchangeServerProofs` |
| `LatencyTracker` | the tracker, one atomic access per step, and its bucket layout | `MCLatencyTracker`, `LatencyTrackerProofs` |
| `TickLoop` | the server's tick thread and the tick generator | `Pipeline` |
| `Visualizer` | the display thread over the cache and the counters | `Pipeline` |
| `Pipeline` | composition: `TickLoop`, a connection that breaks, `SequenceCheck`, the parser callback, the cache, `Visualizer` | `MCPipeline`, `PipelineProofs` |
| `FiniteSums` | models nothing: induction on finite sets, and what sums over them satisfy | the proofs about parser, server, tracker and pipeline |

Definitions whose comment begins with "Mutant:" are the plausible bugs that
`PROJECT.json` substitutes for the real definitions, to show that each checked
property can fail.

### How state and actions correspond to the code

**SymbolCache.** `seq` and `state` are the entry; `wtodo` is the set of fields
that the update in progress has still to store (plain stores, so in any order),
`rtodo` the fields the reader's struct copy has still to load. `GetSnapshot`
starts with an arbitrary `seq2`, because the code does not initialise it.
`LoadSeq1` on an odd counter goes to the *test* of the do-while loop, as C++'s
`continue` does. Field accesses stay between the two counter accesses, as they do
on x86-64. The language does not promise it: a release store holds back what
comes before it and not, as `docs/QUESTIONS.md:183` says, the stores after it,
so on aarch64, for which `cache.cpp` has a branch, neither the run nor the proof
says anything. `completed`, `hist`, `since` are ghosts. Prices are positive; that
the generator's are is `RowsPriced` in `Pipeline`.

**ByteRing.** Positions are unsigned and wrap at `PosMod`, a multiple of the
capacity as 2^64 is. A byte is its number in the stream offered to `write`, so
order, loss and duplication are visible. `reset` is two stores and belongs to
`SpecWithReset` only. In the refinement `InFlight`, `InRing` and `Held` map a
half-copied write, the published bytes and a half-copied peek to the abstract
`pending`, `queue` and `out`; each byte copied is a stuttering step, each
position update an atomic abstract step.

**Parser.** A byte is (message, offset). One iteration of `process`' loop is one
step, which is sound because `feed` only appends and `process` only removes.
A sequence of bytes that is not the beginning of a message decodes to any
header, so `UnknownType` and `ChecksumError` are nondeterministic there. The
checksum is ideal; the code's XOR over words cannot tell all damage apart, so
the parser's results are conditional on the checksum detecting it. The parser
delivers messages with old sequence numbers and moves `expected_seq_` back
(`parser.cpp:89-104`), although `docs/QUESTIONS.md:139` says that they are
discarded; the model follows the code, and `AcceptedOnce` therefore speaks of
messages, not of sequence numbers. `feed` is two steps, the plain store of
`batch_recv_time_ns_` and the write into the ring, with the parse thread between
them; a receive time is the byte that was the last of its `recv`.

**FeedHandler.** `npc`, `ppc`, `rpc`, `mpc` are the program points of the
network, parse, reconnect and main threads. Each access to a flag that another
thread uses is a step, and the plain `attempt_` is incremented in two steps.
`on_disconnect`, which only the network thread calls, and `do_connect` are one
step each; the flags they set are each read alone by the other threads.
epoll is edge-triggered (`edge`), the eventfd a bit. Time is kept as differences
(`age`, `lag`), so the clock needs no bound. `ConnectSucceeds` / `ConnectFails`
depend on `serverUp`, which changes at will. `Stop` is the beginning of `stop()`, called by `run()`, or by the signal handler
on the same thread in the middle of `run()`; `Join` joins one thread at a time;
after a `stop()` by the handler `run()` goes on, sees `running_` clear and calls
`stop()` again (`StopAgain`). A give-up clears `running_` while the last attempt
may still be under way and succeed; `docs/NETWORK.md:306` speaks of consecutive
failures. Not in it: a second signal during `stop()`, which joins a thread that
is being joined; the join of the display thread (`feed_handler.cpp:91`), which
looks at its flag between two frames and waits for nobody, so `ShutdownCompletes`
is about the other threads; an error of `epoll_wait`, which ends the network thread for good, and EINTR; the length of
the backoff; the result of sending the subscription, which the code ignores.

**ExchangeServer.** A descriptor (`Fds`) is what the table is keyed by, a
connection (`Conns`) what it is open on; the kernel reuses descriptors as soon
as they are closed. `tpc`/`apc` are the program points of the tick and accept
threads; `pending_bytes` is loaded and stored in separate steps. `remove_client`
is close and then erase, two steps with room for `accept4` between them.
`broadcast` reaches an entry (`Visit`) and calls `send_to` with its key, which
looks it up again (`FindClient`) and tests its queue; the send uses the
descriptor and nothing else (`SendBytes`), and only with its result does the
code go back to the entry (`Sent`). In between the accept thread may have
removed the client and accepted another on the same descriptor: the bytes then
go to that one. `TickEntryValid` (the iterator of `broadcast`), `TickRefValid`
(the reference of `send_to`, the iterator of `remove_client`) and
`AcceptEntryValid` say whether what the thread holds still leads to the entry it
was made for; a use of the entry without it is undefined behaviour and ends the
run in `"undefined"`, so nothing is claimed about what follows. Single
operations of the table and of a queue's ends are atomic in the model and a
rehash does not happen (fewer than 14 clients). The loop of `tick()` that
collects slow clients (`client_manager.cpp:199-210`) is one step, `TickCheck`: an
erase by the tick thread under its iterator, one more undefined behaviour, is
not seen.
Statistics counters are left out, and so is the list of subscribed symbols:
`broadcast` never looks at it, although `docs/NETWORK.md:110` describes a filter.

**LatencyTracker.** The atomics are the cells of `mem`, the histogram first. A
`record` is a step per access, the two compare-exchange loops included (a weak
exchange may fail for no reason); `reset` and `get_stats` store and load the
cells in the code's order, `ResetOrder` and `StatsOrder`. `CsvRow` is what
`export_csv` prints for a bucket. The class calls `record` thread-safe, so the
run has two recorders, although the program has one. Overflow of the 64-bit
counters is out of reach and left out; `bucket_for`'s conversion to `int` is
exact because the parser records only latencies below 10 ms. The assumption
`RealLayout`, which TLC evaluates, checks the program's own tables; it shows
that the comment in `latency_tracker.cpp:14` miscalculates (70144 + 120 * 4096
is 561664), so that bucket 543 is 2816 ns wide and not 4096; both functions agree
on it. The upper bound printed for the overflow row is no bound.

**TickLoop.** One `Tick` is one turn of the inner loop of `tick_loop`. That
`stop()` has cleared `running_` matters only where the tick thread looks, so
`StopServer` is the thread finding it so; a batch that is cut short still goes
through the heartbeat. `exp` may return anything positive, so the next price is
any of `NewPrices`; floor, rounding and minimum spread are the code's, in units
smaller than a tick. `FaultPeriod` is the 100 of the code.

**Visualizer.** `Header` is the loop test and the load of the counter; then there
is one step per loaded update count and per snapshot, and `Draw` sorts, cuts and
draws. A snapshot during an update waits, or is left early (the stale `seq2` of
`cache_torn`); then the frame is `torn`, its contents may be anything, and the
properties of frames do not speak of it. `opened` is the set of symbols whose
`open_price_` is not zero.

**Pipeline.** The message is parsed, applied to the cache over a stretch of time
(`update` holds the state being stored) and counted, in this order. `wire` is the
connection with the bytes of whole messages; breaking it loses any tail of it,
and a message carries as a ghost its position among the numbers used up so far
(`issued`), so that the numbers that never reached the client are those between
its position and the last one `parsed`. What the client does to connect again is `FeedHandler`'s,
what the server does with its table `ExchangeServer`'s.

## 3. Runs

Passing runs.

| Run | Instance | Shows |
|---|---|---|
| `cache` | 1 symbol (and an id out of range), 1 reader, 2 updates, counter up to 5 | `EvenExitAtomic`: a snapshot accepted on an even counter is one whole state, no older than the call. `OpenPriceFixed`, `SnapshotReturns`. `IInv` holds in all reachable states. |
| `ring` | capacity 4, positions modulo 8, calls of 1 to 4 bytes, 12 bytes | `IsByteFifo`: the ring implements `ByteFifo`. `NoByteTwice`; `RingInv`, from which both are proved. |
| `parser` | 4 streams of 4 messages (unbroken, skipping, wrapping, restarted), ring of 8 bytes, 1 reconnection | `NoIntactSkipped`, `AcceptedOnce`, `GapAccounting`, `RecvTimeNotStale`, `LosslessDelivery`. |
| `feed` | 2 attempts, timeout and lag of 1 tick, backlog 1 | `NoLostReconnect`, `EventsAreCurrent`, `ConnInv`; `Reconnects`, `DeadPeerDetected`, `ShutdownCompletes`. |
| `server` | 2 descriptors, 2 connections, 2 messages of 2 bytes, drop limit 3 | up to the first use of an erased entry: `StreamUnbroken` and `TableMatchesFds` on every descriptor but the one whose client is removed during its visit by `broadcast` (`Pulled`); `NothingBeforeGreeting`: the only connection the feed can reach too early is one accepted on that descriptor, later than the removed client. |
| `latency` | 3 buckets in 2 tiers, 2 recorders, 2 records, 1 reset, samples in a short and in the overflow bucket | `StatsExact`, `DriftBounded`, `PercentilesNotOverstated`. |
| `pipeline` | 3 symbols of which the cache has 2, a screen of 1 row, 3 messages, 2 of them on the wire at a time, sequence numbers modulo 4, 1 broken connection or restart | `GapsAccounted`, `HeaderNotAhead`, `TopSymbolsShown`, `RowsPriced`, `DisplayCatchesUp`. |

Runs that TLC must find violated: each states what the repository's own text
says, and the code does otherwise.

| Run | Property | What happens |
|---|---|---|
| `cache_torn` | `SnapshotNeverPartial` | a reader that loads an odd counter compares it with an uninitialised or stale `seq2` and, if they agree, returns a partly written or empty snapshot (`docs/QUESTIONS.md:175`) |
| `ring_reset` | `NoByteTwice` | `reset()` from the main thread makes the parser read consumed bytes again (`ring_buffer.h:14`) |
| `feed_heartbeat` | `HeartbeatOnlyWhenSilent` | the parse thread stores a newer time between the clock reading and the load; the unsigned difference wraps and a live connection is dropped (`docs/NETWORK.md:188`) |
| `server_erase` | `NoUseAfterErase` | a client removed inside `broadcast` leaves the range-for on an erased element (`client_manager.cpp:134`) |
| `server_spill` | `SpilledIsArmed` | EPOLLOUT is given up for a queue the other thread has just filled (`docs/QUESTIONS.md:15`) |

Three more disagreements have no run of their own. The documents speak of 10
attempts; `MAX_ATTEMPT` is 20 in the code, and a constant here. "Broadcast to all
LIVE clients" (`client_manager.h:66`) fails in the case that
`NothingBeforeGreeting` leaves open: without its second disjunct TLC violates it
by a removal and an `accept4` between `FindClient` and `SendBytes`. And
`docs/QUESTIONS.md:139` has the parser discard a message with an old number,
which it delivers (`parser.cpp:102` only leaves it out of the gaps).

### Bounds and why they are enough

* cache: two updates give every overlap of a read with none, one or two writes;
  a third would repeat an overlap. The proof covers any number.
* ring: 12 bytes take the positions once around `PosMod` = 8 and the array three
  times around; calls from 1 byte to the capacity reach full, empty and split
  copies. `PosMod` is twice the capacity, the smallest value for which full and
  empty differ.
* parser: the sizes keep the order header < heartbeat < trade < quote; the ring
  holds less than two of the larger messages, so bytes are lost at every
  offset; `SeqMod` = 8 puts the wrap-around inside a stream.
* feed: two attempts are the fewest for which giving up, counting and the race
  between them differ. `MaxAge` is the value above which all ages decide alike.
* server: two connections on two descriptors are enough for reuse and for a
  removal beside another client; two messages for a queue with a message behind
  another, and for exceeding the limit. A removal during a visit ends the run at
  the next use of the entry, at the latest when `broadcast` goes on to the next
  client: that is what the code does to itself, and why the server's properties
  are of the states before. Those between the removal and that use, in which the
  descriptor may be open on another connection, are among them.

* latency: two recorders meet in every access and in both exchange loops; one
  reset overlaps none, one or both of them.
* pipeline: the second number is skipped when faults are injected, the third
  message wraps; two entries and a screen of one make the cut matter, and the
  third symbol takes the range test of the cache. A restart replays the first
  symbols, so that one of them gets ahead of the other.

Deadlock is not checked in `latency` and `pipeline` (the bounds stop them), in
`parser` (the server may send no more and a damaged
header wait for more bytes) and in `server` (the bounds stop it, and an undefined
run ends). In the other runs a stuck state is an error.

### Fairness

* cache: weak fairness of a writer inside an update and of each reader inside a
  call; nothing makes the writer begin one.
* parser: weak fairness of `Feed` and of `AcceptMessage`, the threads' loops.
* feed: weak fairness of each thread, of the main thread once `running_` is
  false (its loop polls), of joining, and of the clock. Strong fairness of
  `RecvAgain`: the drain loop (`feed_handler.cpp:247`) ends only on EAGAIN, and a
  server that always has another byte ready would keep it there for ever. Nothing is
  assumed of the peer, the network or the user.
* pipeline: weak fairness of the tick, parse and display threads, whose loops
  never block for good. Nothing is assumed of the connection.
* `ring`, `server` and `latency`: no fairness, only safety is checked.

## 4. Proofs

Each theorem is about every value of the constants that the `ASSUME`s of its
module allow, where a run has one instance.

| Theorem | Statement | Assumes |
|---|---|---|
| `SymbolCacheProofs!TypeCorrect` | `Spec => []TypeOK` | the constants' types, `2 * MaxUpdates < SeqMax` |
| `SymbolCacheProofs!SeqlockInvariant` | `Spec => []IInv` | the same: any number of symbols, readers, prices, updates |
| `SymbolCacheProofs!SnapshotAtomic` | `Spec => []EvenExitAtomic` | the same |
| `SymbolCacheProofs!OpeningPriceKept` | `Spec => OpenPriceFixed` | the same |
| `ByteRingProofs!TypeCorrect` | `Spec => []TypeOK` | `PosMod` a multiple of the capacity, at least twice it |
| `ByteRingProofs!RingConsistent` | `Spec => []RingInv` | the same |
| `ByteRingProofs!BytesArriveOnce` | `Spec => []NoByteTwice` | the same |
| `ByteRingProofs!RingImplementsFifo` | `Spec => IsByteFifo` | the same |
| `ParserProofs!TypeCorrect` | `Spec => []TypeOK` | message sizes above the header's and at most the ring's capacity; any streams |
| `ParserProofs!ResyncLosesNothing` | `Spec => []NoIntactSkipped` | the same |
| `ParserProofs!MessagesAcceptedOnce` | `Spec => []AcceptedOnce` | the same |
| `ParserProofs!TimesNotStale` | `Spec => []RecvTimeNotStale` | the same |
| `ParserProofs!GapsCounted` | `Spec => []GapAccounting` | the same |
| `FeedHandlerProofs!TypeCorrect` | `Spec => []TypeOK` | any attempt limit, timeout and bounds |
| `FeedHandlerProofs!ConnInvariant` | `Spec => []ConnInv` | the same |
| `FeedHandlerProofs!ReconnectNeverLost` | `Spec => []NoLostReconnect` | the same |
| `FeedHandlerProofs!EventsHitTheirSocket` | `Spec => []EventsAreCurrent` | the same |
| `ExchangeServerProofs!TypeCorrect` | `Spec => []TypeOK` | any descriptors and any numbers of connections and messages; message length and greetings not 0, the drop limit below the range of `size_t` |
| `ExchangeServerProofs!TableConsistent` | `Spec => []TableMatchesFds` | the same |
| `ExchangeServerProofs!GreetingFirst` | `Spec => []NothingBeforeGreeting` | the same |
| `ExchangeServerProofs!FeedUnbroken` | `Spec => []StreamUnbroken` | the same |
| `LatencyTrackerProofs!SampleInItsRow` | every latency lies in the exported range of the bucket it is counted in | `IsLayout` of the tables, which TLC checks for the real ones |
| `LatencyTrackerProofs!TypeCorrect` | `Spec => []TypeOK` | the same, and finitely many recorders |
| `LatencyTrackerProofs!DriftIsBounded` | `Spec => []DriftBounded` | the same |
| `LatencyTrackerProofs!StatisticsAreExact` | `Spec => []StatsExact` | the same |
| `LatencyTrackerProofs!PercentilesAreNotOverstated` | `Spec => []PercentilesNotOverstated` | the same |
| `PipelineProofs!TypeCorrect` | `Spec => []TypeOK` | any numbers of symbols, entries, rows on the screen, messages, faults; any range of sequence numbers; spreads at least a tick below the price for prices from the floor up |
| `PipelineProofs!PipelineInvariant` | `Spec => []IInv` | the same |
| `PipelineProofs!GapsAreAccounted` | `Spec => []GapsAccounted` | the same |
| `PipelineProofs!HeaderIsNotAhead` | `Spec => []HeaderNotAhead` | the same |
| `PipelineProofs!TopSymbolsAreShown` | `Spec => []TopSymbolsShown` | the same |
| `PipelineProofs!RowsArePriced` | `Spec => []RowsPriced` | the same |

*Cache.* `EvenExitAtomic` speaks of finished reads only, so the invariant `IInv`
adds what makes them right. `SeqCounts`: the counter is twice the completed
updates, plus one while fields are being stored. `MemoryState`: memory is the
last completed state except for fields already stored. `WriterPlan`: fields the
update does not store keep their value. `ReaderInv`: a copy begun on an even
counter agrees, as long as the counter has not moved, with the last completed
state (`CopyAgrees`); when the second load gives the same value, the copy is
exactly the state after `seq1 / 2` updates (`CopyExact`). The step that matters
is a field store during a copy: then the counter is odd, so it differs from
`seq1` and the agreement is claimed no longer; and as the counter only grows, the
second load cannot agree either. That the counter only grows is where
`SeqAssumption` (no wrap-around within one run) is used. `OpenPriceFixed` needs
`OpenPlan` beside it: an update that is to store the opening price has found it
zero, and it is zero until the store.

*Ring.* `RingInv` relates the two positions, which wrap, to the numbers of bytes
written and consumed, which do not: their distance is at most the capacity, the
slots of bytes between them hold those bytes, and the slots being filled or
copied belong to one thread only. From it every step either leaves `InFlight`,
`InRing` and `Held` as they are or is the abstract step of the same name. The
work is in the arithmetic: that a slot is the same whether computed from a
wrapped or an unwrapped position is where `PosMod` must be a multiple of the
capacity.

*Parser.* `PInv` follows each byte of the stream: the ring holds bytes in the
order they were sent, none of them still to be received (`RingOrdered`); of a
damaged message some byte that passed is not in the ring (`LostInv`), of any other
message that is not accepted every one is (`KeptInv`), so the byte-wise search
cannot have run past it; accepted messages came whole and before everything in
the ring (`AcceptedInv`). `GapInv` adds what the statistics are before the first
message; the receive times need `ReceivedInv`, as `feed` stores the time before
it writes the bytes.

*Feed handler.* `ConnInv` says what each program point of the network thread
knows of `connected_`, `reconnect_pending_` and its batch. It is needed because
`reconnect_pending_` is cleared before the attempt and set again only if the
attempt fails: between the two, at `"connect"`, neither flag is set. `TypeOK`
includes that the value the reconnect thread holds between the load and the
store of `attempt_` is below the limit, without which the racing increment could
not be bounded.

*Server.* The invariant `ServerInv` has a part for each actor: `TickInv` and
`FlushInv` for what the two threads hold between their steps, `ConnsOnce` and
`BacklogInv` for the kernel (a connection has one number, one descriptor and one
entry, and nothing passes before it is accepted). `OthersInv` says of every
descriptor but the pulled one that it is in order (`GoodAt`): table and kernel
agree, but for what `accept4` or `remove_client` is in the middle of (`TableAt`),
a client that was sent anything has been heard (`LiveAt`), and its stream is
unbroken (`StreamAt`). What the tick thread does to a pulled descriptor, the send
to whatever it is open on by now included, must not disturb the others:
`PulledInv`, that such a descriptor is closed or open on a connection later than
the visited client's, is needed for this and for the exception of
`NothingBeforeGreeting`. `StreamAt` follows the pieces a queue is made of: each
begins where the one before ended, the first where the kernel's stream ends, the
last at the end of the broadcast. That the concatenation of such pieces is an
unbroken run is an induction on the length of the queue.

*Bucket layout.* `bucket_for` looks for a tier by its first latency and
`bucket_to_ns` by its first bucket. `TierFound` and `TierUnique`: in a table that
begins at 0 and grows, each search has exactly one answer. `SameTier`: `IsLayout`
keeps the bucket of a latency below the first bucket of the next tier, so the
second search finds the tier of the first, and the ends of the bucket are the
multiples of the step around the latency (`DivBounds`), or the beginning of the
next tier for a last bucket that is cut short. `RowsGrow` and `OneRow`: the rows
are in order, so a sample is in no row but its own.

*Tracker.* At rest everything adds up, in between nothing does; the invariants
say by how much. `DriftInv`: until a reset stores the count, the buckets it has
cleared hold no more than the records that overlapped it; afterwards histogram
and count differ, up to the overlaps, by the records between their two updates
(`Owing`). `ExactInv`, when none overlapped: a reset meets no record (`QuietReset`),
so its last store leaves everything as in the beginning; between resets each cell
lacks exactly what the recorders at work still owe it, and a sample below the
minimum (or above the maximum) is in the hands of a recorder that has not left
its compare-and-swap loop. `CountedInv` and `LoadInv`: a bucket never falls behind
the samples that are in the count, so get_stats, which loads the count first, finds
in each bucket at least those. More samples under the same count reach a
percentile no later, and `RowsGrow` makes earlier buckets lower latencies.

*Pipeline.* The invariant has a half for the numbers and a half for what is
shown. `WireInv`: take any two of the client's expected number, the messages on
the wire and the server's next number; the later one exceeds the earlier one by
no more than the positions between them, a position being the count of numbers
used up so far (`InStep`). Skipped numbers, heartbeats and lost ends of the wire
keep the two differences equal; a wrap-around and a restart only make the first
smaller, so a gap is never reported larger than it is. Until either happens
(`NumbersInv`) numbers are positions and the gaps are exact. For the other half,
`TicksPriced` follows a price from the floor through the spread and the rounding
and shows that no quote or trade has a price of zero and no bid reaches its ask;
`CacheInv` carries that into the entries, and through the update in progress.
`CountInv`: the messages counted, and the one about to be, are those in the cache
and those for no entry of it. `RowsInv`: a row lies between what its entry was
when the frame was begun and what it is now, and a symbol passed over had no
update then, although its count is loaded while it may be changing: a load that
returns 0 can only have returned the old value. Header and rows are compared
through the sum of the counts at the beginning of the frame (`HeaderInv`),
which is at most the sum over the rows because what was passed over adds nothing
(`FiniteSums!SumSupport`).

*Induction.* The library's induction theorems have an operator as a parameter
and cannot be used here. `FiniteSums!LeastElement` (a set of naturals that is not
empty has a least member, from the well-foundedness of `<`) takes their place: a
claim is proved by refuting its least counterexample, and so are
`SubsetInduction` and the lemmas on sums, which unfold the definition of
`MapThenSumSet` to the recursive function it chooses.

Every inductive invariant above was checked by TLC on the instance of its
component's run before it was proved.

Model-checked only: liveness (fairness is out of the prover's reach): `SnapshotReturns`,
`LosslessDelivery`, `Reconnects`, `DeadPeerDetected`, `ShutdownCompletes`,
`DisplayCatchesUp`; and all violations.

## 5. Not modelled

Statistics counters that nothing reads back; the terminal, colours and columns of
the display, and argument parsing; the random numbers, quantities and
floating-point arithmetic of the tick generator, and the pacing of its batches;
socket options; the length of the backoff; the arithmetic of the checksum; the
subscription filter, which is stored and never used; the effect of `reset_stats`
on the sequence check (`parser.cpp:18-19`, two plain stores that race with
`process`); memory orders weaker than x86-64's; the memory pool and the SPSC queue,
which no program here uses. `PROJECT.json` gives the hazards without a property
and the reason for each.

## 6. Plan

Done: cache, ring with its abstract specification, parser, feed handler, server,
latency tracker, tick loop, display and their composition; proofs of every
invariant and action property that a run checks, and of the refinement.

Left: the hazards without a property, first of all `reset_stats` against the
sequence check, for which `SequenceCheck` would have to be split into its loads
and stores. `Pipeline` takes over from `SymbolCache` that a snapshot which is not
left early is one whole state, and from `Parser` that messages are accepted once
and in order; both are proved there, and a refinement that substitutes the
detailed modules in the composition would make the connection formal.
