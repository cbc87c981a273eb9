--------------------------- MODULE LatencyTracker ---------------------------
(***************************************************************************)
(* LatencyTracker (include/common/latency_tracker.h,                       *)
(* src/common/latency_tracker.cpp): a histogram of latencies with their    *)
(* count, sum, minimum and maximum, all relaxed atomics.  Threads record   *)
(* samples, the main thread resets on `r', the display thread takes        *)
(* statistics and the main thread exports the histogram at the end.        *)
(*                                                                         *)
(* Every access to an atomic is a step.  The atomics are the cells of mem: *)
(* the buckets first, then the four scalars.  Accesses of one thread take  *)
(* effect in program order, as on x86-64.  Percentile targets are kept in  *)
(* thousandths, where the code multiplies doubles.                         *)
(***************************************************************************)
EXTENDS Naturals, Sequences, FiniteSets, FiniteSetsExt

CONSTANTS
    TIER_START_NS, TIER_STEP_NS, TIER_FIRST_IDX,  \* the bucket layout, by tier
    NUM_BUCKETS,
    UINT64_MAX,
    Recorders,   \* threads that call record
    Samples,     \* latencies they record
    MaxRecords,  \* bound: calls of record
    MaxResets    \* bound: calls of reset

Tiers == DOMAIN TIER_START_NS

\* What the tables must satisfy: tiers begin at 0 and at bucket 0, and each has
\* buckets up to the beginning of the next, the last of which may be cut short
\* by it (in the program's tables, the one that ends at 560384 is).
IsLayout(start, step, first, n) ==
    /\ n \in Nat /\ Len(start) > 0
    /\ start \in Seq(Nat) /\ start[1] = 0
    /\ step \in [DOMAIN start -> Nat \ {0}]
    /\ first \in [DOMAIN start -> Nat] /\ first[1] = 0
    /\ \A t \in DOMAIN start : first[t] < n
    /\ \A t, u \in DOMAIN start : t < u => first[t] < first[u]
    /\ \A t \in DOMAIN start : t + 1 \in DOMAIN start =>
         /\ start[t] + step[t] * (first[t + 1] - first[t] - 1) < start[t + 1]
         /\ start[t + 1] <= start[t] + step[t] * (first[t + 1] - first[t])

ASSUME LayoutAssumption ==
    IsLayout(TIER_START_NS, TIER_STEP_NS, TIER_FIRST_IDX, NUM_BUCKETS)
ASSUME SampleAssumption ==
    /\ UINT64_MAX \in Nat /\ Samples \subseteq 0 .. UINT64_MAX
    /\ IsFiniteSet(Recorders) /\ MaxRecords \in Nat /\ MaxResets \in Nat

\* The tables of the program.
REAL_START == <<0, 64, 1024, 8704, 70144, 560384>>
REAL_STEP  == <<1, 8, 64, 512, 4096, 32768>>
REAL_FIRST == <<0, 64, 184, 304, 424, 544>>

ASSUME RealLayout == IsLayout(REAL_START, REAL_STEP, REAL_FIRST, 608)

-----------------------------------------------------------------------------
(***************************************************************************)
(* The bucket layout.                                                      *)
(***************************************************************************)
Buckets == 0 .. NUM_BUCKETS - 1

\* The last tier that begins at or below x, in the table starts.
TierOf(starts, x) ==
    CHOOSE t \in Tiers : starts[t] <= x /\ \A u \in Tiers : u > t => x < starts[u]

\* bucket_for: the bucket a latency is counted in, the last one taking what is beyond.
bucket_for(ns) ==
    LET t   == TierOf(TIER_START_NS, ns)
        idx == TIER_FIRST_IDX[t] + (ns - TIER_START_NS[t]) \div TIER_STEP_NS[t]
    IN  IF idx >= NUM_BUCKETS THEN NUM_BUCKETS - 1 ELSE idx

bucket_to_ns(idx) ==
    LET t == TierOf(TIER_FIRST_IDX, idx)
    IN  TIER_START_NS[t] + (idx - TIER_FIRST_IDX[t]) * TIER_STEP_NS[t]

-----------------------------------------------------------------------------
Total == NUM_BUCKETS
Count == NUM_BUCKETS + 1
MinNs == NUM_BUCKETS + 2
MaxNs == NUM_BUCKETS + 3

Cells == 0 .. NUM_BUCKETS + 3

\* Mutant: the maximum starts like the minimum.
InitialHighMax(cell) == IF cell \in {MinNs, MaxNs} THEN UINT64_MAX ELSE 0

Initial(cell) == IF cell = MinNs THEN UINT64_MAX ELSE 0

VARIABLES
    mem,       \* mem[cell], the atomics
    rpc,       \* recorder: what it accesses next
    ns, cur,   \* recorder: the sample, and cur_min or cur_max
    zpos,      \* reset: number of cells stored, 0 when none is in progress
    spos,      \* get_stats: number of cells loaded, 0 when none is in progress
    seen,      \* get_stats: the values loaded
    resets,    \* calls of reset so far
    recorded,  \* calls of record so far
    log,       \* ghost: log[x], how often x was recorded since the last reset
    counted,   \* ghost: counted[i], how many samples of bucket i are in Count
    overlaps,  \* ghost: calls of record that overlapped the last reset
    base,      \* ghost: counted, when get_stats loaded Count
    clean      \* ghost: nothing get_stats loads was disturbed by a reset

recording == <<rpc, ns, cur, recorded>>
resetting == <<zpos, resets>>
stats     == <<spos, seen, base, clean>>
ghosts    == <<log, counted, overlaps>>
vars      == <<mem, recording, resetting, stats, ghosts>>

\* The order in which reset stores the cells, and get_stats loads them.
BucketSeq  == [i \in 1 .. NUM_BUCKETS |-> i - 1]

\* Mutant: the count is not reset.
ResetOrderNoCount == BucketSeq \o <<Total, MinNs, MaxNs>>

ResetOrder == BucketSeq \o <<Total, Count, MinNs, MaxNs>>

\* Mutant: the count is loaded after the buckets.
StatsOrderCountLast == <<MinNs, MaxNs, Total>> \o BucketSeq \o <<Count>>

StatsOrder == <<Count, MinNs, MaxNs, Total>> \o BucketSeq

TypeOK ==
    /\ mem \in [Cells -> Nat]
    /\ mem[MinNs] \in Samples \union {UINT64_MAX}
    /\ mem[MaxNs] \in Samples \union {0}
    /\ rpc \in [Recorders -> {"idle", "total", "count", "min", "cas_min", "max", "cas_max"}]
    /\ ns \in [Recorders -> 0 .. UINT64_MAX] /\ cur \in [Recorders -> 0 .. UINT64_MAX]
    /\ zpos \in 0 .. NUM_BUCKETS + 3 /\ resets \in 0 .. MaxResets
    /\ spos \in 0 .. NUM_BUCKETS + 4 /\ seen \in [Cells -> Nat]
    /\ recorded \in 0 .. MaxRecords
    /\ log \in [Samples -> Nat] /\ counted \in [Buckets -> Nat]
    /\ overlaps \in Nat /\ base \in [Buckets -> Nat] /\ clean \in BOOLEAN

Init ==
    /\ mem = [c \in Cells |-> Initial(c)]
    /\ rpc = [r \in Recorders |-> "idle"]
    /\ ns = [r \in Recorders |-> 0] /\ cur = [r \in Recorders |-> 0]
    /\ zpos = 0 /\ resets = 0
    /\ spos = 0 /\ seen = [c \in Cells |-> 0]
    /\ recorded = 0
    /\ log = [x \in Samples |-> 0] /\ counted = [i \in Buckets |-> 0]
    /\ overlaps = 0 /\ base = counted /\ clean = FALSE

-----------------------------------------------------------------------------
(***************************************************************************)
(* record.                                                                 *)
(***************************************************************************)
RecordBucket(r, x) ==
    /\ rpc[r] = "idle" /\ recorded < MaxRecords
    /\ ns' = [ns EXCEPT ![r] = x]
    /\ mem' = [mem EXCEPT ![bucket_for(x)] = @ + 1]
    /\ rpc' = [rpc EXCEPT ![r] = "total"]
    /\ recorded' = recorded + 1
    /\ log' = [log EXCEPT ![x] = @ + 1]
    /\ overlaps' = IF zpos = 0 THEN overlaps ELSE overlaps + 1
    /\ UNCHANGED <<cur, resetting, stats, counted>>

RecordTotal(r) ==
    /\ rpc[r] = "total"
    /\ mem' = [mem EXCEPT ![Total] = @ + ns[r]]
    /\ rpc' = [rpc EXCEPT ![r] = "count"]
    /\ UNCHANGED <<ns, cur, recorded, resetting, stats, ghosts>>

RecordCount(r) ==
    /\ rpc[r] = "count"
    /\ mem' = [mem EXCEPT ![Count] = @ + 1]
    /\ counted' = [counted EXCEPT ![bucket_for(ns[r])] = @ + 1]
    /\ rpc' = [rpc EXCEPT ![r] = "min"]
    /\ UNCHANGED <<ns, cur, recorded, resetting, stats, log, overlaps>>

\* After cur_min is known: ns < cur_min goes to the compare-and-swap.
MinKnown(r, m) ==
    /\ cur' = [cur EXCEPT ![r] = IF ns[r] < m THEN m ELSE 0]
    /\ rpc' = [rpc EXCEPT ![r] = IF ns[r] < m THEN "cas_min" ELSE "max"]

LoadMin(r) ==
    /\ rpc[r] = "min"
    /\ MinKnown(r, mem[MinNs])
    /\ UNCHANGED <<mem, ns, recorded, resetting, stats, ghosts>>

\* Mutant: a compare-and-swap that fails is not tried again.
CasMinOnce(r) ==
    /\ rpc[r] = "cas_min"
    /\ mem' = IF mem[MinNs] = cur[r] THEN [mem EXCEPT ![MinNs] = ns[r]] ELSE mem
    /\ cur' = [cur EXCEPT ![r] = 0]
    /\ rpc' = [rpc EXCEPT ![r] = "max"]
    /\ UNCHANGED <<ns, recorded, resetting, stats, ghosts>>

\* A failure reloads cur_min and tests it again; a spurious one is a stutter.
CasMin(r) ==
    /\ rpc[r] = "cas_min"
    /\ IF mem[MinNs] = cur[r]
         THEN /\ mem' = [mem EXCEPT ![MinNs] = ns[r]]
              /\ cur' = [cur EXCEPT ![r] = 0]
              /\ rpc' = [rpc EXCEPT ![r] = "max"]
         ELSE /\ MinKnown(r, mem[MinNs])
              /\ UNCHANGED mem
    /\ UNCHANGED <<ns, recorded, resetting, stats, ghosts>>

MaxKnown(r, m) ==
    /\ cur' = [cur EXCEPT ![r] = IF ns[r] > m THEN m ELSE 0]
    /\ rpc' = [rpc EXCEPT ![r] = IF ns[r] > m THEN "cas_max" ELSE "idle"]
    /\ ns' = [ns EXCEPT ![r] = IF ns[r] > m THEN @ ELSE 0]

LoadMax(r) ==
    /\ rpc[r] = "max"
    /\ MaxKnown(r, mem[MaxNs])
    /\ UNCHANGED <<mem, recorded, resetting, stats, ghosts>>

CasMax(r) ==
    /\ rpc[r] = "cas_max"
    /\ IF mem[MaxNs] = cur[r]
         THEN /\ mem' = [mem EXCEPT ![MaxNs] = ns[r]]
              /\ MaxKnown(r, ns[r])
         ELSE /\ MaxKnown(r, mem[MaxNs])
              /\ UNCHANGED mem
    /\ UNCHANGED <<recorded, resetting, stats, ghosts>>

-----------------------------------------------------------------------------
(***************************************************************************)
(* reset: one store per cell.                                              *)
(***************************************************************************)
Busy == {r \in Recorders : rpc[r] # "idle"}

ResetFirst ==
    /\ zpos = 0 /\ resets < MaxResets
    /\ mem' = [mem EXCEPT ![ResetOrder[1]] = Initial(ResetOrder[1])]
    /\ zpos' = 1
    /\ resets' = resets + 1
    /\ log' = [x \in Samples |-> 0] /\ counted' = [i \in Buckets |-> 0]
    /\ overlaps' = Cardinality(Busy)
    /\ clean' = FALSE
    /\ UNCHANGED <<recording, spos, seen, base>>

ResetNext ==
    /\ zpos > 0
    /\ LET c == ResetOrder[zpos + 1] IN mem' = [mem EXCEPT ![c] = Initial(c)]
    /\ zpos' = IF zpos + 1 = Len(ResetOrder) THEN 0 ELSE zpos + 1
    /\ UNCHANGED <<recording, resets, stats, ghosts>>

-----------------------------------------------------------------------------
(***************************************************************************)
(* get_stats: one load per cell.                                           *)
(***************************************************************************)

\* Without samples get_stats returns at once.
StatsFirst ==
    /\ spos = 0 /\ mem[Count] > 0
    /\ seen' = [seen EXCEPT ![StatsOrder[1]] = mem[StatsOrder[1]]]
    /\ spos' = 1
    /\ base' = counted
    /\ clean' = (zpos = 0 /\ overlaps = 0)
    /\ UNCHANGED <<mem, recording, resetting, ghosts>>

StatsNext ==
    /\ spos \in 1 .. Len(StatsOrder) - 1
    /\ LET c == StatsOrder[spos + 1] IN seen' = [seen EXCEPT ![c] = mem[c]]
    /\ spos' = spos + 1
    /\ UNCHANGED <<mem, recording, resetting, base, clean, ghosts>>

StatsReturn ==
    /\ spos = Len(StatsOrder)
    /\ seen' = [c \in Cells |-> 0]
    /\ spos' = 0
    /\ base' = [i \in Buckets |-> 0]
    /\ clean' = FALSE
    /\ UNCHANGED <<mem, recording, resetting, ghosts>>

SumOver(f, S) == MapThenSumSet(LAMBDA i : f[i], S)

\* p, in thousandths, of count samples lies in the first bucket with which the
\* buckets of h hold that many; when they never do, the loaded maximum is used.
Percentile(h, count, max, p) ==
    LET reached == {i \in Buckets : 1000 * SumOver(h, 0 .. i) >= p * count}
    IN  IF reached = {} THEN max ELSE bucket_to_ns(Min(reached))

pct_targets == <<500, 950, 990, 999>>

Reported(p) == Percentile(seen, seen[Count], seen[MaxNs], p)

-----------------------------------------------------------------------------
\* export_csv: the range a row of the file gives for bucket i.
CsvRow(i) ==
    [lower |-> bucket_to_ns(i),
     upper |-> IF i + 1 < NUM_BUCKETS THEN bucket_to_ns(i + 1) ELSE 2 * bucket_to_ns(i)]

-----------------------------------------------------------------------------
Record(r) ==
    \/ RecordTotal(r) \/ RecordCount(r) \/ LoadMin(r) \/ CasMin(r) \/ LoadMax(r)
    \/ CasMax(r)

Next ==
    \/ \E r \in Recorders : (\E x \in Samples : RecordBucket(r, x)) \/ Record(r)
    \/ ResetFirst \/ ResetNext
    \/ StatsFirst \/ StatsNext \/ StatsReturn

Spec == Init /\ [][Next]_vars

-----------------------------------------------------------------------------
(***************************************************************************)
(* Properties.                                                             *)
(***************************************************************************)
AtRest == Busy = {} /\ zpos = 0

Recorded == {x \in Samples : log[x] > 0}

\* The samples an exported row stands for; the last row takes all the rest,
\* whatever upper bound it prints.
RowSamples(i) ==
    {x \in Samples : CsvRow(i).lower <= x /\ (i + 1 < NUM_BUCKETS => x < CsvRow(i).upper)}

\* When no call is in progress and no record overlapped the last reset, the
\* exported rows, the count, the sum, the minimum and the maximum are exactly
\* those of the samples recorded since that reset, whatever order concurrent
\* records updated them in.
StatsExact ==
    AtRest /\ overlaps = 0 =>
        /\ \A i \in Buckets : mem[i] = SumOver(log, RowSamples(i))
        /\ mem[Count] = SumOver(log, Samples)
        /\ mem[Total] = SumOver([x \in Samples |-> x * log[x]], Samples)
        /\ mem[MinNs] = Min(Recorded \union {UINT64_MAX})
        /\ mem[MaxNs] = Max(Recorded \union {0})

\* A reset that runs into records leaves the count and the histogram apart, and
\* they stay so until the next reset, but by no more than one for each of them.
DriftBounded ==
    AtRest =>
        LET n == SumOver(mem, Buckets)
        IN  n <= mem[Count] + overlaps /\ mem[Count] <= n + overlaps

\* Statistics taken while samples are being recorded never overstate a
\* percentile: it is at most that of the samples counted when get_stats began,
\* and the percentiles are in order.
PercentilesNotOverstated ==
    spos = Len(StatsOrder) /\ clean =>
        /\ \A k \in DOMAIN pct_targets :
             Reported(pct_targets[k]) <=
               Percentile(base, SumOver(base, Buckets), UINT64_MAX, pct_targets[k])
        /\ \A k \in 1 .. 3 : Reported(pct_targets[k]) <= Reported(pct_targets[k + 1])
=============================================================================
