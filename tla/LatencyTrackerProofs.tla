------------------------ MODULE LatencyTrackerProofs ------------------------
(***************************************************************************)
(* Proofs about LatencyTracker: the bucket layout, for every well-formed   *)
(* table; type correctness; that histogram and count drift apart by no     *)
(* more than the records that overlapped a reset; that the statistics are  *)
(* exact when none did; and that percentiles taken meanwhile are not       *)
(* overstated.                                                             *)
(***************************************************************************)
EXTENDS LatencyTracker, FiniteSums, TLAPS

\* The types of the three tables.
LEMMA LayoutFacts ==
    /\ NUM_BUCKETS \in Nat
    /\ Len(TIER_START_NS) \in Nat \ {0} /\ Tiers = 1 .. Len(TIER_START_NS)
    /\ TIER_START_NS \in [Tiers -> Nat] /\ TIER_START_NS[1] = 0
    /\ TIER_STEP_NS \in [Tiers -> Nat \ {0}]
    /\ TIER_FIRST_IDX \in [Tiers -> Nat] /\ TIER_FIRST_IDX[1] = 0
BY LayoutAssumption DEF IsLayout, Tiers

\* A later tier begins at a later bucket.
LEMMA FirstGrows ==
    \A t, u \in Tiers : t < u => TIER_FIRST_IDX[t] < TIER_FIRST_IDX[u]
BY LayoutAssumption DEF IsLayout, Tiers

\* A table that begins at 0 has a last tier at or below every number, and the
\* loops of bucket_for and bucket_to_ns find it.
LEMMA TierFound ==
    ASSUME NEW starts \in [Tiers -> Nat], starts[1] = 0, NEW x \in Nat
    PROVE  /\ TierOf(starts, x) \in Tiers
           /\ starts[TierOf(starts, x)] <= x
           /\ \A u \in Tiers : u > TierOf(starts, x) => x < starts[u]
<1> DEFINE n    == Len(TIER_START_NS)
           Left == {n - t : t \in {u \in Tiers : starts[u] <= x}}
<1>1. Left \subseteq Nat /\ n - 1 \in Left
  BY LayoutFacts
<1>2. PICK m \in Left : \A k \in Left : m <= k
  BY <1>1, LeastElement
<1>3. PICK t \in Tiers : starts[t] <= x /\ m = n - t
  BY <1>2
<1>4. \A u \in Tiers : u > t => x < starts[u]
  <2> SUFFICES ASSUME NEW u \in Tiers, u > t, starts[u] <= x PROVE FALSE
    OBVIOUS
  <2>1. m <= n - u
    BY <1>2
  <2>2. QED
    BY <1>3, <2>1, LayoutFacts
<1>5. QED
  BY <1>3, <1>4 DEF TierOf

\* It is the only such tier.
LEMMA TierUnique ==
    ASSUME NEW starts \in [Tiers -> Nat], starts[1] = 0, NEW x \in Nat, NEW t \in Tiers,
           starts[t] <= x, \A u \in Tiers : u > t => x < starts[u]
    PROVE  TierOf(starts, x) = t
<1>1. PICK v \in Tiers : /\ v = TierOf(starts, x)
                         /\ starts[v] <= x
                         /\ \A u \in Tiers : u > v => x < starts[u]
  BY TierFound
<1>2. t \in Nat /\ v \in Nat /\ starts[t] \in Nat /\ starts[v] \in Nat
  BY LayoutFacts
<1>3. ~(v < t) /\ ~(t < v)
  BY <1>1, <1>2
<1>4. QED
  BY <1>1, <1>2, <1>3

\* Division by a positive step.
LEMMA DivBounds ==
    ASSUME NEW a \in Nat, NEW d \in Nat \ {0}
    PROVE  /\ a \div d \in Nat
           /\ d * (a \div d) <= a
           /\ a < d * (a \div d + 1)
OBVIOUS

\* bucket_for, without its clamp, stays in the tier of the latency, and
\* bucket_to_ns finds the same tier again for this bucket and the next one.
LEMMA SameTier ==
    ASSUME NEW x \in Nat, NEW t \in Tiers, t = TierOf(TIER_START_NS, x),
           NEW idx \in Nat,
           idx = TIER_FIRST_IDX[t] + (x - TIER_START_NS[t]) \div TIER_STEP_NS[t]
    PROVE  /\ \A u \in Tiers : u > t => idx < TIER_FIRST_IDX[u]
           /\ TIER_START_NS[t] + (idx - TIER_FIRST_IDX[t]) * TIER_STEP_NS[t] <= x
           /\ x < TIER_START_NS[t] + (idx + 1 - TIER_FIRST_IDX[t]) * TIER_STEP_NS[t]
<1> DEFINE s == TIER_START_NS[t]
           d == TIER_STEP_NS[t]
           f == TIER_FIRST_IDX[t]
           q == (x - s) \div d
<1>1. s \in Nat /\ d \in Nat \ {0} /\ f \in Nat /\ s <= x
      /\ \A u \in Tiers : u > t => x < TIER_START_NS[u]
  BY TierFound, LayoutFacts
<1>2. q \in Nat /\ d * q <= x - s /\ x - s < d * (q + 1) /\ idx = f + q
  <2>1. x - s \in Nat
    BY <1>1
  <2>2. \A a \in Nat, e \in Nat \ {0} :
          a \div e \in Nat /\ e * (a \div e) <= a /\ a < e * (a \div e + 1)
    BY DivBounds
  <2> HIDE DEF s, d, f
  <2>3. q \in Nat /\ d * q <= x - s /\ x - s < d * (q + 1)
    BY <1>1, <2>1, <2>2
  <2>4. QED
    BY <2>3 DEF s, d, f
<1>3. ASSUME NEW u \in Tiers, u > t PROVE idx < TIER_FIRST_IDX[u]
  <2> DEFINE w == TIER_FIRST_IDX[t + 1]
  <2>1. t + 1 \in Tiers /\ w \in Nat /\ f < w
    BY <1>3, LayoutFacts, LayoutAssumption, SMTT(30) DEF IsLayout, Tiers
  <2>2. x < TIER_START_NS[t + 1] /\ TIER_START_NS[t + 1] \in Nat
    BY <1>1, <2>1, LayoutFacts, SMTT(30)
  <2>3. TIER_START_NS[t + 1] <= s + d * (w - f)
    BY <2>1, LayoutAssumption DEF IsLayout, Tiers
  <2>4. d * q < d * (w - f)
    <3> HIDE DEF s, d, q, w, f
    <3>1. d * q \in Nat /\ d * (w - f) \in Nat
      BY <1>1, <1>2, <2>1
    <3>2. QED
      BY <1>1, <1>2, <2>2, <2>3, <3>1
  <2>5. q < w - f
    <3> HIDE DEF s, d, q, w, f
    <3> SUFFICES ASSUME w - f <= q PROVE FALSE
      BY <1>1, <1>2, <2>1
    <3>1. PICK k \in Nat : q = (w - f) + k
      BY <1>1, <1>2, <2>1
    <3>2. d * q = d * (w - f) + d * k /\ d * k \in Nat /\ d * (w - f) \in Nat
      BY <1>1, <2>1, <3>1
    <3>3. QED
      BY <2>4, <3>2
  <2>6. idx < w
    BY <1>1, <1>2, <2>1, <2>5
  <2>7. w <= TIER_FIRST_IDX[u] /\ TIER_FIRST_IDX[u] \in Nat
    <3>1. CASE u = t + 1
      BY <3>1, <2>1
    <3>2. CASE u # t + 1
      <4>1. t + 1 < u
        BY <1>3, <3>2, LayoutFacts
      <4>2. w < TIER_FIRST_IDX[u]
        BY <1>3, <2>1, <4>1, FirstGrows, Zenon
      <4>3. TIER_FIRST_IDX[u] \in Nat
        BY <1>3, LayoutFacts
      <4>4. QED
        BY <2>1, <4>2, <4>3
    <3>3. QED
      BY <3>1, <3>2
  <2>8. QED
    <3> HIDE DEF w
    <3>1. QED
      BY <2>1, <2>6, <2>7
<1>4. s + (idx - f) * d <= x /\ x < s + (idx + 1 - f) * d
  <2>1. idx - f = q /\ idx + 1 - f = q + 1
    BY <1>1, <1>2
  <2>2. QED
    BY <1>1, <1>2, <2>1
<1>5. QED
  BY <1>3, <1>4

\* Every latency is counted in a bucket of the histogram whose exported range
\* contains it; only the range of the overflow bucket is open above.
THEOREM SampleInItsRow ==
    \A x \in Nat :
        /\ bucket_for(x) \in Buckets
        /\ CsvRow(bucket_for(x)).lower <= x
        /\ bucket_for(x) + 1 < NUM_BUCKETS => x < CsvRow(bucket_for(x)).upper
<1> SUFFICES ASSUME NEW x \in Nat
             PROVE  /\ bucket_for(x) \in Buckets
                    /\ bucket_to_ns(bucket_for(x)) <= x
                    /\ bucket_for(x) + 1 < NUM_BUCKETS =>
                         x < bucket_to_ns(bucket_for(x) + 1)
  BY DEF CsvRow
<1>1. PICK t \in Tiers : t = TierOf(TIER_START_NS, x) /\ TIER_START_NS[t] <= x
                         /\ \A u \in Tiers : u > t => x < TIER_START_NS[u]
  BY TierFound, LayoutFacts
<1> DEFINE s   == TIER_START_NS[t]
           d   == TIER_STEP_NS[t]
           f   == TIER_FIRST_IDX[t]
           idx == f + (x - s) \div d
<1>2. s \in Nat /\ d \in Nat \ {0} /\ f \in Nat /\ f < NUM_BUCKETS /\ t \in Nat
      /\ NUM_BUCKETS \in Nat
  BY LayoutFacts, LayoutAssumption DEF IsLayout, Tiers
<1>3. idx \in Nat /\ f <= idx
  <2>1. x - s \in Nat
    BY <1>1, <1>2
  <2>2. (x - s) \div d \in Nat
    BY <1>2, <2>1, DivBounds
  <2>3. QED
    BY <1>2, <2>2
<1>4. /\ \A u \in Tiers : u > t => idx < TIER_FIRST_IDX[u]
      /\ s + (idx - f) * d <= x
      /\ x < s + (idx + 1 - f) * d
  BY <1>1, <1>3, SameTier
<1>5. bucket_for(x) = IF idx >= NUM_BUCKETS THEN NUM_BUCKETS - 1 ELSE idx
  BY <1>1 DEF bucket_for
<1>6. ASSUME NEW b \in Nat, f <= b, \A u \in Tiers : u > t => b < TIER_FIRST_IDX[u]
      PROVE  bucket_to_ns(b) = s + (b - f) * d
  <2>1. TierOf(TIER_FIRST_IDX, b) = t
    BY <1>6, TierUnique, LayoutFacts
  <2>2. QED
    BY <2>1 DEF bucket_to_ns
<1> HIDE DEF s, d, f, idx
<1>7. CASE idx >= NUM_BUCKETS
  <2> DEFINE b == NUM_BUCKETS - 1
  <2>1. b \in Nat /\ f <= b /\ b <= idx /\ b \in Buckets /\ bucket_for(x) = b
    BY <1>2, <1>3, <1>5, <1>7 DEF Buckets
  <2>2. \A u \in Tiers : ~(u > t)
    <3> SUFFICES ASSUME NEW u \in Tiers, u > t PROVE FALSE
      OBVIOUS
    <3>1. TIER_FIRST_IDX[u] < NUM_BUCKETS /\ TIER_FIRST_IDX[u] \in Nat
      BY LayoutFacts, LayoutAssumption DEF IsLayout, Tiers
    <3>2. QED
      BY <1>2, <1>3, <1>4, <1>7, <3>1
  <2>3. bucket_to_ns(b) = s + (b - f) * d
    BY <1>6, <2>1, <2>2
  <2>4. (b - f) * d <= (idx - f) * d
    <3> HIDE DEF b
    <3>1. PICK k \in Nat : idx - f = (b - f) + k
      BY <1>2, <1>3, <2>1
    <3>2. (idx - f) * d = (b - f) * d + k * d /\ k * d \in Nat
      BY <1>2, <2>1, <3>1
    <3>3. QED
      BY <1>2, <2>1, <3>2
  <2>5. bucket_to_ns(b) <= x
    <3> HIDE DEF b
    <3>1. (b - f) * d \in Nat /\ (idx - f) * d \in Nat
      BY <1>2, <1>3, <2>1
    <3>2. QED
      BY <1>2, <1>4, <2>3, <2>4, <3>1
  <2>6. QED
    BY <1>2, <2>1, <2>5
<1>8. CASE idx < NUM_BUCKETS
  <2>1. bucket_for(x) = idx /\ idx \in Buckets
    BY <1>2, <1>3, <1>5, <1>8 DEF Buckets
  <2>2. bucket_to_ns(idx) <= x
    BY <1>3, <1>4, <1>6
  <2>3. ASSUME idx + 1 < NUM_BUCKETS PROVE x < bucket_to_ns(idx + 1)
    <3>1. CASE \A u \in Tiers : u > t => idx + 1 < TIER_FIRST_IDX[u]
      BY <1>2, <1>3, <1>4, <1>6, <3>1
    <3>2. CASE ~ \A u \in Tiers : u > t => idx + 1 < TIER_FIRST_IDX[u]
      <4>1. PICK u \in Tiers : u > t /\ ~(idx + 1 < TIER_FIRST_IDX[u])
        BY <3>2
      <4>2. t + 1 \in Tiers /\ t + 1 <= u
        BY <1>2, <4>1, LayoutFacts
      <4>3. /\ TIER_FIRST_IDX[u] \in Nat /\ TIER_FIRST_IDX[t + 1] \in Nat
            /\ TIER_FIRST_IDX[t + 1] <= TIER_FIRST_IDX[u]
        BY <1>2, <4>2, FirstGrows, LayoutFacts
      <4>4. idx < TIER_FIRST_IDX[t + 1]
        BY <1>2, <1>4, <4>2
      <4>5. idx + 1 = TIER_FIRST_IDX[t + 1]
        BY <1>3, <4>1, <4>3, <4>4
      <4>6. \A v \in Tiers : v > t + 1 => idx + 1 < TIER_FIRST_IDX[v]
        BY <4>2, <4>5, FirstGrows
      <4>7. TierOf(TIER_FIRST_IDX, idx + 1) = t + 1
        <5>1. /\ TIER_FIRST_IDX \in [Tiers -> Nat] /\ TIER_FIRST_IDX[1] = 0
              /\ idx + 1 \in Nat /\ TIER_FIRST_IDX[t + 1] <= idx + 1
          BY <1>3, <4>5, LayoutFacts
        <5>2. QED
          BY <4>2, <4>6, <5>1, TierUnique
      <4>8. bucket_to_ns(idx + 1) = TIER_START_NS[t + 1]
        <5>1. TIER_START_NS[t + 1] \in Nat /\ TIER_STEP_NS[t + 1] \in Nat
          BY <4>2, LayoutFacts
        <5>2. bucket_to_ns(idx + 1) = TIER_START_NS[t + 1] + 0 * TIER_STEP_NS[t + 1]
          BY <1>3, <4>5, <4>7 DEF bucket_to_ns
        <5>3. QED
          BY <5>1, <5>2
      <4>9. QED
        BY <1>1, <1>2, <4>2, <4>8
    <3>3. QED
      BY <3>1, <3>2
  <2>4. QED
    BY <2>1, <2>2, <2>3
<1>9. QED
  BY <1>2, <1>3, <1>7, <1>8

-----------------------------------------------------------------------------
(***************************************************************************)
(* The cells, and the orders in which they are stored and loaded.          *)
(***************************************************************************)

LEMMA CellFacts ==
    /\ NUM_BUCKETS \in Nat /\ NUM_BUCKETS > 0 /\ Buckets = 0 .. NUM_BUCKETS - 1
    /\ Buckets \subseteq Cells /\ IsFiniteSet(Buckets) /\ Buckets \subseteq Nat
    /\ {Total, Count, MinNs, MaxNs} \subseteq Cells
    /\ Total \notin Buckets /\ Count \notin Buckets /\ MinNs \notin Buckets /\ MaxNs \notin Buckets
    /\ Total # Count /\ Total # MinNs /\ Total # MaxNs
    /\ Count # MinNs /\ Count # MaxNs /\ MinNs # MaxNs
    /\ Cells = Buckets \union {Total, Count, MinNs, MaxNs}
<1>1. NUM_BUCKETS \in Nat /\ NUM_BUCKETS > 0
  <2>1. 1 \in DOMAIN TIER_START_NS
    BY LayoutFacts DEF Tiers
  <2>2. TIER_FIRST_IDX[1] < NUM_BUCKETS /\ TIER_FIRST_IDX[1] = 0 /\ NUM_BUCKETS \in Nat
    BY <2>1, LayoutAssumption DEF IsLayout
  <2>3. QED
    BY <2>2
<1>2. IsFiniteSet(0 .. NUM_BUCKETS - 1)
  BY <1>1, FS_Interval
<1>3. QED
  BY <1>1, <1>2 DEF Buckets, Cells, Total, Count, MinNs, MaxNs

LEMMA SampleFacts ==
    /\ UINT64_MAX \in Nat /\ Samples \subseteq 0 .. UINT64_MAX /\ Samples \subseteq Nat
    /\ IsFiniteSet(Samples) /\ IsFiniteSet(Recorders)
    /\ \A x \in Samples : bucket_for(x) \in Buckets
<1>1. UINT64_MAX \in Nat /\ Samples \subseteq 0 .. UINT64_MAX /\ IsFiniteSet(Recorders)
  BY SampleAssumption
<1>2. IsFiniteSet(0 .. UINT64_MAX)
  BY <1>1, FS_Interval
<1>3. IsFiniteSet(Samples)
  BY <1>1, <1>2, FS_Subset
<1>4. Samples \subseteq Nat
  BY <1>1
<1>5. QED
  BY <1>1, <1>3, <1>4, SampleInItsRow

LEMMA ConcatFacts ==
    ASSUME NEW s \in Seq(Nat), NEW t \in Seq(Nat)
    PROVE  /\ Len(s \o t) = Len(s) + Len(t)
           /\ \A k \in 1 .. Len(s) : (s \o t)[k] = s[k]
           /\ \A k \in 1 .. Len(t) : (s \o t)[Len(s) + k] = t[k]
OBVIOUS

LEMMA ResetOrderFacts ==
    /\ Len(ResetOrder) = NUM_BUCKETS + 4
    /\ \A k \in 1 .. NUM_BUCKETS : ResetOrder[k] = k - 1
    /\ ResetOrder[NUM_BUCKETS + 1] = Total /\ ResetOrder[NUM_BUCKETS + 2] = Count
    /\ ResetOrder[NUM_BUCKETS + 3] = MinNs /\ ResetOrder[NUM_BUCKETS + 4] = MaxNs
    /\ \A k \in 1 .. NUM_BUCKETS + 4 : ResetOrder[k] \in Cells
<1>1. BucketSeq \in Seq(Nat) /\ Len(BucketSeq) = NUM_BUCKETS
  BY CellFacts DEF BucketSeq
<1>2. \A k \in 1 .. NUM_BUCKETS : BucketSeq[k] = k - 1
  BY DEF BucketSeq
<1> DEFINE T == <<Total, Count, MinNs, MaxNs>>
<1>3. T \in Seq(Nat) /\ Len(T) = 4 /\ T[1] = Total /\ T[2] = Count /\ T[3] = MinNs /\ T[4] = MaxNs
  BY CellFacts DEF Total, Count, MinNs, MaxNs
<1>4. ResetOrder = BucketSeq \o T
  BY DEF ResetOrder
<1> HIDE DEF T
<1>5. /\ Len(ResetOrder) = NUM_BUCKETS + 4
      /\ \A k \in 1 .. NUM_BUCKETS : ResetOrder[k] = BucketSeq[k]
      /\ ResetOrder[NUM_BUCKETS + 1] = T[1] /\ ResetOrder[NUM_BUCKETS + 2] = T[2]
      /\ ResetOrder[NUM_BUCKETS + 3] = T[3] /\ ResetOrder[NUM_BUCKETS + 4] = T[4]
  <2>1. /\ Len(ResetOrder) = Len(BucketSeq) + Len(T)
        /\ \A k \in 1 .. Len(BucketSeq) : ResetOrder[k] = BucketSeq[k]
        /\ \A k \in 1 .. Len(T) : ResetOrder[Len(BucketSeq) + k] = T[k]
    BY <1>1, <1>3, <1>4, ConcatFacts
  <2>2. 1 \in 1 .. 4 /\ 2 \in 1 .. 4 /\ 3 \in 1 .. 4 /\ 4 \in 1 .. 4
    OBVIOUS
  <2>3. QED
    BY <1>1, <1>3, <2>1, <2>2, Zenon
<1>6. \A k \in 1 .. NUM_BUCKETS + 4 : ResetOrder[k] \in Cells
  <2>1. ASSUME NEW k \in 1 .. NUM_BUCKETS + 4 PROVE ResetOrder[k] \in Cells
    <3>1. CASE k \in 1 .. NUM_BUCKETS
      BY <1>2, <1>5, <3>1, CellFacts
    <3>2. CASE k \notin 1 .. NUM_BUCKETS
      <4>1. k \in {NUM_BUCKETS + 1, NUM_BUCKETS + 2, NUM_BUCKETS + 3, NUM_BUCKETS + 4}
        BY <3>2, CellFacts
      <4>2. QED
        BY <1>3, <1>5, <4>1, CellFacts
    <3>3. QED
      BY <3>1, <3>2
  <2>2. QED
    BY <2>1
<1>7. QED
  BY <1>2, <1>3, <1>5, <1>6

LEMMA StatsOrderFacts ==
    /\ Len(StatsOrder) = NUM_BUCKETS + 4
    /\ StatsOrder[1] = Count /\ StatsOrder[2] = MinNs /\ StatsOrder[3] = MaxNs
    /\ StatsOrder[4] = Total
    /\ \A k \in 1 .. NUM_BUCKETS : StatsOrder[k + 4] = k - 1
    /\ \A k \in 1 .. NUM_BUCKETS + 4 : StatsOrder[k] \in Cells
<1>1. BucketSeq \in Seq(Nat) /\ Len(BucketSeq) = NUM_BUCKETS
  BY CellFacts DEF BucketSeq
<1>2. \A k \in 1 .. NUM_BUCKETS : BucketSeq[k] = k - 1
  BY DEF BucketSeq
<1> DEFINE T == <<Count, MinNs, MaxNs, Total>>
<1>3. T \in Seq(Nat) /\ Len(T) = 4 /\ T[1] = Count /\ T[2] = MinNs /\ T[3] = MaxNs /\ T[4] = Total
  BY CellFacts DEF Total, Count, MinNs, MaxNs
<1>4. StatsOrder = T \o BucketSeq
  BY DEF StatsOrder
<1> HIDE DEF T
<1>5. /\ Len(StatsOrder) = NUM_BUCKETS + 4
      /\ \A k \in 1 .. NUM_BUCKETS : StatsOrder[k + 4] = BucketSeq[k]
      /\ StatsOrder[1] = T[1] /\ StatsOrder[2] = T[2]
      /\ StatsOrder[3] = T[3] /\ StatsOrder[4] = T[4]
  <2>1. /\ Len(StatsOrder) = Len(T) + Len(BucketSeq)
        /\ \A k \in 1 .. Len(T) : StatsOrder[k] = T[k]
        /\ \A k \in 1 .. Len(BucketSeq) : StatsOrder[Len(T) + k] = BucketSeq[k]
    BY <1>1, <1>3, <1>4, ConcatFacts
  <2>2. /\ 1 \in 1 .. 4 /\ 2 \in 1 .. 4 /\ 3 \in 1 .. 4 /\ 4 \in 1 .. 4
        /\ 4 + NUM_BUCKETS = NUM_BUCKETS + 4
        /\ \A k \in 1 .. NUM_BUCKETS : 4 + k = k + 4
    BY CellFacts
  <2>3. \A k \in 1 .. NUM_BUCKETS : StatsOrder[4 + k] = BucketSeq[k]
    BY <1>1, <1>3, <2>1, Zenon
  <2>4. QED
    BY <1>1, <1>3, <2>1, <2>2, <2>3, Zenon
<1>6. \A k \in 1 .. NUM_BUCKETS + 4 : StatsOrder[k] \in Cells
  <2>1. ASSUME NEW k \in 1 .. NUM_BUCKETS + 4 PROVE StatsOrder[k] \in Cells
    <3>1. CASE k \in 1 .. 4
      <4>1. k = 1 \/ k = 2 \/ k = 3 \/ k = 4
        BY <3>1
      <4>2. QED
        BY <1>3, <1>5, <4>1, CellFacts
    <3>2. CASE k \notin 1 .. 4
      <4>1. k - 4 \in 1 .. NUM_BUCKETS /\ (k - 4) + 4 = k
        BY <3>2, CellFacts
      <4>2. StatsOrder[k] = (k - 4) - 1
        BY <1>2, <1>5, <4>1
      <4>3. QED
        BY <4>1, <4>2, CellFacts
    <3>3. QED
      BY <3>1, <3>2
  <2>2. QED
    BY <2>1
<1>7. QED
  BY <1>2, <1>3, <1>5, <1>6

LEMMA InitialFacts ==
    /\ \A c \in Cells : Initial(c) \in Nat
    /\ \A i \in Buckets : Initial(i) = 0
    /\ Initial(Total) = 0 /\ Initial(Count) = 0
    /\ Initial(MinNs) = UINT64_MAX /\ Initial(MaxNs) = 0
BY CellFacts, SampleFacts DEF Initial

\* A cell is stored.
LEMMA Stored ==
    ASSUME mem \in [Cells -> Nat], NEW c \in Cells, NEW v \in Nat,
           mem' = [mem EXCEPT ![c] = v]
    PROVE  /\ mem' \in [Cells -> Nat] /\ mem'[c] = v
           /\ \A d \in Cells : d # c => mem'[d] = mem[d]
OBVIOUS

-----------------------------------------------------------------------------
(***************************************************************************)
(* Type correctness.                                                       *)
(***************************************************************************)

\* A recorder at work has a sample, and knows why it goes to its exchange.
SampleInv ==
    \A r \in Recorders :
        /\ rpc[r] # "idle" => ns[r] \in Samples
        /\ rpc[r] = "cas_min" => ns[r] < cur[r]
        /\ rpc[r] = "cas_max" => cur[r] < ns[r]

LEMMA TypeInit == Init => TypeOK /\ SampleInv
<1> SUFFICES ASSUME Init PROVE TypeOK /\ SampleInv
  OBVIOUS
<1>1. mem \in [Cells -> Nat]
  BY InitialFacts DEF Init
<1>2. mem[MinNs] = UINT64_MAX /\ mem[MaxNs] = 0
  BY CellFacts, InitialFacts DEF Init
<1>3. clean \in BOOLEAN
  BY Zenon DEF Init
<1>4. /\ rpc \in [Recorders -> {"idle", "total", "count", "min", "cas_min", "max", "cas_max"}]
      /\ ns \in [Recorders -> 0 .. UINT64_MAX] /\ cur \in [Recorders -> 0 .. UINT64_MAX]
  BY SampleFacts DEF Init
<1>5. /\ zpos \in 0 .. NUM_BUCKETS + 3 /\ resets \in 0 .. MaxResets
      /\ spos \in 0 .. NUM_BUCKETS + 4 /\ recorded \in 0 .. MaxRecords
  BY CellFacts, SampleAssumption DEF Init
<1>6. /\ seen \in [Cells -> Nat] /\ log \in [Samples -> Nat] /\ counted \in [Buckets -> Nat]
      /\ overlaps \in Nat /\ base \in [Buckets -> Nat]
  BY DEF Init
<1>7. SampleInv
  BY DEF Init, SampleInv
<1>8. QED
  BY <1>1, <1>2, <1>3, <1>4, <1>5, <1>6, <1>7 DEF TypeOK

\* The effect of MinKnown and MaxKnown.
LEMMA MinKnownTypes ==
    ASSUME TypeOK, SampleInv, NEW r \in Recorders, rpc[r] # "idle",
           NEW m \in 0 .. UINT64_MAX, MinKnown(r, m), UNCHANGED ns
    PROVE  /\ rpc' \in [Recorders -> {"idle", "total", "count", "min", "cas_min", "max", "cas_max"}]
           /\ cur' \in [Recorders -> 0 .. UINT64_MAX]
           /\ SampleInv'
<1>1. ns[r] \in Nat /\ m \in Nat
  BY SampleFacts DEF TypeOK
<1>2. /\ cur' \in [Recorders -> 0 .. UINT64_MAX]
      /\ rpc' \in [Recorders -> {"idle", "total", "count", "min", "cas_min", "max", "cas_max"}]
  BY SampleFacts DEF TypeOK, MinKnown
<1>3. /\ \A q \in Recorders : q # r => rpc'[q] = rpc[q] /\ cur'[q] = cur[q]
      /\ cur'[r] = IF ns[r] < m THEN m ELSE 0
      /\ rpc'[r] = IF ns[r] < m THEN "cas_min" ELSE "max"
  BY DEF TypeOK, MinKnown
<1>4. SampleInv'
  BY <1>3 DEF SampleInv
<1>5. QED
  BY <1>2, <1>4

LEMMA MaxKnownTypes ==
    ASSUME TypeOK, SampleInv, NEW r \in Recorders, rpc[r] # "idle",
           NEW m \in 0 .. UINT64_MAX, MaxKnown(r, m)
    PROVE  /\ rpc' \in [Recorders -> {"idle", "total", "count", "min", "cas_min", "max", "cas_max"}]
           /\ cur' \in [Recorders -> 0 .. UINT64_MAX] /\ ns' \in [Recorders -> 0 .. UINT64_MAX]
           /\ SampleInv'
<1>1. ns[r] \in Nat /\ m \in Nat
  BY SampleFacts DEF TypeOK
<1>2. /\ cur' \in [Recorders -> 0 .. UINT64_MAX] /\ ns' \in [Recorders -> 0 .. UINT64_MAX]
      /\ rpc' \in [Recorders -> {"idle", "total", "count", "min", "cas_min", "max", "cas_max"}]
  BY SampleFacts DEF TypeOK, MaxKnown
<1>3. /\ \A q \in Recorders : q # r => rpc'[q] = rpc[q] /\ cur'[q] = cur[q] /\ ns'[q] = ns[q]
      /\ cur'[r] = IF ns[r] > m THEN m ELSE 0
      /\ rpc'[r] = IF ns[r] > m THEN "cas_max" ELSE "idle"
      /\ ns'[r] = IF ns[r] > m THEN ns[r] ELSE 0
  BY DEF TypeOK, MaxKnown
<1>4. SampleInv'
  BY <1>1, <1>3 DEF SampleInv
<1>5. QED
  BY <1>2, <1>4

LEMMA BusyFacts ==
    IsFiniteSet(Busy) /\ Cardinality(Busy) \in Nat /\ Busy \subseteq Recorders
<1>1. Busy \subseteq Recorders
  BY DEF Busy
<1>2. QED
  BY <1>1, SampleFacts, FS_Subset, FS_CardinalityType

LEMMA TypeStep == TypeOK /\ SampleInv /\ [Next]_vars => TypeOK' /\ SampleInv'
<1> SUFFICES ASSUME TypeOK, SampleInv, [Next]_vars PROVE TypeOK' /\ SampleInv'
  OBVIOUS
<1>1. /\ mem \in [Cells -> Nat] /\ mem[MinNs] \in 0 .. UINT64_MAX /\ mem[MaxNs] \in 0 .. UINT64_MAX
  <2>1. mem \in [Cells -> Nat] /\ mem[MinNs] \in Samples \union {UINT64_MAX} /\ mem[MaxNs] \in Samples \union {0}
    BY DEF TypeOK
  <2>2. Samples \subseteq 0 .. UINT64_MAX /\ UINT64_MAX \in 0 .. UINT64_MAX /\ 0 \in 0 .. UINT64_MAX
    BY SampleAssumption
  <2>3. QED
    BY <2>1, <2>2, Zenon
<1>2. ASSUME NEW r \in Recorders, NEW x \in Samples, RecordBucket(r, x)
      PROVE  TypeOK' /\ SampleInv'
  <2> DEFINE i == bucket_for(x)
  <2>1. i \in Buckets /\ i \in Cells /\ i # MinNs /\ i # MaxNs
    BY SampleFacts, CellFacts
  <2> HIDE DEF i
  <2>2. mem' = [mem EXCEPT ![i] = mem[i] + 1] /\ mem[i] + 1 \in Nat
    BY <1>1, <1>2, <2>1 DEF RecordBucket, i
  <2>3. /\ mem' \in [Cells -> Nat] /\ mem'[MinNs] = mem[MinNs] /\ mem'[MaxNs] = mem[MaxNs]
    BY <1>1, <2>1, <2>2, Stored, CellFacts
  <2>4. /\ ns' \in [Recorders -> 0 .. UINT64_MAX] /\ UNCHANGED <<cur, zpos, resets, spos, seen, base,
                                                                 clean, counted>>
        /\ rpc' \in [Recorders -> {"idle", "total", "count", "min", "cas_min", "max", "cas_max"}]
        /\ recorded' \in 0 .. MaxRecords /\ log' \in [Samples -> Nat] /\ overlaps' \in Nat
    BY <1>2, SampleFacts, SampleAssumption DEF TypeOK, RecordBucket, resetting, stats
  <2>5. SampleInv'
    BY <1>2 DEF SampleInv, RecordBucket, TypeOK
  <2>6. QED
    BY <2>3, <2>4, <2>5 DEF TypeOK
<1>3. ASSUME NEW r \in Recorders, RecordTotal(r) \/ RecordCount(r)
      PROVE  TypeOK' /\ SampleInv'
  <2>1. rpc[r] # "idle" /\ ns[r] \in Samples /\ ns[r] \in Nat /\ bucket_for(ns[r]) \in Buckets
    BY <1>3, SampleFacts DEF SampleInv, RecordTotal, RecordCount
  <2>2. PICK c \in {Total, Count}, v \in Nat : mem' = [mem EXCEPT ![c] = v]
    <3>1. CASE RecordTotal(r)
      <4>1. mem' = [mem EXCEPT ![Total] = mem[Total] + ns[r]] /\ mem[Total] + ns[r] \in Nat
        BY <1>1, <2>1, <3>1, CellFacts DEF RecordTotal
      <4>2. QED
        BY <4>1
    <3>2. CASE RecordCount(r)
      <4>1. mem' = [mem EXCEPT ![Count] = mem[Count] + 1] /\ mem[Count] + 1 \in Nat
        BY <1>1, <2>1, <3>2, CellFacts DEF RecordCount
      <4>2. QED
        BY <4>1
    <3>3. QED
      BY <1>3, <3>1, <3>2
  <2>3. /\ mem' \in [Cells -> Nat] /\ mem'[MinNs] = mem[MinNs] /\ mem'[MaxNs] = mem[MaxNs]
    BY <1>1, <2>2, Stored, CellFacts
  <2>4. /\ UNCHANGED <<ns, cur, recorded, zpos, resets, spos, seen, base, clean, log, overlaps>>
        /\ rpc' \in [Recorders -> {"idle", "total", "count", "min", "cas_min", "max", "cas_max"}]
        /\ counted' \in [Buckets -> Nat]
    <3>1. CASE RecordTotal(r)
      BY <3>1 DEF TypeOK, RecordTotal, resetting, stats, ghosts
    <3>2. CASE RecordCount(r)
      BY <2>1, <3>2 DEF TypeOK, RecordCount, resetting, stats
    <3>3. QED
      BY <1>3, <3>1, <3>2
  <2>5. SampleInv'
    BY <1>3, <2>4 DEF SampleInv, RecordTotal, RecordCount, TypeOK
  <2>6. QED
    BY <2>3, <2>4, <2>5 DEF TypeOK
<1>4. ASSUME NEW r \in Recorders, LoadMin(r) \/ CasMin(r)
      PROVE  TypeOK' /\ SampleInv'
  <2>1. rpc[r] # "idle" /\ ns[r] \in Samples /\ ns[r] \in Nat
    BY <1>4, SampleFacts DEF SampleInv, LoadMin, CasMin
  <2>2. UNCHANGED <<ns, recorded, zpos, resets, spos, seen, base, clean, log, counted, overlaps>>
    BY <1>4 DEF LoadMin, CasMin, resetting, stats, ghosts
  <2>3. CASE MinKnown(r, mem[MinNs]) /\ UNCHANGED mem
    BY <1>1, <2>1, <2>2, <2>3, MinKnownTypes DEF TypeOK
  <2>4. CASE /\ mem' = [mem EXCEPT ![MinNs] = ns[r]] /\ cur' = [cur EXCEPT ![r] = 0]
             /\ rpc' = [rpc EXCEPT ![r] = "max"]
    <3>1. /\ mem' \in [Cells -> Nat] /\ mem'[MinNs] = ns[r] /\ mem'[MaxNs] = mem[MaxNs]
      BY <1>1, <2>1, <2>4, Stored, CellFacts
    <3>2. /\ cur' \in [Recorders -> 0 .. UINT64_MAX]
          /\ rpc' \in [Recorders -> {"idle", "total", "count", "min", "cas_min", "max", "cas_max"}]
      BY <2>4, SampleFacts DEF TypeOK
    <3>3. SampleInv'
      BY <2>1, <2>2, <2>4 DEF SampleInv, TypeOK
    <3>4. QED
      BY <2>1, <2>2, <3>1, <3>2, <3>3 DEF TypeOK
  <2>5. QED
    BY <1>4, <2>3, <2>4 DEF LoadMin, CasMin
<1>5. ASSUME NEW r \in Recorders, LoadMax(r) \/ CasMax(r)
      PROVE  TypeOK' /\ SampleInv'
  <2>1. rpc[r] # "idle" /\ ns[r] \in Samples /\ ns[r] \in 0 .. UINT64_MAX /\ ns[r] \in Nat
    BY <1>5, SampleFacts DEF SampleInv, LoadMax, CasMax
  <2>2. UNCHANGED <<recorded, zpos, resets, spos, seen, base, clean, log, counted, overlaps>>
    BY <1>5 DEF LoadMax, CasMax, resetting, stats, ghosts
  <2>3. CASE MaxKnown(r, mem[MaxNs]) /\ UNCHANGED mem
    BY <1>1, <2>1, <2>2, <2>3, MaxKnownTypes DEF TypeOK
  <2>4. CASE mem' = [mem EXCEPT ![MaxNs] = ns[r]] /\ MaxKnown(r, ns[r])
    <3>1. /\ mem' \in [Cells -> Nat] /\ mem'[MaxNs] = ns[r] /\ mem'[MinNs] = mem[MinNs]
      BY <1>1, <2>1, <2>4, Stored, CellFacts
    <3>2. QED
      BY <2>1, <2>2, <2>4, <3>1, MaxKnownTypes DEF TypeOK
  <2>5. QED
    BY <1>5, <2>3, <2>4 DEF LoadMax, CasMax
<1>6. CASE ResetFirst \/ ResetNext
  <2>1. PICK k \in 1 .. NUM_BUCKETS + 4 :
          mem' = [mem EXCEPT ![ResetOrder[k]] = Initial(ResetOrder[k])]
    <3>1. 1 \in 1 .. NUM_BUCKETS + 4 /\ (zpos > 0 => zpos + 1 \in 1 .. NUM_BUCKETS + 4)
      BY CellFacts DEF TypeOK
    <3>2. QED
      BY <1>6, <3>1 DEF ResetFirst, ResetNext
  <2>2. ResetOrder[k] \in Cells /\ Initial(ResetOrder[k]) \in Nat
    BY ResetOrderFacts, InitialFacts
  <2>3. /\ mem' \in [Cells -> Nat] /\ mem'[ResetOrder[k]] = Initial(ResetOrder[k])
        /\ \A d \in Cells : d # ResetOrder[k] => mem'[d] = mem[d]
    BY <1>1, <2>1, <2>2, Stored
  <2>4. /\ mem'[MinNs] \in Samples \union {UINT64_MAX}
        /\ mem'[MaxNs] \in Samples \union {0}
    BY <2>3, CellFacts, InitialFacts DEF TypeOK
  <2>5. clean' \in BOOLEAN
    BY <1>6, Zenon DEF TypeOK, ResetFirst, ResetNext, stats
  <2>6. zpos' \in 0 .. NUM_BUCKETS + 3 /\ resets' \in 0 .. MaxResets
    <3>1. NUM_BUCKETS \in Nat /\ Len(ResetOrder) = NUM_BUCKETS + 4 /\ MaxResets \in Nat
      BY CellFacts, ResetOrderFacts, SampleAssumption
    <3>2. zpos \in 0 .. NUM_BUCKETS + 3 /\ resets \in 0 .. MaxResets
      BY DEF TypeOK
    <3>3. CASE ResetFirst
      <4>1. zpos' = 1 /\ resets' = resets + 1 /\ resets < MaxResets
        BY <3>3 DEF ResetFirst
      <4>2. QED
        BY <3>1, <3>2, <4>1
    <3>4. CASE ResetNext
      <4>1. zpos > 0 /\ zpos' = (IF zpos + 1 = Len(ResetOrder) THEN 0 ELSE zpos + 1) /\ resets' = resets
        BY <3>4 DEF ResetNext
      <4>2. QED
        BY <3>1, <3>2, <4>1
    <3>5. QED
      BY <1>6, <3>3, <3>4
  <2>7. /\ log' \in [Samples -> Nat] /\ counted' \in [Buckets -> Nat] /\ overlaps' \in Nat
    <3>1. CASE ResetFirst
      <4>1. /\ log' = [x \in Samples |-> 0] /\ counted' = [i \in Buckets |-> 0]
            /\ overlaps' = Cardinality(Busy)
        BY <3>1 DEF ResetFirst
      <4>2. QED
        BY <4>1, BusyFacts
    <3>2. CASE ResetNext
      <4>1. log' = log /\ counted' = counted /\ overlaps' = overlaps
        BY <3>2 DEF ResetNext, ghosts
      <4>2. QED
        BY <4>1 DEF TypeOK
    <3>3. QED
      BY <1>6, <3>1, <3>2
  <2>8. UNCHANGED <<rpc, ns, cur, recorded, spos, seen, base>>
    BY <1>6 DEF ResetFirst, ResetNext, recording, stats
  <2>9. SampleInv'
    BY <2>8 DEF SampleInv
  <2>10. QED
    BY <2>3, <2>4, <2>5, <2>6, <2>7, <2>8, <2>9 DEF TypeOK
<1>7. CASE StatsFirst \/ StatsNext \/ StatsReturn
  <2>1. clean' \in BOOLEAN
    BY <1>7, Zenon DEF TypeOK, StatsFirst, StatsNext, StatsReturn
  <2>2. spos' \in 0 .. NUM_BUCKETS + 4
    <3>1. NUM_BUCKETS \in Nat /\ Len(StatsOrder) = NUM_BUCKETS + 4
      BY CellFacts, StatsOrderFacts
    <3>2. spos' \in {0, 1} \/ (spos \in 1 .. Len(StatsOrder) - 1 /\ spos' = spos + 1)
      BY <1>7 DEF StatsFirst, StatsNext, StatsReturn
    <3>3. QED
      BY <3>1, <3>2
  <2>3. seen' \in [Cells -> Nat] /\ base' \in [Buckets -> Nat]
    <3>1. 1 \in 1 .. NUM_BUCKETS + 4
      BY CellFacts
    <3>2. CASE StatsFirst
      BY <1>1, <3>1, <3>2, StatsOrderFacts DEF TypeOK, StatsFirst
    <3>3. CASE StatsNext
      <4>1. spos + 1 \in 1 .. NUM_BUCKETS + 4
        BY <3>3, CellFacts, StatsOrderFacts DEF StatsNext
      <4>2. QED
        BY <1>1, <3>3, <4>1, StatsOrderFacts DEF TypeOK, StatsNext
    <3>4. CASE StatsReturn
      BY <3>4 DEF StatsReturn
    <3>5. QED
      BY <1>7, <3>2, <3>3, <3>4
  <2>4. UNCHANGED <<mem, rpc, ns, cur, recorded, zpos, resets, log, counted, overlaps>>
    BY <1>7 DEF StatsFirst, StatsNext, StatsReturn, recording, resetting, ghosts
  <2>5. SampleInv'
    BY <2>4 DEF SampleInv
  <2>6. QED
    BY <2>1, <2>2, <2>3, <2>4, <2>5 DEF TypeOK
<1>8. CASE UNCHANGED vars
  BY <1>8 DEF vars, recording, resetting, stats, ghosts, TypeOK, SampleInv
<1>9. QED
  BY <1>2, <1>3, <1>4, <1>5, <1>6, <1>7, <1>8 DEF Next, Record

\* TypeOK: the atomics hold counts, the minimum and the maximum are samples or
\* what reset stores in them (the retries of both compare-and-swap loops
\* included), and the threads are at one of their steps.
THEOREM TypeCorrect == Spec => []TypeOK
<1>1. Init => TypeOK /\ SampleInv
  BY TypeInit
<1>2. TypeOK /\ SampleInv /\ [Next]_vars => (TypeOK /\ SampleInv)'
  BY TypeStep
<1>3. QED
  BY <1>1, <1>2, PTL DEF Spec

-----------------------------------------------------------------------------
(***************************************************************************)
(* How far a reset that runs into records leaves count and histogram apart.*)
(***************************************************************************)

\* The records whose sample is in its bucket and not in the count yet.
Owing == {r \in Recorders : rpc[r] \in {"total", "count"}}

\* The buckets below z: those a reset that has stored z cells has cleared.
Below(z) == {i \in Buckets : i < z}

\* While the count is not stored yet, every sample in a cleared bucket is that
\* of a record that overlapped the reset; afterwards the same holds of the
\* difference between the histogram and the count.
DriftInv ==
    /\ zpos > 0 => Cardinality(Busy) <= overlaps
    /\ zpos \in 1 .. NUM_BUCKETS + 1 => SumOn(mem, Below(zpos)) <= overlaps
    /\ zpos \notin 1 .. NUM_BUCKETS + 1 =>
         /\ SumOn(mem, Buckets) <= mem[Count] + Cardinality(Owing) + overlaps
         /\ mem[Count] + Cardinality(Owing) <= SumOn(mem, Buckets) + overlaps

\* What the steps of record do to the cells and to the two sets of recorders.
LEMMA OwingFacts ==
    /\ IsFiniteSet(Owing) /\ Cardinality(Owing) \in Nat /\ Owing \subseteq Busy
    /\ \A z : Below(z) \subseteq Buckets /\ IsFiniteSet(Below(z))
<1>1. Owing \subseteq Recorders /\ Owing \subseteq Busy
  BY DEF Owing, Busy
<1>2. IsFiniteSet(Owing) /\ Cardinality(Owing) \in Nat
  BY <1>1, SampleFacts, FS_Subset, FS_CardinalityType
<1>3. \A z : Below(z) \subseteq Buckets
  BY DEF Below
<1>4. QED
  BY <1>1, <1>2, <1>3, CellFacts, FS_Subset

LEMMA BucketEffect ==
    ASSUME TypeOK, NEW r \in Recorders, NEW x \in Samples, RecordBucket(r, x)
    PROVE  /\ bucket_for(x) \in Buckets
           /\ mem'[bucket_for(x)] = mem[bucket_for(x)] + 1
           /\ \A d \in Cells : d # bucket_for(x) => mem'[d] = mem[d]
           /\ r \notin Busy /\ Busy' = Busy \union {r}
           /\ r \notin Owing /\ Owing' = Owing \union {r}
<1> DEFINE i == bucket_for(x)
<1>1. i \in Buckets /\ i \in Cells
  BY SampleFacts, CellFacts
<1>2. mem' = [mem EXCEPT ![i] = mem[i] + 1] /\ mem \in [Cells -> Nat]
  BY DEF RecordBucket, TypeOK
<1> HIDE DEF i
<1>3. mem'[i] = mem[i] + 1 /\ \A d \in Cells : d # i => mem'[d] = mem[d]
  BY <1>1, <1>2
<1>4. /\ rpc[r] = "idle" /\ rpc'[r] = "total"
      /\ \A q \in Recorders : q # r => rpc'[q] = rpc[q]
  BY DEF RecordBucket, TypeOK
<1>5. r \notin Busy /\ Busy' = Busy \union {r}
  BY <1>4 DEF Busy
<1>6. r \notin Owing /\ Owing' = Owing \union {r}
  BY <1>4 DEF Owing
<1>7. QED
  BY <1>1, <1>3, <1>5, <1>6 DEF i

LEMMA TotalEffect ==
    ASSUME TypeOK, NEW r \in Recorders, RecordTotal(r)
    PROVE  /\ mem'[Total] = mem[Total] + ns[r]
           /\ \A d \in Cells : d # Total => mem'[d] = mem[d]
           /\ Busy' = Busy /\ Owing' = Owing
<1>1. /\ mem' = [mem EXCEPT ![Total] = mem[Total] + ns[r]] /\ mem \in [Cells -> Nat]
      /\ Total \in Cells
  BY CellFacts DEF RecordTotal, TypeOK
<1>2. /\ rpc[r] = "total" /\ rpc'[r] = "count"
      /\ \A q \in Recorders : q # r => rpc'[q] = rpc[q]
  BY DEF RecordTotal, TypeOK
<1>3. Busy' = Busy
  BY <1>2 DEF Busy
<1>4. Owing' = Owing
  BY <1>2 DEF Owing
<1>5. QED
  BY <1>1, <1>3, <1>4

LEMMA CountEffect ==
    ASSUME TypeOK, NEW r \in Recorders, RecordCount(r)
    PROVE  /\ mem'[Count] = mem[Count] + 1
           /\ \A d \in Cells : d # Count => mem'[d] = mem[d]
           /\ Busy' = Busy /\ r \in Owing /\ Owing' = Owing \ {r}
<1>1. /\ mem' = [mem EXCEPT ![Count] = mem[Count] + 1] /\ mem \in [Cells -> Nat]
      /\ Count \in Cells
  BY CellFacts DEF RecordCount, TypeOK
<1>2. /\ rpc[r] = "count" /\ rpc'[r] = "min"
      /\ \A q \in Recorders : q # r => rpc'[q] = rpc[q]
  BY DEF RecordCount, TypeOK
<1>3. Busy' = Busy
  BY <1>2 DEF Busy
<1>4. r \in Owing /\ Owing' = Owing \ {r}
  BY <1>2 DEF Owing
<1>5. QED
  BY <1>1, <1>3, <1>4

LEMMA MinEffect ==
    ASSUME TypeOK, NEW r \in Recorders, LoadMin(r) \/ CasMin(r)
    PROVE  /\ \A d \in Cells : d # MinNs => mem'[d] = mem[d]
           /\ Busy' = Busy /\ Owing' = Owing
<1>1. \A d \in Cells : d # MinNs => mem'[d] = mem[d]
  BY DEF LoadMin, CasMin, TypeOK
<1>2. /\ rpc[r] \in {"min", "cas_min"} /\ rpc'[r] \in {"cas_min", "max"}
      /\ \A q \in Recorders : q # r => rpc'[q] = rpc[q]
  BY DEF LoadMin, CasMin, MinKnown, TypeOK
<1>3. Busy' = Busy
  BY <1>2 DEF Busy
<1>4. Owing' = Owing
  BY <1>2 DEF Owing
<1>5. QED
  BY <1>1, <1>3, <1>4

LEMMA MaxEffect ==
    ASSUME TypeOK, NEW r \in Recorders, LoadMax(r) \/ CasMax(r)
    PROVE  /\ \A d \in Cells : d # MaxNs => mem'[d] = mem[d]
           /\ Busy' \subseteq Busy /\ Owing' = Owing
<1>1. \A d \in Cells : d # MaxNs => mem'[d] = mem[d]
  BY DEF LoadMax, CasMax, TypeOK
<1>2. /\ rpc[r] \in {"max", "cas_max"} /\ rpc'[r] \in {"cas_max", "idle"}
      /\ \A q \in Recorders : q # r => rpc'[q] = rpc[q]
  <2>1. rpc[r] \in {"max", "cas_max"} /\ r \in DOMAIN rpc
            /\ DOMAIN rpc = Recorders
    BY DEF LoadMax, CasMax, TypeOK
  <2>2. PICK p \in {"cas_max", "idle"} : rpc' = [rpc EXCEPT ![r] = p]
    BY DEF LoadMax, CasMax, MaxKnown
  <2>3. QED
    BY <2>1, <2>2
<1>3. Busy' \subseteq Busy
  BY <1>2 DEF Busy
<1>4. Owing' = Owing
  BY <1>2 DEF Owing
<1>5. QED
  BY <1>1, <1>3, <1>4

\* A sum of buckets, when no bucket changes and when one is incremented.
LEMMA BucketsKept ==
    ASSUME TypeOK, NEW T \in SUBSET Buckets, \A d \in T : mem'[d] = mem[d]
    PROVE  SumOn(mem', T) = SumOn(mem, T) /\ SumOn(mem, T) \in Nat
<1>1. IsFiniteSet(T) /\ \A d \in T : mem[d] \in Nat
  <2>1. IsFiniteSet(T) /\ \A d \in T : d \in Cells
    BY CellFacts, FS_Subset
  <2>2. QED
    BY <2>1 DEF TypeOK
<1>2. QED
  BY <1>1, SumEqual, SumNat

LEMMA BucketsAdded ==
    ASSUME TypeOK, TypeOK', NEW T \in SUBSET Buckets, NEW i \in Buckets,
           mem'[i] = mem[i] + 1, \A d \in T : d # i => mem'[d] = mem[d]
    PROVE  /\ SumOn(mem, T) \in Nat
           /\ SumOn(mem', T) = IF i \in T THEN SumOn(mem, T) + 1 ELSE SumOn(mem, T)
<1>1. IsFiniteSet(T) /\ (\A d \in T : mem[d] \in Nat) /\ (\A d \in T : mem'[d] \in Nat)
  <2>1. IsFiniteSet(T) /\ \A d \in T : d \in Cells
    BY CellFacts, FS_Subset
  <2>2. QED
    BY <2>1 DEF TypeOK
<1>2. SumOn(mem, T) \in Nat /\ SumOn(mem', T) \in Nat
  BY <1>1, SumNat
<1>3. CASE i \in T
  <2>1. SumOn(mem', T) + mem[i] = SumOn(mem, T) + mem'[i]
    BY <1>1, <1>3, SumUpdate
  <2>2. QED
    BY <1>1, <1>2, <1>3, <2>1
<1>4. CASE i \notin T
  BY <1>4, BucketsKept
<1>5. QED
  BY <1>3, <1>4

LEMMA DriftInit == Init => DriftInv
<1> SUFFICES ASSUME Init PROVE DriftInv
  OBVIOUS
<1>1. zpos = 0 /\ overlaps = 0 /\ Owing = {}
  BY DEF Init, Owing
<1>2. mem[Count] = 0 /\ \A i \in Buckets : mem[i] = 0
  BY CellFacts, InitialFacts DEF Init
<1>3. SumOn(mem, Buckets) = 0
  BY <1>2, CellFacts, SumZero
<1>4. Cardinality(Owing) = 0
  BY <1>1, FS_EmptySet
<1>5. QED
  BY <1>1, <1>2, <1>3, <1>4 DEF DriftInv

\* A step of record: the terms of the invariant move together.
LEMMA DriftRecord ==
    ASSUME TypeOK, TypeOK', DriftInv, NEW r \in Recorders,
           (\E x \in Samples : RecordBucket(r, x)) \/ Record(r)
    PROVE  DriftInv'
<1> DEFINE n == SumOn(mem, Buckets)
           l == SumOn(mem, Below(zpos))
           b == Cardinality(Busy)
           o == Cardinality(Owing)
           c == mem[Count]
<1>1. c \in Nat /\ c' \in Nat /\ overlaps \in Nat /\ overlaps' \in Nat /\ zpos \in Nat /\ NUM_BUCKETS \in Nat
  <2>1. Count \in Cells /\ NUM_BUCKETS \in Nat
    BY CellFacts
  <2>2. mem \in [Cells -> Nat] /\ overlaps \in Nat /\ zpos \in Nat
    BY DEF TypeOK
  <2>3. mem' \in [Cells -> Nat] /\ overlaps' \in Nat
    BY DEF TypeOK
  <2>4. QED
    BY <2>1, <2>2, <2>3
<1>2. /\ Buckets \in SUBSET Buckets /\ Below(zpos) \in SUBSET Buckets /\ Below(zpos) \subseteq Cells
      /\ b \in Nat /\ o \in Nat
  BY CellFacts, OwingFacts, BusyFacts
<1>3. ASSUME zpos' = zpos, b' \in Nat, o' \in Nat, n \in Nat, l \in Nat,
             \/ overlaps' = overlaps /\ b' <= b /\ l' = l /\ n' = n /\ c' + o' = c + o
             \/ /\ overlaps' = IF zpos = 0 THEN overlaps ELSE overlaps + 1
                /\ b' = b + 1 /\ l' \in {l, l + 1} /\ n' = n + 1 /\ c' = c /\ o' = o + 1
      PROVE  DriftInv'
  <2>1. /\ zpos > 0 => b <= overlaps
        /\ zpos \in 1 .. NUM_BUCKETS + 1 => l <= overlaps
        /\ zpos \notin 1 .. NUM_BUCKETS + 1 => n <= c + o + overlaps /\ c + o <= n + overlaps
    BY DEF DriftInv
  <2> HIDE DEF n, l, b, o, c
  <2>2. /\ zpos > 0 => b' <= overlaps'
        /\ zpos \in 1 .. NUM_BUCKETS + 1 => l' <= overlaps'
        /\ zpos \notin 1 .. NUM_BUCKETS + 1 => n' <= c' + o' + overlaps' /\ c' + o' <= n' + overlaps'
    <3>1. CASE overlaps' = overlaps /\ b' <= b /\ l' = l /\ n' = n /\ c' + o' = c + o
      <4>1. c' + o' = c + o /\ b' <= b /\ b' \in Nat
        BY <1>3, <3>1
      <4>2. PICK s \in Nat : s = c + o /\ s = c' + o'
        BY <1>1, <1>2, <4>1
      <4>3. n' = n /\ l' = l /\ overlaps' = overlaps /\ n \in Nat /\ l \in Nat
        BY <1>3, <3>1
      <4>4. zpos > 0 => b' <= overlaps'
        BY <1>1, <1>2, <2>1, <4>1, <4>3
      <4>5. QED
        BY <1>1, <2>1, <4>2, <4>3, <4>4
    <3>2. CASE /\ overlaps' = IF zpos = 0 THEN overlaps ELSE overlaps + 1
               /\ b' = b + 1 /\ l' \in {l, l + 1} /\ n' = n + 1 /\ c' = c /\ o' = o + 1
      BY <1>1, <1>2, <1>3, <2>1, <3>2
    <3>3. QED
      BY <1>3, <3>1, <3>2
  <2>3. QED
    BY <1>3, <2>2 DEF DriftInv, n, l, b, o, c
<1>4. ASSUME NEW x \in Samples, RecordBucket(r, x) PROVE DriftInv'
  <2>1. zpos' = zpos /\ overlaps' = IF zpos = 0 THEN overlaps ELSE overlaps + 1
    BY <1>4 DEF RecordBucket, resetting
  <2>2. c' = c
    BY <1>4, BucketEffect, CellFacts
  <2>3. b' = b + 1 /\ o' = o + 1
    BY <1>4, BucketEffect, BusyFacts, OwingFacts, FS_AddElement
  <2>4. n \in Nat /\ n' = n + 1
    BY <1>2, <1>4, BucketEffect, CellFacts, BucketsAdded
  <2>5. l \in Nat /\ SumOn(mem', Below(zpos)) \in {l, l + 1}
    BY <1>2, <1>4, BucketEffect, BucketsAdded
  <2>6. l' = SumOn(mem', Below(zpos))
    BY <2>1 DEF Below
  <2>7. b' \in Nat /\ o' \in Nat
    BY <1>2, <2>3
  <2> HIDE DEF n, l, b, o, c
  <2>8. QED
    BY <1>3, <2>1, <2>2, <2>3, <2>4, <2>5, <2>6, <2>7
<1>5. ASSUME UNCHANGED <<zpos, overlaps>>, \A d \in Buckets : mem'[d] = mem[d], Busy' \subseteq Busy,
             c' + o' = c + o
      PROVE  DriftInv'
  <2>1. b' \in Nat /\ b' <= b
    <3>1. PICK B : B = Busy' /\ B \in SUBSET Busy
      BY <1>5
    <3>2. Cardinality(B) \in Nat /\ Cardinality(B) <= Cardinality(Busy)
      BY <3>1, BusyFacts, FS_Subset, FS_CardinalityType
    <3>3. QED
      BY <3>1, <3>2
  <2>2. o' \in Nat
    <3>1. Owing' \subseteq Recorders
      BY DEF Owing
    <3>2. QED
      BY <3>1, SampleFacts, FS_Subset, FS_CardinalityType
  <2>3. n \in Nat /\ n' = n
    BY <1>2, <1>5, BucketsKept
  <2>4. l \in Nat /\ SumOn(mem', Below(zpos)) = l
    BY <1>2, <1>5, BucketsKept
  <2>5. l' = SumOn(mem', Below(zpos))
    BY <1>5 DEF Below
  <2> HIDE DEF n, l, b, o, c
  <2>6. QED
    BY <1>3, <1>5, <2>1, <2>2, <2>3, <2>4, <2>5
<1>6. CASE RecordTotal(r)
  <2>1. UNCHANGED <<zpos, overlaps>>
    BY <1>6 DEF RecordTotal, resetting, ghosts
  <2>2. QED
    BY <1>5, <1>6, <2>1, TotalEffect, CellFacts
<1>7. CASE RecordCount(r)
  <2>1. UNCHANGED <<zpos, overlaps>>
    BY <1>7 DEF RecordCount, resetting
  <2>2. c' = c + 1 /\ o' = o - 1
    BY <1>7, CountEffect, OwingFacts, FS_RemoveElement
  <2>3. c' + o' = c + o
    BY <1>1, <1>2, <2>2
  <2>4. QED
    BY <1>5, <1>7, <2>1, <2>3, CountEffect, CellFacts
<1>8. CASE LoadMin(r) \/ CasMin(r)
  <2>1. UNCHANGED <<zpos, overlaps>>
    BY <1>8 DEF LoadMin, CasMin, resetting, ghosts
  <2>2. QED
    BY <1>5, <1>8, <2>1, MinEffect, CellFacts
<1>9. CASE LoadMax(r) \/ CasMax(r)
  <2>1. UNCHANGED <<zpos, overlaps>>
    BY <1>9 DEF LoadMax, CasMax, resetting, ghosts
  <2>2. QED
    BY <1>5, <1>9, <2>1, MaxEffect, CellFacts
<1>10. QED
  BY <1>4, <1>6, <1>7, <1>8, <1>9 DEF Record

\* A store of reset: the bucket it clears joins the others, and with the count
\* what overlapped so far becomes the difference.
LEMMA DriftReset ==
    ASSUME TypeOK, TypeOK', DriftInv, ResetFirst \/ ResetNext
    PROVE  DriftInv'
<1>1. /\ NUM_BUCKETS \in Nat /\ NUM_BUCKETS > 0 /\ zpos \in 0 .. NUM_BUCKETS + 3
      /\ overlaps \in Nat /\ overlaps' \in Nat
      /\ mem \in [Cells -> Nat]
  BY CellFacts DEF TypeOK
<1>2. mem' \in [Cells -> Nat]
  BY DEF TypeOK
<1>3. Busy' = Busy /\ Owing' = Owing
  BY DEF ResetFirst, ResetNext, recording, Busy, Owing
<1>4. Cardinality(Busy) \in Nat /\ Cardinality(Owing) \in Nat /\ Cardinality(Owing) <= Cardinality(Busy)
  BY BusyFacts, OwingFacts, FS_Subset
<1>5. CASE ResetFirst
  <2>1. zpos' = 1 /\ overlaps' = Cardinality(Busy) /\ ResetOrder[1] = 0 /\ 0 \in Buckets /\ 0 \in Cells
    BY <1>1, <1>5, ResetOrderFacts, CellFacts DEF ResetFirst
  <2>2. mem'[0] = 0
    BY <1>1, <1>5, <2>1, InitialFacts DEF ResetFirst
  <2>3. Below(1) = {0} /\ IsFiniteSet({0})
    <3>1. \A i \in Buckets : i < 1 <=> i = 0
      BY CellFacts
    <3>2. QED
      BY <2>1, <3>1, FS_Singleton DEF Below
  <2>4. SumOn(mem', Below(1)) = 0
    BY <2>2, <2>3, SumZero
  <2>5. Cardinality(Busy)' = Cardinality(Busy) /\ SumOn(mem, Below(zpos))' = SumOn(mem', Below(1))
    BY <1>3, <2>1 DEF Below
  <2>6. QED
    BY <1>1, <1>4, <2>1, <2>4, <2>5 DEF DriftInv
<1>6. CASE ResetNext
  <2> DEFINE c == ResetOrder[zpos + 1]
  <2>1. /\ zpos > 0 /\ zpos + 1 \in 1 .. NUM_BUCKETS + 4 /\ overlaps' = overlaps
        /\ zpos' = IF zpos + 1 = NUM_BUCKETS + 4 THEN 0 ELSE zpos + 1
    BY <1>1, <1>6, ResetOrderFacts DEF ResetNext, ghosts
  <2>2. c \in Cells /\ mem' = [mem EXCEPT ![c] = Initial(c)]
    BY <1>6, <2>1, ResetOrderFacts DEF ResetNext
  <2>3. mem'[c] = Initial(c) /\ \A d \in Cells : d # c => mem'[d] = mem[d]
    BY <1>1, <2>2
  <2>4. Cardinality(Busy)' <= overlaps'
    BY <1>3, <2>1 DEF DriftInv
  <2> HIDE DEF c
  <2>5. CASE zpos < NUM_BUCKETS
    <3>1. zpos + 1 \in 1 .. NUM_BUCKETS /\ zpos' = zpos + 1 /\ zpos \in 1 .. NUM_BUCKETS + 1
      BY <1>1, <2>1, <2>5
    <3>2. c = zpos /\ zpos \in Buckets
      BY <1>1, <3>1, <2>5, ResetOrderFacts, CellFacts DEF c
    <3>3. /\ Below(zpos + 1) \ {zpos} = Below(zpos) /\ zpos \in Below(zpos + 1)
          /\ Below(zpos + 1) \in SUBSET Buckets /\ Below(zpos) \in SUBSET Buckets
          /\ zpos \notin Below(zpos)
      BY <1>1, <3>2, CellFacts DEF Below
    <3>4. SumOn(mem', Below(zpos)) = SumOn(mem, Below(zpos)) /\ SumOn(mem, Below(zpos)) \in Nat
      BY <2>3, <3>2, <3>3, CellFacts, BucketsKept
    <3>5. SumOn(mem', Below(zpos + 1)) = mem'[zpos] + SumOn(mem', Below(zpos))
      <4>1. IsFiniteSet(Below(zpos + 1)) /\ \A y \in Below(zpos + 1) : mem'[y] \in Nat
        BY <1>2, <3>3, CellFacts, OwingFacts
      <4>2. SumOn(mem', Below(zpos + 1)) = mem'[zpos] + SumOn(mem', Below(zpos + 1) \ {zpos})
        BY <3>3, <4>1, SumRemove
      <4>3. QED
        BY <3>3, <4>2
    <3>6. mem'[zpos] = 0
      BY <2>3, <3>2, InitialFacts
    <3>7. SumOn(mem', Below(zpos + 1)) <= overlaps
      BY <1>1, <3>1, <3>4, <3>5, <3>6 DEF DriftInv
    <3>8. SumOn(mem, Below(zpos))' = SumOn(mem', Below(zpos + 1))
      BY <3>1 DEF Below
    <3>9. zpos' \in 1 .. NUM_BUCKETS + 1
      BY <1>1, <3>1
    <3>10. QED
      BY <2>1, <2>4, <3>7, <3>8, <3>9 DEF DriftInv
  <2>6. ASSUME zpos \in {NUM_BUCKETS, NUM_BUCKETS + 1}
        PROVE  SumOn(mem, Buckets) <= overlaps
    <3>1. Below(zpos) = Buckets /\ zpos \in 1 .. NUM_BUCKETS + 1
      BY <1>1, <2>6, CellFacts DEF Below
    <3>2. QED
      BY <3>1 DEF DriftInv
  <2>7. CASE zpos >= NUM_BUCKETS
    <3>1. zpos \in {NUM_BUCKETS, NUM_BUCKETS + 1, NUM_BUCKETS + 2, NUM_BUCKETS + 3}
      BY <1>1, <2>7
    <3>2. c \in {Total, Count, MinNs, MaxNs}
      BY <1>1, <3>1, ResetOrderFacts DEF c
    <3>3. SumOn(mem', Buckets) = SumOn(mem, Buckets) /\ SumOn(mem, Buckets) \in Nat
      BY <2>3, <3>2, CellFacts, BucketsKept
    <3>4. CASE zpos = NUM_BUCKETS
      <4>1. zpos' = NUM_BUCKETS + 1
        BY <1>1, <2>1, <3>4
      <4>2. SumOn(mem, Below(zpos))' = SumOn(mem', Buckets)
        <5>1. Below(NUM_BUCKETS + 1) = Buckets
          BY <1>1, CellFacts DEF Below
        <5>2. Below(zpos)' = Below(NUM_BUCKETS + 1)
          BY <4>1 DEF Below
        <5>3. QED
          BY <5>1, <5>2
      <4>3. SumOn(mem', Buckets) <= overlaps'
        BY <2>1, <2>6, <3>3, <3>4
      <4>4. QED
        BY <1>1, <2>4, <4>1, <4>2, <4>3 DEF DriftInv
    <3>5. CASE zpos = NUM_BUCKETS + 1
      <4>1. zpos' = NUM_BUCKETS + 2 /\ c = Count
        BY <1>1, <2>1, <3>5, ResetOrderFacts DEF c
      <4>2. mem'[Count] = 0
        BY <2>3, <4>1, InitialFacts
      <4>3. SumOn(mem', Buckets) <= overlaps' /\ Cardinality(Owing) <= overlaps'
        BY <1>1, <1>3, <1>4, <2>1, <2>4, <2>6, <3>3, <3>5
      <4>4. SumOn(mem', Buckets) <= mem'[Count] + Cardinality(Owing) + overlaps'
        BY <1>1, <1>4, <3>3, <4>2, <4>3
      <4>5. mem'[Count] + Cardinality(Owing) <= SumOn(mem', Buckets) + overlaps'
        BY <1>1, <1>4, <3>3, <4>2, <4>3
      <4>6. QED
        BY <1>1, <1>3, <2>4, <4>1, <4>4, <4>5 DEF DriftInv
    <3>6. CASE zpos \in {NUM_BUCKETS + 2, NUM_BUCKETS + 3}
      <4>1. zpos' \notin 1 .. NUM_BUCKETS + 1 /\ zpos \notin 1 .. NUM_BUCKETS + 1
        BY <1>1, <2>1, <3>6
      <4>2. c # Count
        BY <1>1, <3>6, ResetOrderFacts, CellFacts DEF c
      <4>3. mem'[Count] = mem[Count]
        BY <2>3, <4>2, CellFacts
      <4>4. /\ SumOn(mem', Buckets) <= mem'[Count] + Cardinality(Owing) + overlaps'
            /\ mem'[Count] + Cardinality(Owing) <= SumOn(mem', Buckets) + overlaps'
        BY <2>1, <3>3, <4>1, <4>3 DEF DriftInv
      <4>5. QED
        BY <1>3, <2>4, <4>1, <4>4 DEF DriftInv
    <3>7. QED
      BY <3>1, <3>4, <3>5, <3>6
  <2>8. QED
    BY <1>1, <2>5, <2>7
<1>7. QED
  BY <1>5, <1>6

LEMMA DriftStep == TypeOK /\ TypeOK' /\ DriftInv /\ [Next]_vars => DriftInv'
<1> SUFFICES ASSUME TypeOK, TypeOK', DriftInv, [Next]_vars PROVE DriftInv'
  OBVIOUS
<1>1. CASE StatsFirst \/ StatsNext \/ StatsReturn \/ UNCHANGED vars
  <2>1. UNCHANGED <<mem, rpc, zpos, overlaps>>
    BY <1>1 DEF StatsFirst, StatsNext, StatsReturn, vars, recording, resetting, ghosts
  <2>2. QED
    BY <2>1 DEF DriftInv, Busy, Owing, Below
<1>2. QED
  BY <1>1, DriftRecord, DriftReset DEF Next

\* DriftBounded: whatever records ran into whatever resets, histogram and count
\* differ at rest by no more than the records that overlapped the last reset.
THEOREM DriftIsBounded == Spec => []DriftBounded
<1>1. Init => TypeOK /\ SampleInv /\ DriftInv
  BY TypeInit, DriftInit
<1>2. TypeOK /\ SampleInv /\ DriftInv /\ [Next]_vars => (TypeOK /\ SampleInv /\ DriftInv)'
  BY TypeStep, DriftStep
<1>3. TypeOK /\ DriftInv => DriftBounded
  <2> SUFFICES ASSUME TypeOK, DriftInv, AtRest PROVE DriftBounded
    BY DEF DriftBounded
  <2>1. Owing = {} /\ zpos \notin 1 .. NUM_BUCKETS + 1
    BY OwingFacts DEF AtRest
  <2>2. Cardinality(Owing) = 0 /\ mem[Count] \in Nat /\ overlaps \in Nat
    BY <2>1, FS_EmptySet, CellFacts DEF TypeOK
  <2>3. SumOver(mem, Buckets) = SumOn(mem, Buckets)
    BY Zenon DEF SumOver, SumOn
  <2>4. QED
    BY <2>1, <2>2, <2>3 DEF DriftInv, DriftBounded
<1>4. QED
  BY <1>1, <1>2, <1>3, PTL DEF Spec

-----------------------------------------------------------------------------
(***************************************************************************)
(* Exact statistics.                                                       *)
(***************************************************************************)

\* The samples of bucket i.
SamplesIn(i) == {x \in Samples : bucket_for(x) = i}

\* What recorders have yet to add to the sum.
Unsummed == [r \in Recorders |-> IF rpc[r] = "total" THEN ns[r] ELSE 0]

Weighted == [x \in Samples |-> x * log[x]]

\* As long as no record overlaps it, a reset meets none at work: what it has
\* stored stays stored until it ends.
QuietReset ==
    zpos > 0 /\ overlaps = 0 =>
        /\ Busy = {} /\ (\A x \in Samples : log[x] = 0) /\ (\A i \in Buckets : counted[i] = 0)
        /\ \A k \in 1 .. zpos : mem[ResetOrder[k]] = Initial(ResetOrder[k])

\* Between resets, what a cell lacks is what the recorders at work still owe it.
HistogramInv == \A i \in Buckets : mem[i] = SumOn(log, SamplesIn(i))

CountInv == mem[Count] + Cardinality(Owing) = SumOn(log, Samples)

TotalInv == mem[Total] + SumOn(Unsummed, Recorders) = SumOn(Weighted, Samples)

MinInv ==
    /\ mem[MinNs] \in Recorded \union {UINT64_MAX}
    /\ \A x \in Recorded : \/ mem[MinNs] <= x
                           \/ \E r \in Recorders : /\ rpc[r] \in {"total", "count", "min", "cas_min"}
                                                   /\ ns[r] = x

MaxInv ==
    /\ mem[MaxNs] \in Recorded \union {0}
    /\ \A x \in Recorded : x <= mem[MaxNs] \/ \E r \in Busy : ns[r] = x

Quiet == zpos = 0 /\ overlaps = 0

SamplesLogged ==
    /\ \A r \in Busy : ns[r] \in Recorded
    /\ HistogramInv /\ CountInv /\ TotalInv /\ MinInv /\ MaxInv

ExactInv == QuietReset /\ (Quiet => SamplesLogged)

\* Nothing recorded and every cell as reset leaves it.
Fresh ==
    /\ Busy = {} /\ \A x \in Samples : log[x] = 0
    /\ \A d \in Cells : mem[d] = Initial(d)

LEMMA ExactFresh == TypeOK /\ Fresh => SamplesLogged
<1> SUFFICES ASSUME TypeOK, Fresh PROVE SamplesLogged
  OBVIOUS
<1> USE DEF Fresh
<1>1. HistogramInv
  <2>1. \A i \in Buckets : SamplesIn(i) \subseteq Samples /\ IsFiniteSet(SamplesIn(i))
    BY SampleFacts, FS_Subset DEF SamplesIn
  <2>2. \A i \in Buckets : SumOn(log, SamplesIn(i)) = 0
    BY <2>1, SumZero
  <2>3. QED
    BY <2>2, CellFacts, InitialFacts DEF HistogramInv
<1>2. CountInv
  <2>1. Owing = {} /\ mem[Count] = 0
    BY OwingFacts, CellFacts, InitialFacts
  <2>2. SumOn(log, Samples) = 0
    BY SampleFacts, SumZero
  <2>3. QED
    BY <2>1, <2>2, FS_EmptySet DEF CountInv
<1>3. TotalInv
  <2>1. \A r \in Recorders : rpc[r] = "idle"
    BY DEF Busy
  <2>2. \A r \in Recorders : Unsummed[r] = 0
    BY <2>1 DEF Unsummed
  <2>3. \A x \in Samples : Weighted[x] = 0
    BY SampleFacts DEF Weighted
  <2>4. SumOn(Unsummed, Recorders) = 0 /\ SumOn(Weighted, Samples) = 0
    BY <2>2, <2>3, SampleFacts, SumZero
  <2>5. mem[Total] = 0
    BY CellFacts, InitialFacts
  <2>6. QED
    BY <2>4, <2>5 DEF TotalInv
<1>4. Recorded = {}
  BY DEF Recorded
<1>5. MinInv /\ MaxInv
  BY <1>4, CellFacts, InitialFacts DEF MinInv, MaxInv
<1>6. QED
  BY <1>1, <1>2, <1>3, <1>5 DEF SamplesLogged

LEMMA ExactInit == Init => ExactInv
<1> SUFFICES ASSUME Init PROVE ExactInv
  OBVIOUS
<1>1. TypeOK
  BY TypeInit
<1>2. /\ Busy = {} /\ (\A x \in Samples : log[x] = 0)
      /\ (\A d \in Cells : mem[d] = Initial(d)) /\ zpos = 0
  BY DEF Init, Busy
<1>3. QED
  BY <1>1, <1>2, ExactFresh DEF ExactInv, QuietReset, Fresh

LEMMA ExactFreshNext == TypeOK' /\ Fresh' => SamplesLogged'
BY ExactFresh, PTL

LEMMA AllStored == \A d \in Cells : \E k \in 1 .. NUM_BUCKETS + 4 : ResetOrder[k] = d
<1> SUFFICES ASSUME NEW d \in Cells PROVE \E k \in 1 .. NUM_BUCKETS + 4 : ResetOrder[k] = d
  OBVIOUS
<1>1. CASE d \in Buckets
  <2>1. d + 1 \in 1 .. NUM_BUCKETS /\ d + 1 \in 1 .. NUM_BUCKETS + 4 /\ (d + 1) - 1 = d
    BY <1>1, CellFacts
  <2>2. ResetOrder[d + 1] = d
    BY <2>1, ResetOrderFacts
  <2>3. QED
    BY <2>1, <2>2
<1>2. CASE d \in {Total, Count, MinNs, MaxNs}
  <2>1. /\ NUM_BUCKETS + 1 \in 1 .. NUM_BUCKETS + 4 /\ NUM_BUCKETS + 2 \in 1 .. NUM_BUCKETS + 4
        /\ NUM_BUCKETS + 3 \in 1 .. NUM_BUCKETS + 4 /\ NUM_BUCKETS + 4 \in 1 .. NUM_BUCKETS + 4
    BY CellFacts
  <2>2. QED
    BY <1>2, <2>1, ResetOrderFacts
<1>3. QED
  BY <1>1, <1>2, CellFacts

\* A store of reset that no record disturbs: it stays, and the last one leaves
\* every cell as it was in the beginning.
LEMMA ResetGoesOn ==
    ASSUME TypeOK, TypeOK', ExactInv, ResetNext, overlaps' = 0
    PROVE  /\ Busy' = {} /\ (\A x \in Samples : log'[x] = 0) /\ (\A i \in Buckets : counted'[i] = 0)
           /\ \A k \in 1 .. zpos + 1 : mem'[ResetOrder[k]] = Initial(ResetOrder[k])
           /\ zpos' > 0 => zpos' = zpos + 1
           /\ zpos' = 0 => Fresh'
<1>1. /\ NUM_BUCKETS \in Nat /\ NUM_BUCKETS > 0 /\ zpos \in 0 .. NUM_BUCKETS + 3
      /\ mem \in [Cells -> Nat] /\ Busy' = Busy
  BY CellFacts DEF TypeOK, ResetNext, recording, Busy
<1> DEFINE c == ResetOrder[zpos + 1]
<1>2. /\ zpos > 0 /\ zpos + 1 \in 1 .. NUM_BUCKETS + 4 /\ overlaps' = overlaps
      /\ zpos' = IF zpos + 1 = NUM_BUCKETS + 4 THEN 0 ELSE zpos + 1
      /\ log' = log /\ counted' = counted
  BY <1>1, ResetOrderFacts DEF ResetNext, ghosts
<1>3. c \in Cells /\ mem' = [mem EXCEPT ![c] = Initial(c)]
  BY <1>2, ResetOrderFacts DEF ResetNext
<1>4. mem'[c] = Initial(c) /\ \A d \in Cells : d # c => mem'[d] = mem[d]
  BY <1>1, <1>3
<1>5. /\ Busy' = {} /\ (\A x \in Samples : log'[x] = 0) /\ (\A i \in Buckets : counted'[i] = 0)
      /\ \A k \in 1 .. zpos : mem[ResetOrder[k]] = Initial(ResetOrder[k])
  BY <1>1, <1>2 DEF ExactInv, QuietReset
<1>6. ASSUME NEW k \in 1 .. zpos + 1 PROVE mem'[ResetOrder[k]] = Initial(ResetOrder[k])
  <2>1. ResetOrder[k] \in Cells /\ (k = zpos + 1 \/ k \in 1 .. zpos)
    BY <1>1, <1>2, ResetOrderFacts
  <2>2. QED
    BY <1>4, <1>5, <2>1
<1>7. zpos' > 0 => zpos' = zpos + 1
  BY <1>1, <1>2
<1>8. ASSUME zpos' = 0 PROVE Fresh'
  <2>1. zpos + 1 = NUM_BUCKETS + 4
    BY <1>1, <1>2, <1>8
  <2>2. \A d \in Cells : mem'[d] = Initial(d)
    BY <1>6, <2>1, AllStored
  <2>3. QED
    BY <1>5, <2>2 DEF Fresh
<1>9. QED
  BY <1>5, <1>6, <1>7, <1>8

LEMMA ExactReset ==
    ASSUME TypeOK, TypeOK', ExactInv, ResetFirst \/ ResetNext
    PROVE  ExactInv'
<1>1. /\ NUM_BUCKETS \in Nat /\ NUM_BUCKETS > 0 /\ zpos \in 0 .. NUM_BUCKETS + 3
      /\ mem \in [Cells -> Nat] /\ Busy' = Busy
  BY CellFacts DEF TypeOK, ResetFirst, ResetNext, recording, Busy
<1>2. CASE ResetFirst
  <2>1. /\ zpos' = 1 /\ overlaps' = Cardinality(Busy) /\ 1 \in 1 .. NUM_BUCKETS + 4
        /\ \A x \in Samples : log'[x] = 0
        /\ \A i \in Buckets : counted'[i] = 0
        /\ mem' = [mem EXCEPT ![ResetOrder[1]] = Initial(ResetOrder[1])]
    BY <1>1, <1>2 DEF ResetFirst
  <2>2. mem'[ResetOrder[1]] = Initial(ResetOrder[1])
    BY <1>1, <2>1, ResetOrderFacts
  <2>3. overlaps' = 0 => Busy' = {}
    BY <1>1, <2>1, BusyFacts, FS_EmptySet
  <2>4. \A k \in 1 .. zpos' : k = 1
    BY <2>1
  <2>5. QED
    BY <2>1, <2>2, <2>3, <2>4 DEF ExactInv, QuietReset, Quiet
<1>3. CASE ResetNext
  <2>1. QuietReset'
    BY <1>3, ResetGoesOn DEF QuietReset
  <2>2. ASSUME zpos' = 0, overlaps' = 0 PROVE SamplesLogged'
    BY <1>3, <2>2, ResetGoesOn, ExactFreshNext
  <2>3. QED
    BY <2>1, <2>2 DEF ExactInv, Quiet
<1>4. QED
  BY <1>2, <1>3

\* Only a recorder at work takes a step of Record, and none is during a quiet
\* reset: the invariant is about the time between resets.
LEMMA ExactRecord ==
    ASSUME TypeOK, TypeOK', ExactInv, UNCHANGED <<zpos, overlaps>>,
           zpos = 0 \/ Busy # {}, Quiet => SamplesLogged'
    PROVE  ExactInv'
<1>1. zpos \in Nat
  BY DEF TypeOK
<1>2. QuietReset'
  BY <1>1 DEF ExactInv, QuietReset
<1>3. QED
  BY <1>2 DEF ExactInv, Quiet

\* A sample recorded once more.
LEMMA SampleAdded ==
    ASSUME TypeOK, TypeOK', NEW x \in Samples, log' = [log EXCEPT ![x] = @ + 1]
    PROVE  /\ Recorded' = Recorded \union {x}
           /\ \A T \in SUBSET Samples :
                /\ SumOn(log, T) \in Nat
                /\ SumOn(log', T) = IF x \in T THEN SumOn(log, T) + 1 ELSE SumOn(log, T)
           /\ SumOn(Weighted, Samples) \in Nat
           /\ SumOn(Weighted', Samples) = SumOn(Weighted, Samples) + x
<1>1. /\ log \in [Samples -> Nat] /\ log' \in [Samples -> Nat] /\ log'[x] = log[x] + 1
      /\ \A y \in Samples : y # x => log'[y] = log[y]
  <2>1. log \in [Samples -> Nat]
    BY DEF TypeOK
  <2>2. QED
    BY <2>1
<1>2. Recorded' = Recorded \union {x}
  BY <1>1 DEF Recorded
<1>3. ASSUME NEW T \in SUBSET Samples
      PROVE  /\ SumOn(log, T) \in Nat
             /\ SumOn(log', T) = IF x \in T THEN SumOn(log, T) + 1 ELSE SumOn(log, T)
  <2>1. IsFiniteSet(T) /\ (\A y \in T : log[y] \in Nat /\ log'[y] \in Nat)
    BY <1>1, SampleFacts, FS_Subset
  <2>2. SumOn(log, T) \in Nat /\ SumOn(log', T) \in Nat
    BY <2>1, SumNat
  <2>3. CASE x \in T
    <3>1. PICK f, g : f = log /\ g = log'
      OBVIOUS
    <3>2. /\ \A y \in T : f[y] \in Nat /\ g[y] \in Nat
          /\ \A y \in T : y # x => f[y] = g[y]
      BY <1>1, <2>1, <3>1
    <3>3. SumOn(g, T) + f[x] = SumOn(f, T) + g[x]
      BY <2>1, <2>3, <3>2, SumUpdate
    <3>4. QED
      BY <1>1, <2>2, <2>3, <3>1, <3>3
  <2>4. CASE x \notin T
    <3>1. \A y \in T : log[y] \in Nat /\ log[y] = log'[y]
      BY <1>1, <2>1, <2>4
    <3>2. QED
      BY <2>1, <2>2, <2>4, <3>1, SumEqual
  <2>5. QED
    BY <2>3, <2>4
<1>4. SumOn(Weighted, Samples) \in Nat /\ SumOn(Weighted', Samples) = SumOn(Weighted, Samples) + x
  <2>1. \A y \in Samples : Weighted[y] = y * log[y] /\ Weighted'[y] = y * log'[y]
    BY DEF Weighted
  <2>2. \A y \in Samples : y * log[y] \in Nat /\ y * log'[y] \in Nat
    BY <1>1, SampleFacts
  <2>3. x * log'[x] = x * log[x] + x
    <3>1. x \in Nat /\ log[x] \in Nat /\ log'[x] = log[x] + 1
      BY <1>1, SampleFacts
    <3>2. \A a, b \in Nat : a * (b + 1) = a * b + a
      OBVIOUS
    <3>3. QED
      BY <3>1, <3>2
  <2>4. /\ \A y \in Samples : Weighted[y] \in Nat /\ Weighted'[y] \in Nat
        /\ \A y \in Samples : y # x => Weighted[y] = Weighted'[y]
        /\ Weighted'[x] = Weighted[x] + x
    BY <1>1, <2>1, <2>2, <2>3
  <2>5. SumOn(Weighted', Samples) + Weighted[x] = SumOn(Weighted, Samples) + Weighted'[x]
    <3>1. PICK W, V : V = Weighted /\ W = Weighted'
      OBVIOUS
    <3>2. /\ \A y \in Samples : V[y] \in Nat /\ W[y] \in Nat
          /\ \A y \in Samples : y # x => V[y] = W[y]
      BY <2>4, <3>1
    <3>3. IsFiniteSet(Samples)
      BY SampleFacts
    <3>4. SumOn(W, Samples) + V[x] = SumOn(V, Samples) + W[x]
      BY <3>2, <3>3, SumUpdate
    <3>5. QED
      BY <3>1, <3>4
  <2>6. SumOn(Weighted, Samples) \in Nat /\ SumOn(Weighted', Samples) \in Nat
    BY <2>4, SampleFacts, SumNat
  <2>7. PICK w \in Nat : w = Weighted[x] /\ Weighted'[x] = w + x
    BY <2>4
  <2>8. x \in Nat
    BY SampleFacts
  <2>9. QED
    BY <2>5, <2>6, <2>7, <2>8
<1>5. QED
  BY <1>2, <1>3, <1>4

\* What recorders owe the sum, when one of them comes to owe v instead of u.
LEMMA UnsummedChange ==
    ASSUME TypeOK, TypeOK', SampleInv, SampleInv', NEW r \in Recorders,
           \A q \in Recorders : q # r => rpc'[q] = rpc[q] /\ ns'[q] = ns[q]
    PROVE  /\ SumOn(Unsummed, Recorders) \in Nat /\ SumOn(Unsummed', Recorders) \in Nat
           /\ SumOn(Unsummed', Recorders) + (IF rpc[r] = "total" THEN ns[r] ELSE 0)
                = SumOn(Unsummed, Recorders) + (IF rpc'[r] = "total" THEN ns'[r] ELSE 0)
<1>1. /\ \A q \in Recorders : /\ Unsummed[q] = IF rpc[q] = "total" THEN ns[q] ELSE 0
                              /\ Unsummed'[q] = IF rpc'[q] = "total" THEN ns'[q] ELSE 0
      /\ \A q \in Recorders : Unsummed[q] \in Nat /\ Unsummed'[q] \in Nat
      /\ \A q \in Recorders : q # r => Unsummed[q] = Unsummed'[q]
  <2>1. /\ \A q \in Recorders : Unsummed[q] = IF rpc[q] = "total" THEN ns[q] ELSE 0
        /\ \A q \in Recorders : Unsummed'[q] = IF rpc'[q] = "total" THEN ns'[q] ELSE 0
    BY DEF Unsummed
  <2>2. \A q \in Recorders : ns[q] \in Nat
    BY SampleFacts DEF TypeOK
  <2>3. \A q \in Recorders : ns'[q] \in Nat
    BY SampleFacts DEF TypeOK
  <2>4. QED
    BY <2>1, <2>2, <2>3
<1>2. SumOn(Unsummed', Recorders) + Unsummed[r] = SumOn(Unsummed, Recorders) + Unsummed'[r]
  BY <1>1, SampleFacts, SumUpdate
<1>3. SumOn(Unsummed, Recorders) \in Nat /\ SumOn(Unsummed', Recorders) \in Nat
  BY <1>1, SampleFacts, SumNat
<1>4. QED
  BY <1>1, <1>2, <1>3

LEMMA ExactBucket ==
    ASSUME TypeOK, TypeOK', SampleInv, SampleInv', Quiet, SamplesLogged,
           NEW r \in Recorders, NEW x \in Samples, RecordBucket(r, x)
    PROVE  SamplesLogged'
<1>1. /\ rpc[r] = "idle" /\ rpc'[r] = "total" /\ ns'[r] = x
      /\ \A q \in Recorders : q # r => rpc'[q] = rpc[q] /\ ns'[q] = ns[q]
  BY DEF RecordBucket, TypeOK
<1>2. log' = [log EXCEPT ![x] = @ + 1]
  BY DEF RecordBucket
<1>21. /\ Recorded' = Recorded \union {x}
      /\ \A T \in SUBSET Samples :
           /\ SumOn(log, T) \in Nat
           /\ SumOn(log', T) = IF x \in T THEN SumOn(log, T) + 1 ELSE SumOn(log, T)
  BY <1>2, SampleAdded, Zenon
<1>22. mem'[MinNs] = mem[MinNs] /\ mem'[MaxNs] = mem[MaxNs]
  BY BucketEffect, CellFacts
<1>3. \A q \in Busy' : ns'[q] \in Recorded'
  <2>1. Busy' = Busy \union {r} /\ r \notin Busy /\ Busy \subseteq Recorders
    BY BucketEffect, BusyFacts
  <2>2. \A q \in Busy : ns[q] \in Recorded
    BY DEF SamplesLogged
  <2>3. QED
    BY <1>1, <1>21, <2>1, <2>2
<1>4. HistogramInv'
  <2> SUFFICES ASSUME NEW i \in Buckets PROVE mem'[i] = SumOn(log', SamplesIn(i))
    BY DEF HistogramInv, SamplesIn
  <2>1. SamplesIn(i) \in SUBSET Samples /\ (x \in SamplesIn(i) <=> bucket_for(x) = i)
    BY DEF SamplesIn
  <2>2. mem[i] = SumOn(log, SamplesIn(i)) /\ i \in Cells
    BY CellFacts DEF SamplesLogged, HistogramInv
  <2>3. mem'[i] = IF bucket_for(x) = i THEN mem[i] + 1 ELSE mem[i]
    BY <2>2, BucketEffect
  <2>4. QED
    BY <1>21, <2>1, <2>2, <2>3
<1>5. CountInv'
  <2>1. mem'[Count] = mem[Count] /\ mem[Count] \in Nat
    <3>1. Count \in Cells /\ Count \notin Buckets
      BY CellFacts
    <3>2. QED
      BY <3>1, BucketEffect DEF TypeOK
  <2>2. Cardinality(Owing') = Cardinality(Owing) + 1 /\ Cardinality(Owing) \in Nat
    BY BucketEffect, OwingFacts, FS_AddElement
  <2>3. SumOn(log', Samples) = SumOn(log, Samples) + 1 /\ SumOn(log, Samples) \in Nat
    BY <1>2, SampleAdded
  <2>4. QED
    BY <2>1, <2>2, <2>3 DEF SamplesLogged, CountInv
<1>6. TotalInv'
  <2>1. mem'[Total] = mem[Total] /\ mem[Total] \in Nat
    <3>1. Total \in Cells /\ Total \notin Buckets
      BY CellFacts
    <3>2. QED
      BY <3>1, BucketEffect DEF TypeOK
  <2>2. SumOn(Unsummed', Recorders) = SumOn(Unsummed, Recorders) + x /\ SumOn(Unsummed, Recorders) \in Nat
    <3>1. x \in Nat
      BY SampleFacts
    <3>2. QED
      BY <1>1, <3>1, UnsummedChange
  <2>3. SumOn(Weighted', Samples) = SumOn(Weighted, Samples) + x /\ SumOn(Weighted, Samples) \in Nat
    BY <1>2, SampleAdded
  <2>4. x \in Nat
    BY SampleFacts
  <2>5. QED
    BY <2>1, <2>2, <2>3, <2>4 DEF SamplesLogged, TotalInv
<1>7. Recorded' = Recorded \union {x} /\ mem'[MinNs] = mem[MinNs] /\ mem'[MaxNs] = mem[MaxNs]
  BY <1>21, <1>22
<1>8. MinInv'
  <2>1. MinInv
    BY DEF SamplesLogged
  <2>2. mem'[MinNs] \in Recorded' \union {UINT64_MAX}
    BY <1>7, <2>1 DEF MinInv
  <2>3. ASSUME NEW y \in Recorded', ~(mem'[MinNs] <= y)
        PROVE  \E q \in Recorders : /\ rpc'[q] \in {"total", "count", "min", "cas_min"}
                                    /\ ns'[q] = y
    BY <1>1, <1>7, <2>1, <2>3 DEF MinInv
  <2>4. QED
    BY <2>2, <2>3 DEF MinInv
<1>9. MaxInv'
  <2>1. MaxInv
    BY DEF SamplesLogged
  <2>2. mem'[MaxNs] \in Recorded' \union {0}
    BY <1>7, <2>1 DEF MaxInv
  <2>3. ASSUME NEW y \in Recorded', ~(y <= mem'[MaxNs])
        PROVE  \E q \in Busy' : ns'[q] = y
    <3>1. y = x \/ \E q \in Busy : ns[q] = y
      BY <1>7, <2>1, <2>3 DEF MaxInv
    <3>2. Busy' = Busy \union {r} /\ r \notin Busy /\ Busy \subseteq Recorders
      BY BucketEffect, BusyFacts
    <3>3. QED
      BY <1>1, <3>1, <3>2
  <2>4. QED
    BY <2>2, <2>3 DEF MaxInv
<1>10. QED
  BY <1>3, <1>4, <1>5, <1>6, <1>8, <1>9 DEF SamplesLogged

LEMMA NatFacts == TypeOK => (\A d \in Cells : mem[d] \in Nat) /\ (\A q \in Recorders : ns[q] \in Nat)
<1>1. TypeOK => mem \in [Cells -> Nat] /\ ns \in [Recorders -> 0 .. UINT64_MAX]
  BY DEF TypeOK
<1>2. QED
  BY <1>1, SampleFacts

\* The conjuncts that hold of a step of Record which leaves their cells alone.
LEMMA LoggedKept ==
    ASSUME TypeOK, TypeOK', SamplesLogged, log' = log, Busy' \subseteq Busy,
           \A q \in Busy' : ns'[q] = ns[q]
    PROVE  /\ Recorded' = Recorded /\ \A q \in Busy' : ns'[q] \in Recorded'
           /\ SumOn(Weighted', Samples) = SumOn(Weighted, Samples)
           /\ (\A i \in Buckets : mem'[i] = mem[i]) => HistogramInv'
           /\ mem'[Count] = mem[Count] /\ Owing' = Owing => CountInv'
<1>1. Recorded' = Recorded /\ Weighted' = Weighted
  BY DEF Recorded, Weighted
<1>2. \A q \in Busy' : ns'[q] \in Recorded'
  BY <1>1 DEF SamplesLogged
<1>3. (\A i \in Buckets : mem'[i] = mem[i]) => HistogramInv'
  <2>1. \A i \in Buckets : mem[i] = SumOn(log, SamplesIn(i))
    BY DEF SamplesLogged, HistogramInv
  <2>2. \A i \in Buckets : SamplesIn(i)' = SamplesIn(i)
    BY DEF SamplesIn
  <2>3. QED
    BY <2>1, <2>2 DEF HistogramInv
<1>4. mem'[Count] = mem[Count] /\ Owing' = Owing => CountInv'
  BY DEF SamplesLogged, CountInv
<1>5. QED
  BY <1>1, <1>2, <1>3, <1>4

LEMMA ExactTotal ==
    ASSUME TypeOK, TypeOK', SampleInv, SampleInv', SamplesLogged,
           NEW r \in Recorders, RecordTotal(r)
    PROVE  SamplesLogged'
<1>1. /\ rpc[r] = "total" /\ rpc'[r] = "count" /\ ns' = ns /\ log' = log
      /\ \A q \in Recorders : q # r => rpc'[q] = rpc[q]
  BY DEF RecordTotal, TypeOK, ghosts
<1>2. /\ mem'[Total] = mem[Total] + ns[r] /\ Busy' = Busy /\ Owing' = Owing
      /\ \A d \in Cells : d # Total => mem'[d] = mem[d]
  BY TotalEffect
<1>3. /\ Recorded' = Recorded /\ \A q \in Busy' : ns'[q] \in Recorded'
      /\ SumOn(Weighted', Samples) = SumOn(Weighted, Samples)
      /\ HistogramInv' /\ CountInv'
  BY <1>1, <1>2, CellFacts, LoggedKept
<1>4. TotalInv'
  <2>1. mem[Total] \in Nat /\ ns[r] \in Nat
    BY CellFacts, NatFacts
  <2>2. /\ SumOn(Unsummed, Recorders) = SumOn(Unsummed', Recorders) + ns[r]
        /\ SumOn(Unsummed', Recorders) \in Nat
    BY <1>1, <2>1, UnsummedChange
  <2>3. mem[Total] + SumOn(Unsummed, Recorders) = SumOn(Weighted, Samples)
    BY DEF SamplesLogged, TotalInv
  <2>4. mem'[Total] + SumOn(Unsummed', Recorders) = SumOn(Weighted', Samples)
    BY <1>2, <1>3, <2>1, <2>2, <2>3
  <2>5. QED
    BY <2>4 DEF TotalInv
<1>5. mem'[MinNs] = mem[MinNs] /\ mem'[MaxNs] = mem[MaxNs]
  BY <1>2, CellFacts
<1>6. MinInv'
  <2>1. \A q \in Recorders : rpc[q] \in {"total", "count", "min", "cas_min"} =>
                             rpc'[q] \in {"total", "count", "min", "cas_min"} /\ ns'[q] = ns[q]
    BY <1>1
  <2>2. QED
    BY <1>3, <1>5, <2>1 DEF SamplesLogged, MinInv
<1>7. MaxInv'
  BY <1>1, <1>2, <1>3, <1>5 DEF SamplesLogged, MaxInv
<1>8. QED
  BY <1>3, <1>4, <1>6, <1>7 DEF SamplesLogged

\* A recorder that has added its sample to the sum does not change what is owed.
LEMMA TotalKept ==
    ASSUME TypeOK, TypeOK', SampleInv, SampleInv', SamplesLogged, NEW r \in Recorders,
           log' = log, mem'[Total] = mem[Total],
           \A q \in Recorders : q # r => rpc'[q] = rpc[q] /\ ns'[q] = ns[q],
           rpc[r] # "total", rpc'[r] # "total"
    PROVE  TotalInv'
<1>1. SumOn(Unsummed', Recorders) = SumOn(Unsummed, Recorders)
  BY UnsummedChange
<1>2. Weighted' = Weighted
  BY DEF Weighted
<1>3. QED
  BY <1>1, <1>2 DEF SamplesLogged, TotalInv

LEMMA ExactCount ==
    ASSUME TypeOK, TypeOK', SampleInv, SampleInv', SamplesLogged,
           NEW r \in Recorders, RecordCount(r)
    PROVE  SamplesLogged'
<1>1. /\ rpc[r] = "count" /\ rpc'[r] = "min" /\ ns' = ns /\ log' = log
      /\ \A q \in Recorders : q # r => rpc'[q] = rpc[q]
  BY DEF RecordCount, TypeOK
<1>2. /\ mem'[Count] = mem[Count] + 1 /\ Busy' = Busy /\ r \in Owing /\ Owing' = Owing \ {r}
      /\ \A d \in Cells : d # Count => mem'[d] = mem[d]
  BY CountEffect
<1>3. /\ Recorded' = Recorded /\ \A q \in Busy' : ns'[q] \in Recorded'
      /\ HistogramInv'
  BY <1>1, <1>2, CellFacts, LoggedKept
<1>4. CountInv'
  <2>1. mem[Count] \in Nat
    BY CellFacts DEF TypeOK
  <2>2. Cardinality(Owing') = Cardinality(Owing) - 1 /\ Cardinality(Owing) \in Nat
    BY <1>2, OwingFacts, FS_RemoveElement
  <2>3. mem[Count] + Cardinality(Owing) = SumOn(log, Samples)
    BY DEF SamplesLogged, CountInv
  <2>4. mem'[Count] + Cardinality(Owing') = SumOn(log', Samples)
    BY <1>1, <1>2, <2>1, <2>2, <2>3
  <2>5. QED
    BY <2>4 DEF CountInv
<1>5. TotalInv'
  <2>1. mem'[Total] = mem[Total]
    BY <1>2, CellFacts
  <2>2. QED
    BY <1>1, <2>1, TotalKept
<1>6. mem'[MinNs] = mem[MinNs] /\ mem'[MaxNs] = mem[MaxNs]
  BY <1>2, CellFacts
<1>7. MinInv'
  <2>1. \A q \in Recorders : rpc[q] \in {"total", "count", "min", "cas_min"} =>
                             rpc'[q] \in {"total", "count", "min", "cas_min"} /\ ns'[q] = ns[q]
    BY <1>1
  <2>2. QED
    BY <1>3, <1>6, <2>1 DEF SamplesLogged, MinInv
<1>8. MaxInv'
  BY <1>1, <1>2, <1>3, <1>6 DEF SamplesLogged, MaxInv
<1>9. QED
  BY <1>3, <1>4, <1>5, <1>7, <1>8 DEF SamplesLogged

\* The compare-and-swap loops lose no sample: one that is neither reflected in
\* the minimum nor above it is still in the hands of a recorder.
LEMMA ExactMin ==
    ASSUME TypeOK, TypeOK', SampleInv, SampleInv', SamplesLogged,
           NEW r \in Recorders, LoadMin(r) \/ CasMin(r)
    PROVE  SamplesLogged'
<1> DEFINE Late == {"total", "count", "min", "cas_min"}
<1>1. /\ rpc[r] \in {"min", "cas_min"} /\ rpc'[r] \in {"cas_min", "max"} /\ ns' = ns /\ log' = log
      /\ \A q \in Recorders : q # r => rpc'[q] = rpc[q]
  BY DEF LoadMin, CasMin, MinKnown, TypeOK, ghosts
<1>2. /\ Busy' = Busy /\ Owing' = Owing
      /\ \A d \in Cells : d # MinNs => mem'[d] = mem[d]
  BY MinEffect
<1>3. /\ Recorded' = Recorded /\ \A q \in Busy' : ns'[q] \in Recorded'
      /\ HistogramInv' /\ CountInv'
  BY <1>1, <1>2, CellFacts, LoggedKept
<1>4. TotalInv'
  <2>1. mem'[Total] = mem[Total]
    BY <1>2, CellFacts
  <2>2. QED
    BY <1>1, <2>1, TotalKept
<1>5. MaxInv'
  <2>1. mem'[MaxNs] = mem[MaxNs]
    BY <1>2, CellFacts
  <2>2. QED
    BY <1>1, <1>2, <1>3, <2>1 DEF SamplesLogged, MaxInv
<1>6. r \in Busy /\ ns[r] \in Recorded
  BY <1>1 DEF SamplesLogged, Busy
<1>7. mem[MinNs] \in Nat /\ mem'[MinNs] \in Nat /\ ns[r] \in Nat /\ Recorded \subseteq Nat
  <2>1. \A d \in Cells : mem'[d] \in Nat
    BY DEF TypeOK
  <2>2. Recorded \subseteq Nat
    BY SampleFacts DEF Recorded
  <2>3. QED
    BY <2>1, <2>2, NatFacts, CellFacts
<1>8. \/ mem'[MinNs] = mem[MinNs] /\ (rpc'[r] = "cas_min" \/ mem[MinNs] <= ns[r])
      \/ mem'[MinNs] = ns[r] /\ ns[r] < mem[MinNs]
  <2>1. CASE MinKnown(r, mem[MinNs]) /\ UNCHANGED mem
    BY <1>7, <2>1 DEF MinKnown, TypeOK
  <2>2. CASE /\ rpc[r] = "cas_min" /\ mem[MinNs] = cur[r]
             /\ mem' = [mem EXCEPT ![MinNs] = ns[r]]
    <3>1. ns[r] < cur[r]
      BY <2>2 DEF SampleInv
    <3>2. MinNs \in Cells /\ mem \in [Cells -> Nat]
      BY CellFacts DEF TypeOK
    <3>3. QED
      BY <2>2, <3>1, <3>2
  <2>3. QED
    BY <2>1, <2>2 DEF LoadMin, CasMin
<1>9. MinInv'
  <2>1. /\ mem[MinNs] \in Recorded \union {UINT64_MAX}
        /\ \A x \in Recorded : mem[MinNs] <= x \/ \E q \in Recorders : rpc[q] \in Late /\ ns[q] = x
    BY DEF SamplesLogged, MinInv
  <2>2. mem'[MinNs] \in Recorded \union {UINT64_MAX}
    BY <1>6, <1>8, <2>1
  <2>3. ASSUME NEW x \in Recorded
        PROVE  mem'[MinNs] <= x \/ \E q \in Recorders : rpc'[q] \in Late /\ ns'[q] = x
    <3>1. x \in Nat
      BY <1>7
    <3>2. CASE mem[MinNs] <= x
      BY <1>7, <1>8, <3>1, <3>2
    <3>3. ASSUME NEW q \in Recorders, rpc[q] \in Late, ns[q] = x
          PROVE  mem'[MinNs] <= x \/ rpc'[q] \in Late
      BY <1>1, <1>7, <1>8, <3>1, <3>3
    <3>4. QED
      BY <1>1, <2>1, <3>2, <3>3
  <2>4. QED
    BY <1>3, <2>2, <2>3 DEF MinInv
<1>10. QED
  BY <1>3, <1>4, <1>5, <1>9 DEF SamplesLogged

LEMMA ExactMax ==
    ASSUME TypeOK, TypeOK', SampleInv, SampleInv', SamplesLogged,
           NEW r \in Recorders, LoadMax(r) \/ CasMax(r)
    PROVE  SamplesLogged'
<1>1. /\ rpc[r] \in {"max", "cas_max"} /\ rpc'[r] \in {"cas_max", "idle"} /\ log' = log
      /\ (rpc'[r] = "cas_max" => ns'[r] = ns[r])
      /\ \A q \in Recorders : q # r => rpc'[q] = rpc[q] /\ ns'[q] = ns[q]
  BY DEF LoadMax, CasMax, MaxKnown, TypeOK, ghosts
<1>2. /\ Busy' \subseteq Busy /\ Owing' = Owing
      /\ \A d \in Cells : d # MaxNs => mem'[d] = mem[d]
  BY MaxEffect
<1>3. \A q \in Busy' : ns'[q] = ns[q]
  BY <1>1 DEF Busy
<1>4. /\ Recorded' = Recorded /\ \A q \in Busy' : ns'[q] \in Recorded'
      /\ HistogramInv' /\ CountInv'
  BY <1>1, <1>2, <1>3, CellFacts, LoggedKept
<1>5. TotalInv'
  <2>1. mem'[Total] = mem[Total]
    BY <1>2, CellFacts
  <2>2. QED
    BY <1>1, <2>1, TotalKept
<1>6. MinInv'
  <2>1. mem'[MinNs] = mem[MinNs]
    BY <1>2, CellFacts
  <2>2. \A q \in Recorders : rpc[q] \in {"total", "count", "min", "cas_min"} =>
                             rpc'[q] \in {"total", "count", "min", "cas_min"} /\ ns'[q] = ns[q]
    BY <1>1
  <2>3. QED
    BY <1>4, <2>1, <2>2 DEF SamplesLogged, MinInv
<1>7. r \in Busy /\ ns[r] \in Recorded
  BY <1>1 DEF SamplesLogged, Busy
<1>8. mem[MaxNs] \in Nat /\ mem'[MaxNs] \in Nat /\ ns[r] \in Nat /\ Recorded \subseteq Nat
  <2>1. \A d \in Cells : mem'[d] \in Nat
    BY DEF TypeOK
  <2>2. Recorded \subseteq Nat
    BY SampleFacts DEF Recorded
  <2>3. QED
    BY <2>1, <2>2, NatFacts, CellFacts
<1>9. \/ mem'[MaxNs] = mem[MaxNs] /\ (rpc'[r] = "cas_max" \/ ns[r] <= mem[MaxNs])
      \/ mem'[MaxNs] = ns[r] /\ mem[MaxNs] < ns[r]
  <2>1. CASE MaxKnown(r, mem[MaxNs]) /\ UNCHANGED mem
    BY <1>8, <2>1 DEF MaxKnown, TypeOK
  <2>2. CASE /\ rpc[r] = "cas_max" /\ mem[MaxNs] = cur[r]
             /\ mem' = [mem EXCEPT ![MaxNs] = ns[r]]
    <3>1. cur[r] < ns[r]
      BY <2>2 DEF SampleInv
    <3>2. MaxNs \in Cells /\ mem \in [Cells -> Nat]
      BY CellFacts DEF TypeOK
    <3>3. QED
      BY <2>2, <3>1, <3>2
  <2>3. QED
    BY <2>1, <2>2 DEF LoadMax, CasMax
<1>10. MaxInv'
  <2>1. /\ mem[MaxNs] \in Recorded \union {0}
        /\ \A x \in Recorded : x <= mem[MaxNs] \/ \E q \in Busy : ns[q] = x
    BY DEF SamplesLogged, MaxInv
  <2>2. mem'[MaxNs] \in Recorded \union {0}
    BY <1>7, <1>9, <2>1
  <2>3. ASSUME NEW x \in Recorded
        PROVE  x <= mem'[MaxNs] \/ \E q \in Busy' : ns'[q] = x
    <3>1. x \in Nat
      BY <1>8
    <3>2. CASE x <= mem[MaxNs]
      BY <1>8, <1>9, <3>1, <3>2
    <3>3. ASSUME NEW q \in Busy, ns[q] = x
          PROVE  x <= mem'[MaxNs] \/ q \in Busy'
      <4>1. CASE q # r
        BY <1>1, <4>1 DEF Busy
      <4>2. CASE q = r /\ rpc'[r] = "cas_max"
        BY <4>2 DEF Busy
      <4>3. CASE q = r /\ rpc'[r] # "cas_max"
        BY <1>8, <1>9, <3>1, <3>3, <4>3
      <4>4. QED
        BY <4>1, <4>2, <4>3
    <3>4. QED
      BY <1>3, <2>1, <3>2, <3>3
  <2>4. QED
    BY <1>4, <2>2, <2>3 DEF MaxInv
<1>11. QED
  BY <1>4, <1>5, <1>6, <1>10 DEF SamplesLogged

LEMMA ExactStep ==
    TypeOK /\ TypeOK' /\ SampleInv /\ SampleInv' /\ ExactInv /\ [Next]_vars => ExactInv'
<1> SUFFICES ASSUME TypeOK, TypeOK', SampleInv, SampleInv', ExactInv, [Next]_vars
             PROVE  ExactInv'
  OBVIOUS
<1>1. Quiet => SamplesLogged
  BY DEF ExactInv
<1>2. ASSUME NEW r \in Recorders, NEW x \in Samples, RecordBucket(r, x) PROVE ExactInv'
  <2>1. zpos' = zpos /\ overlaps' = (IF zpos = 0 THEN overlaps ELSE overlaps + 1) /\ overlaps \in Nat /\ zpos \in Nat
    BY <1>2 DEF RecordBucket, resetting, TypeOK
  <2>2. CASE zpos = 0
    BY <1>1, <1>2, <2>1, <2>2, ExactBucket, ExactRecord
  <2>3. CASE zpos # 0
    BY <2>1, <2>3 DEF ExactInv, QuietReset, Quiet
  <2>4. QED
    BY <2>2, <2>3
<1>3. ASSUME NEW r \in Recorders, Record(r) PROVE ExactInv'
  <2>1. UNCHANGED <<zpos, overlaps>> /\ r \in Busy
    BY <1>3 DEF Record, RecordTotal, RecordCount, LoadMin, CasMin, LoadMax, CasMax, resetting,
                ghosts, Busy
  <2>2. SamplesLogged => SamplesLogged'
    BY <1>3, ExactTotal, ExactCount, ExactMin, ExactMax DEF Record
  <2>3. QED
    BY <1>1, <2>1, <2>2, ExactRecord
<1>4. CASE ResetFirst \/ ResetNext
  BY <1>4, ExactReset
<1>5. CASE StatsFirst \/ StatsNext \/ StatsReturn \/ UNCHANGED vars
  <2>1. UNCHANGED <<mem, rpc, ns, zpos, overlaps, log, counted>>
    BY <1>5 DEF StatsFirst, StatsNext, StatsReturn, vars, recording, resetting, ghosts
  <2>2. QuietReset' /\ Quiet' = Quiet
    BY <2>1 DEF ExactInv, QuietReset, Busy, Quiet
  <2>3. /\ Recorded' = Recorded /\ Busy' = Busy /\ Owing' = Owing
        /\ Unsummed' = Unsummed /\ Weighted' = Weighted
    BY <2>1 DEF Recorded, Busy, Owing, Unsummed, Weighted
  <2>4. SamplesLogged => SamplesLogged'
    BY <2>1, <2>3 DEF SamplesLogged, HistogramInv, SamplesIn, CountInv, TotalInv, MinInv, MaxInv
  <2>5. QED
    BY <1>1, <2>2, <2>4 DEF ExactInv
<1>6. QED
  BY <1>2, <1>3, <1>4, <1>5 DEF Next

\* A row of the export begins at or after the one before it.
LEMMA RowStep ==
    ASSUME NEW i \in Nat
    PROVE  bucket_to_ns(i) \in Nat /\ bucket_to_ns(i + 1) \in Nat /\ bucket_to_ns(i) <= bucket_to_ns(i + 1)
<1>1. PICK t \in Tiers : /\ t = TierOf(TIER_FIRST_IDX, i) /\ TIER_FIRST_IDX[t] <= i
                         /\ \A u \in Tiers : u > t => i < TIER_FIRST_IDX[u]
  BY TierFound, LayoutFacts
<1> DEFINE s == TIER_START_NS[t]
           d == TIER_STEP_NS[t]
           f == TIER_FIRST_IDX[t]
<1>2. s \in Nat /\ d \in Nat \ {0} /\ f \in Nat /\ t \in Nat
  BY LayoutFacts DEF Tiers
<1>3. bucket_to_ns(i) = s + (i - f) * d
  BY <1>1 DEF bucket_to_ns
<1>4. (i - f) * d \in Nat /\ ((i + 1) - f) * d = (i - f) * d + d
  <2> HIDE DEF s, d, f
  <2>1. i - f \in Nat /\ (i + 1) - f = (i - f) + 1
    BY <1>1, <1>2 DEF f
  <2>2. QED
    BY <1>2, <2>1
<1>5. CASE \A u \in Tiers : u > t => i + 1 < TIER_FIRST_IDX[u]
  <2>1. TierOf(TIER_FIRST_IDX, i + 1) = t
    <3>1. TIER_FIRST_IDX \in [Tiers -> Nat] /\ TIER_FIRST_IDX[1] = 0 /\ i + 1 \in Nat /\ TIER_FIRST_IDX[t] <= i + 1
      BY <1>1, <1>2, LayoutFacts
    <3>2. QED
      BY <1>5, <3>1, TierUnique
  <2>2. bucket_to_ns(i + 1) = s + ((i + 1) - f) * d
    BY <2>1 DEF bucket_to_ns
  <2> HIDE DEF s, d, f
  <2>3. QED
    BY <1>2, <1>3, <1>4, <2>2
<1>6. CASE ~ \A u \in Tiers : u > t => i + 1 < TIER_FIRST_IDX[u]
  <2>1. PICK u \in Tiers : u > t /\ ~(i + 1 < TIER_FIRST_IDX[u])
    BY <1>6
  <2>2. t + 1 \in Tiers /\ t + 1 <= u
    BY <1>2, <2>1, LayoutFacts
  <2>3. /\ TIER_FIRST_IDX[u] \in Nat /\ TIER_FIRST_IDX[t + 1] \in Nat
        /\ TIER_FIRST_IDX[t + 1] <= TIER_FIRST_IDX[u]
    BY <1>2, <2>2, FirstGrows, LayoutFacts, SMTT(30)
  <2>4. i < TIER_FIRST_IDX[t + 1]
    BY <1>1, <1>2, <2>2
  <2>5. i + 1 = TIER_FIRST_IDX[t + 1]
    BY <2>1, <2>3, <2>4
  <2>6. \A v \in Tiers : v > t + 1 => i + 1 < TIER_FIRST_IDX[v]
    BY <2>2, <2>5, FirstGrows
  <2>7. TierOf(TIER_FIRST_IDX, i + 1) = t + 1
    <3>1. /\ TIER_FIRST_IDX \in [Tiers -> Nat] /\ TIER_FIRST_IDX[1] = 0
          /\ i + 1 \in Nat /\ TIER_FIRST_IDX[t + 1] <= i + 1
      BY <2>5, LayoutFacts
    <3>2. QED
      BY <2>2, <2>6, <3>1, TierUnique
  <2>8. TIER_START_NS[t + 1] \in Nat /\ bucket_to_ns(i + 1) = TIER_START_NS[t + 1]
    <3>1. TIER_START_NS[t + 1] \in Nat /\ TIER_STEP_NS[t + 1] \in Nat
      BY <2>2, LayoutFacts
    <3>2. bucket_to_ns(i + 1) = TIER_START_NS[t + 1] + 0 * TIER_STEP_NS[t + 1]
      BY <2>5, <2>7 DEF bucket_to_ns
    <3>3. QED
      BY <3>1, <3>2
  <2>9. s + d * (TIER_FIRST_IDX[t + 1] - f - 1) < TIER_START_NS[t + 1]
    BY <2>2, LayoutAssumption DEF IsLayout, Tiers
  <2>10. s + d * (i - f) < TIER_START_NS[t + 1]
    <3> HIDE DEF s, d, f
    <3>1. TIER_FIRST_IDX[t + 1] - f - 1 = i - f
      BY <1>2, <2>5
    <3>2. QED
      BY <2>9, <3>1
  <2> HIDE DEF s, d, f
  <2>11. d * (i - f) = (i - f) * d
    BY <1>1, <1>2 DEF f
  <2>12. QED
    BY <1>2, <1>3, <1>4, <2>8, <2>10, <2>11
<1>7. QED
  BY <1>5, <1>6

LEMMA RowsGrow == \A i, j \in Nat : i <= j => bucket_to_ns(i) <= bucket_to_ns(j)
<1> SUFFICES ASSUME NEW i \in Nat, NEW j \in Nat, i <= j, ~(bucket_to_ns(i) <= bucket_to_ns(j))
             PROVE  FALSE
  OBVIOUS
<1> DEFINE T == {k \in Nat : i <= k /\ ~(bucket_to_ns(i) <= bucket_to_ns(k))}
<1>1. PICK k \in T : \A l \in T : k <= l
  <2>1. T \in SUBSET Nat /\ j \in T
    OBVIOUS
  <2> HIDE DEF T
  <2>2. QED
    BY <2>1, LeastElement
<1>2. k \in Nat /\ i <= k /\ ~(bucket_to_ns(i) <= bucket_to_ns(k)) /\ bucket_to_ns(i) \in Nat
  BY <1>1, RowStep
<1>3. k # i
  BY <1>2
<1>4. k - 1 \in Nat /\ i <= k - 1 /\ (k - 1) + 1 = k
  BY <1>2, <1>3
<1>5. bucket_to_ns(i) <= bucket_to_ns(k - 1)
  <2>1. ~(k <= k - 1)
    BY <1>2
  <2>2. k - 1 \notin T
    BY <1>1, <2>1
  <2>3. QED
    BY <1>4, <2>2
<1>6. bucket_to_ns(k - 1) \in Nat /\ bucket_to_ns(k) \in Nat /\ bucket_to_ns(k - 1) <= bucket_to_ns(k)
  BY <1>4, RowStep
<1>7. QED
  BY <1>2, <1>5, <1>6

\* A row of the export stands for the samples counted in its bucket and no others.
LEMMA OneRow == \A i \in Buckets : RowSamples(i) = SamplesIn(i)
<1> SUFFICES ASSUME NEW i \in Buckets, NEW x \in Samples
             PROVE  x \in RowSamples(i) <=> bucket_for(x) = i
  BY DEF RowSamples, SamplesIn
<1> DEFINE b == bucket_for(x)
<1>1. i \in Nat /\ x \in Nat /\ NUM_BUCKETS \in Nat /\ i + 1 <= NUM_BUCKETS
  BY CellFacts, SampleFacts
<1>2. /\ b \in Buckets /\ bucket_to_ns(b) <= x
      /\ b + 1 < NUM_BUCKETS => x < bucket_to_ns(b + 1)
  BY <1>1, SampleInItsRow DEF CsvRow
<1>3. x \in RowSamples(i) <=> /\ bucket_to_ns(i) <= x
                              /\ i + 1 < NUM_BUCKETS => x < bucket_to_ns(i + 1)
  BY DEF RowSamples, CsvRow
<1> HIDE DEF b
<1>4. b \in Nat /\ b + 1 <= NUM_BUCKETS
  BY <1>2, CellFacts
<1>5. bucket_to_ns(i) \in Nat /\ bucket_to_ns(b) \in Nat /\ bucket_to_ns(i + 1) \in Nat /\ bucket_to_ns(b + 1) \in Nat
  BY <1>1, <1>4, RowStep
<1>6. ASSUME x \in RowSamples(i), b < i PROVE FALSE
  <2>1. b + 1 <= i /\ b + 1 < NUM_BUCKETS /\ b + 1 \in Nat
    BY <1>1, <1>4, <1>6
  <2>2. bucket_to_ns(b + 1) <= bucket_to_ns(i)
    BY <1>1, <2>1, RowsGrow
  <2>3. QED
    BY <1>1, <1>2, <1>3, <1>5, <1>6, <2>1, <2>2
<1>7. ASSUME x \in RowSamples(i), i < b PROVE FALSE
  <2>1. i + 1 <= b /\ i + 1 < NUM_BUCKETS /\ i + 1 \in Nat
    BY <1>1, <1>4, <1>7
  <2>2. bucket_to_ns(i + 1) <= bucket_to_ns(b)
    BY <1>4, <2>1, RowsGrow
  <2>3. QED
    BY <1>1, <1>2, <1>3, <1>5, <1>7, <2>1, <2>2
<1>8. x \in RowSamples(i) => b = i
  BY <1>1, <1>4, <1>6, <1>7
<1>9. b = i => x \in RowSamples(i)
  BY <1>2, <1>3
<1>10. QED
  BY <1>8, <1>9 DEF b

\* StatsExact: at rest, when no record overlapped the last reset, the rows, the
\* count, the sum, the minimum and the maximum are those of the samples recorded
\* since, in whatever order the updates of concurrent records were interleaved.
THEOREM StatisticsAreExact == Spec => []StatsExact
<1>1. Init => TypeOK /\ SampleInv /\ ExactInv
  BY TypeInit, ExactInit
<1>2. TypeOK /\ SampleInv /\ ExactInv /\ [Next]_vars => (TypeOK /\ SampleInv /\ ExactInv)'
  BY TypeStep, ExactStep
<1>3. TypeOK /\ ExactInv => StatsExact
  <2> SUFFICES ASSUME TypeOK, ExactInv, AtRest, overlaps = 0
               PROVE  /\ \A i \in Buckets : mem[i] = SumOver(log, RowSamples(i))
                      /\ mem[Count] = SumOver(log, Samples)
                      /\ mem[Total] = SumOver([x \in Samples |-> x * log[x]], Samples)
                      /\ mem[MinNs] = Min(Recorded \union {UINT64_MAX})
                      /\ mem[MaxNs] = Max(Recorded \union {0})
    BY DEF StatsExact
  <2>1. Busy = {} /\ SamplesLogged
    BY DEF AtRest, ExactInv, Quiet
  <2>2. \A i \in Buckets : mem[i] = SumOver(log, RowSamples(i))
    <3>1. \A i \in Buckets : mem[i] = SumOn(log, SamplesIn(i))
      BY <2>1 DEF SamplesLogged, HistogramInv
    <3>2. \A i \in Buckets : SumOver(log, RowSamples(i)) = SumOn(log, RowSamples(i))
      BY Zenon DEF SumOver, SumOn
    <3>3. QED
      BY <3>1, <3>2, OneRow
  <2>3. mem[Count] = SumOver(log, Samples)
    <3>1. Owing = {} /\ mem[Count] \in Nat
      BY <2>1, OwingFacts, NatFacts, CellFacts
    <3>2. mem[Count] = SumOn(log, Samples)
      BY <2>1, <3>1, FS_EmptySet DEF SamplesLogged, CountInv
    <3>3. QED
      BY <3>2, Zenon DEF SumOver, SumOn
  <2>4. mem[Total] = SumOver([x \in Samples |-> x * log[x]], Samples)
    <3>1. \A r \in Recorders : Unsummed[r] = 0
      BY <2>1 DEF Unsummed, Busy
    <3>2. SumOn(Unsummed, Recorders) = 0 /\ mem[Total] \in Nat
      BY <3>1, SampleFacts, SumZero, NatFacts, CellFacts
    <3>3. mem[Total] = SumOn(Weighted, Samples)
      BY <2>1, <3>2 DEF SamplesLogged, TotalInv
    <3>4. QED
      BY <3>3, Zenon DEF SumOver, SumOn, Weighted
  <2>5. Recorded \subseteq Nat /\ Recorded \subseteq 0 .. UINT64_MAX
    BY SampleFacts DEF Recorded
  <2>6. mem[MinNs] = Min(Recorded \union {UINT64_MAX})
    <3> DEFINE S == Recorded \union {UINT64_MAX}
    <3>1. mem[MinNs] \in S
      BY <2>1 DEF SamplesLogged, MinInv
    <3>2. S \subseteq Nat /\ \A x \in S : x <= UINT64_MAX
      BY <2>5, SampleFacts
    <3>3. \A x \in Recorded : mem[MinNs] <= x
      BY <2>1 DEF SamplesLogged, MinInv, Busy
    <3>4. \A x \in S : mem[MinNs] <= x
      BY <3>1, <3>2, <3>3
    <3> HIDE DEF S
    <3>5. \A y \in S : (\A x \in S : y <= x) => y = mem[MinNs]
      <4>1. \A a, b \in Nat : a <= b /\ b <= a => a = b
        OBVIOUS
      <4>2. QED
        BY <3>1, <3>2, <3>4, <4>1
    <3>6. mem[MinNs] = Min(S)
      BY <3>1, <3>4, <3>5 DEF Min
    <3>7. QED
      BY <3>6 DEF S
  <2>7. mem[MaxNs] = Max(Recorded \union {0})
    <3> DEFINE S == Recorded \union {0}
    <3>1. mem[MaxNs] \in S
      BY <2>1 DEF SamplesLogged, MaxInv
    <3>2. S \subseteq Nat
      BY <2>5
    <3>3. \A x \in Recorded : x <= mem[MaxNs]
      BY <2>1 DEF SamplesLogged, MaxInv
    <3>4. \A x \in S : mem[MaxNs] >= x
      BY <3>1, <3>2, <3>3
    <3> HIDE DEF S
    <3>5. \A y \in S : (\A x \in S : y >= x) => y = mem[MaxNs]
      <4>1. \A a, b \in Nat : a >= b /\ b >= a => a = b
        OBVIOUS
      <4>2. QED
        BY <3>1, <3>2, <3>4, <4>1
    <3>6. mem[MaxNs] = Max(S)
      BY <3>1, <3>4, <3>5 DEF Max
    <3>7. QED
      BY <3>6 DEF S
  <2>8. QED
    BY <2>2, <2>3, <2>4, <2>6, <2>7
<1>4. QED
  BY <1>1, <1>2, <1>3, PTL DEF Spec

-----------------------------------------------------------------------------
(***************************************************************************)
(* Percentiles taken while samples are recorded.                           *)
(***************************************************************************)

OwingIn(i) == {r \in Owing : bucket_for(ns[r]) = i}

\* Between resets, a bucket is ahead of the count by the records that owe it.
CountedExact ==
    /\ \A i \in Buckets : mem[i] = counted[i] + Cardinality(OwingIn(i))
    /\ mem[Count] = SumOn(counted, Buckets)

CountedInv == Quiet => CountedExact

\* What get_stats has loaded, while nothing disturbed it: the count is that of
\* base, and the buckets have not fallen behind it since.
LoadInv ==
    clean =>
        /\ spos > 0 /\ Quiet /\ seen[Count] = SumOn(base, Buckets)
        /\ \A i \in Buckets : base[i] <= counted[i]
        /\ \A k \in 5 .. spos : base[StatsOrder[k]] <= seen[StatsOrder[k]]

LEMMA OwingInFacts ==
    \A i : IsFiniteSet(OwingIn(i)) /\ Cardinality(OwingIn(i)) \in Nat
<1>1. \A i : OwingIn(i) \in SUBSET Owing
  BY DEF OwingIn
<1>2. QED
  BY <1>1, OwingFacts, FS_Subset, FS_CardinalityType

LEMMA CountedFresh ==
    TypeOK /\ Fresh /\ (\A i \in Buckets : counted[i] = 0) => CountedExact
<1> SUFFICES ASSUME TypeOK, Fresh, \A i \in Buckets : counted[i] = 0 PROVE CountedExact
  OBVIOUS
<1>1. Owing = {} /\ mem[Count] = 0 /\ \A i \in Buckets : mem[i] = 0
  BY OwingFacts, CellFacts, InitialFacts DEF Fresh
<1>2. \A i : OwingIn(i) = {}
  BY <1>1 DEF OwingIn
<1>3. SumOn(counted, Buckets) = 0
  BY CellFacts, SumZero
<1>4. QED
  BY <1>1, <1>2, <1>3, FS_EmptySet DEF CountedExact

LEMMA CountedFreshNext ==
    TypeOK' /\ Fresh' /\ (\A i \in Buckets : counted'[i] = 0) => CountedExact'
<1>1. TypeOK' /\ Fresh' /\ (\A i \in Buckets : counted[i] = 0)' => CountedExact'
  BY CountedFresh, PTL
<1>2. QED
  BY <1>1

LEMMA CountedInit == Init => CountedInv /\ LoadInv
<1> SUFFICES ASSUME Init PROVE CountedInv /\ LoadInv
  OBVIOUS
<1>1. TypeOK
  BY TypeInit
<1>2. Fresh /\ (\A i \in Buckets : counted[i] = 0) /\ clean = FALSE
  BY DEF Init, Fresh, Busy
<1>3. CountedExact
  BY <1>1, <1>2, CountedFresh
<1>4. QED
  BY <1>2, <1>3 DEF CountedInv, LoadInv

\* A step that leaves buckets, count and the records that owe them alone.
LEMMA CountedKept ==
    ASSUME TypeOK, CountedExact, counted' = counted, Owing' = Owing, mem'[Count] = mem[Count],
           \A i \in Buckets : mem'[i] = mem[i], \A q \in Owing : ns'[q] = ns[q]
    PROVE  CountedExact'
<1>1. \A i \in Buckets : OwingIn(i)' = OwingIn(i)
  BY DEF OwingIn
<1>2. QED
  BY <1>1 DEF CountedExact

LEMMA CountedStep ==
    TypeOK /\ TypeOK' /\ SampleInv /\ ExactInv /\ CountedInv /\ [Next]_vars => CountedInv'
<1> SUFFICES ASSUME TypeOK, TypeOK', SampleInv, ExactInv, CountedInv, [Next]_vars, Quiet'
             PROVE  CountedExact'
  BY DEF CountedInv
<1>1. ASSUME NEW r \in Recorders, NEW x \in Samples, RecordBucket(r, x) PROVE CountedExact'
  <2>1. /\ rpc[r] = "idle" /\ ns'[r] = x /\ counted' = counted
        /\ \A q \in Recorders : q # r => ns'[q] = ns[q]
    BY <1>1 DEF RecordBucket, TypeOK
  <2>2. CountedExact
    BY <1>1 DEF Quiet, RecordBucket, resetting, CountedInv
  <2>3. /\ bucket_for(x) \in Buckets /\ mem'[bucket_for(x)] = mem[bucket_for(x)] + 1
        /\ \A d \in Cells : d # bucket_for(x) => mem'[d] = mem[d]
        /\ r \notin Owing /\ Owing' = Owing \union {r}
    BY <1>1, BucketEffect
  <2>4. ASSUME NEW i \in Buckets PROVE mem'[i] = counted'[i] + Cardinality(OwingIn(i)')
    <3>1. mem[i] = counted[i] + Cardinality(OwingIn(i)) /\ counted[i] \in Nat
      BY <2>2 DEF CountedExact, TypeOK
    <3>2. CASE i = bucket_for(x)
      <4>1. OwingIn(i)' = OwingIn(i) \union {r} /\ r \notin OwingIn(i)
        BY <2>1, <2>3, <3>2, OwingFacts, BusyFacts DEF OwingIn
      <4>2. Cardinality(OwingIn(i)') = Cardinality(OwingIn(i)) + 1 /\ Cardinality(OwingIn(i)) \in Nat
        BY <4>1, OwingInFacts, FS_AddElement
      <4>3. QED
        BY <2>1, <2>3, <3>1, <3>2, <4>2
    <3>3. CASE i # bucket_for(x)
      <4>1. OwingIn(i)' = OwingIn(i)
        BY <2>1, <2>3, <3>3, OwingFacts, BusyFacts DEF OwingIn
      <4>2. mem'[i] = mem[i]
        BY <2>3, <3>3, CellFacts
      <4>3. QED
        BY <2>1, <3>1, <4>1, <4>2
    <3>4. QED
      BY <3>2, <3>3
  <2>5. mem'[Count] = SumOn(counted', Buckets)
    <3>1. mem'[Count] = mem[Count]
      BY <2>3, CellFacts
    <3>2. QED
      BY <2>1, <2>2, <3>1 DEF CountedExact
  <2>6. QED
    BY <2>4, <2>5 DEF CountedExact
<1>2. ASSUME NEW r \in Recorders, RecordCount(r) PROVE CountedExact'
  <2> DEFINE b == bucket_for(ns[r])
  <2>1. ns' = ns /\ counted' = [counted EXCEPT ![b] = counted[b] + 1] /\ rpc[r] # "idle"
    BY <1>2 DEF RecordCount
  <2>2. CountedExact
    BY <1>2 DEF Quiet, RecordCount, resetting, CountedInv
  <2>3. b \in Buckets
    BY <2>1, SampleFacts DEF SampleInv
  <2>4. /\ mem'[Count] = mem[Count] + 1 /\ r \in Owing /\ Owing' = Owing \ {r}
        /\ \A d \in Cells : d # Count => mem'[d] = mem[d]
    BY <1>2, CountEffect
  <2>5. counted \in [Buckets -> Nat] /\ mem[Count] \in Nat
    BY NatFacts, CellFacts DEF TypeOK
  <2> HIDE DEF b
  <2>6. /\ counted'[b] = counted[b] + 1 /\ \A i \in Buckets : i # b => counted'[i] = counted[i]
        /\ \A i \in Buckets : counted[i] \in Nat /\ counted'[i] \in Nat
    BY <2>1, <2>3, <2>5
  <2>7. ASSUME NEW i \in Buckets PROVE mem'[i] = counted'[i] + Cardinality(OwingIn(i)')
    <3>1. mem[i] = counted[i] + Cardinality(OwingIn(i)) /\ mem'[i] = mem[i]
      BY <2>2, <2>4, CellFacts DEF CountedExact
    <3>2. CASE i = b
      <4>1. OwingIn(i)' = OwingIn(i) \ {r} /\ r \in OwingIn(i)
        BY <2>1, <2>4, <3>2 DEF OwingIn, b
      <4>2. Cardinality(OwingIn(i)') = Cardinality(OwingIn(i)) - 1 /\ Cardinality(OwingIn(i)) \in Nat
        BY <4>1, OwingInFacts, FS_RemoveElement
      <4>3. QED
        BY <2>6, <3>1, <3>2, <4>2
    <3>3. CASE i # b
      <4>1. OwingIn(i)' = OwingIn(i)
        BY <2>1, <2>4, <3>3 DEF OwingIn, b
      <4>2. QED
        BY <2>6, <3>1, <3>3, <4>1
    <3>4. QED
      BY <3>2, <3>3
  <2>8. mem'[Count] = SumOn(counted', Buckets)
    <3>1. PICK f, g : f = counted /\ g = counted'
      OBVIOUS
    <3>2. /\ \A i \in Buckets : f[i] \in Nat /\ g[i] \in Nat
          /\ \A i \in Buckets : i # b => f[i] = g[i]
      BY <2>6, <3>1
    <3>3. SumOn(g, Buckets) + f[b] = SumOn(f, Buckets) + g[b] /\ SumOn(g, Buckets) \in Nat
      <4>1. IsFiniteSet(Buckets)
        BY CellFacts
      <4>2. SumOn(g, Buckets) + f[b] = SumOn(f, Buckets) + g[b]
        BY <2>3, <3>2, <4>1, SumUpdate
      <4>3. SumOn(g, Buckets) \in Nat
        BY <3>2, <4>1, SumNat
      <4>4. QED
        BY <4>2, <4>3
    <3>4. mem[Count] = SumOn(f, Buckets) /\ g[b] = f[b] + 1 /\ f[b] \in Nat
      BY <2>2, <2>3, <2>6, <3>1 DEF CountedExact
    <3>5. SumOn(g, Buckets) = mem[Count] + 1
      BY <2>5, <3>3, <3>4
    <3>6. QED
      BY <2>4, <3>1, <3>5
  <2>9. QED
    BY <2>7, <2>8 DEF CountedExact
<1>3. ASSUME NEW r \in Recorders, RecordTotal(r) \/ LoadMin(r) \/ CasMin(r) PROVE CountedExact'
  <2>1. UNCHANGED <<ns, counted, zpos, overlaps>>
    BY <1>3 DEF RecordTotal, LoadMin, CasMin, ghosts, resetting
  <2>2. /\ mem'[Count] = mem[Count] /\ Owing' = Owing /\ \A i \in Buckets : mem'[i] = mem[i]
    BY <1>3, TotalEffect, MinEffect, CellFacts
  <2>3. CountedExact
    BY <2>1 DEF CountedInv, Quiet
  <2>4. QED
    BY <2>1, <2>2, <2>3, CountedKept
<1>4. ASSUME NEW r \in Recorders, LoadMax(r) \/ CasMax(r) PROVE CountedExact'
  <2>1. UNCHANGED <<counted, zpos, overlaps>>
    BY <1>4 DEF LoadMax, CasMax, ghosts, resetting
  <2>2. /\ mem'[Count] = mem[Count] /\ Owing' = Owing /\ \A i \in Buckets : mem'[i] = mem[i]
    BY <1>4, MaxEffect, CellFacts
  <2>3. \A q \in Owing : ns'[q] = ns[q]
    BY <1>4 DEF LoadMax, CasMax, MaxKnown, Owing, TypeOK
  <2>4. CountedExact
    BY <2>1 DEF CountedInv, Quiet
  <2>5. QED
    BY <2>1, <2>2, <2>3, <2>4, CountedKept
<1>5. CASE ResetFirst
  BY <1>5 DEF ResetFirst, Quiet
<1>6. CASE ResetNext
  <2>1. zpos' = 0 /\ overlaps' = 0
    BY DEF Quiet
  <2>2. Fresh' /\ \A i \in Buckets : counted'[i] = 0
    BY <1>6, <2>1, ResetGoesOn
  <2>3. QED
    BY <2>2, CountedFreshNext
<1>7. CASE StatsFirst \/ StatsNext \/ StatsReturn \/ UNCHANGED vars
  <2>1. UNCHANGED <<mem, rpc, ns, counted, zpos, overlaps>>
    BY <1>7 DEF StatsFirst, StatsNext, StatsReturn, vars, recording, resetting, ghosts
  <2>2. CountedExact /\ Owing' = Owing
    BY <2>1 DEF CountedInv, Quiet, Owing
  <2>3. QED
    BY <2>1, <2>2, CountedKept
<1>8. QED
  BY <1>1, <1>2, <1>3, <1>4, <1>5, <1>6, <1>7 DEF Next, Record

\* From its fifth load on, get_stats loads the buckets.
LEMMA StatsBuckets ==
    /\ \A k \in 5 .. NUM_BUCKETS + 4 : StatsOrder[k] \in Buckets
    /\ \A i \in Buckets : i + 5 \in 5 .. NUM_BUCKETS + 4 /\ StatsOrder[i + 5] = i
<1>1. ASSUME NEW k \in 5 .. NUM_BUCKETS + 4 PROVE StatsOrder[k] \in Buckets
  <2>1. k - 4 \in 1 .. NUM_BUCKETS /\ (k - 4) + 4 = k
    BY CellFacts
  <2>2. StatsOrder[k] = (k - 4) - 1
    BY <2>1, StatsOrderFacts
  <2>3. QED
    BY <2>1, <2>2, CellFacts
<1>2. ASSUME NEW i \in Buckets PROVE i + 5 \in 5 .. NUM_BUCKETS + 4 /\ StatsOrder[i + 5] = i
  <2>1. i + 1 \in 1 .. NUM_BUCKETS /\ (i + 1) + 4 = i + 5 /\ i + 5 \in 5 .. NUM_BUCKETS + 4 /\ (i + 1) - 1 = i
    BY CellFacts
  <2>2. StatsOrder[(i + 1) + 4] = (i + 1) - 1
    BY <2>1, StatsOrderFacts
  <2>3. QED
    BY <2>1, <2>2
<1>3. QED
  BY <1>1, <1>2

LEMMA LoadStep ==
    TypeOK /\ TypeOK' /\ SampleInv /\ CountedInv /\ LoadInv /\ [Next]_vars => LoadInv'
<1> SUFFICES ASSUME TypeOK, TypeOK', SampleInv, CountedInv, LoadInv, [Next]_vars, clean'
             PROVE  LoadInv'
  BY DEF LoadInv
<1>1. /\ counted \in [Buckets -> Nat] /\ base \in [Buckets -> Nat] /\ seen \in [Cells -> Nat]
      /\ NUM_BUCKETS \in Nat /\ spos \in 0 .. NUM_BUCKETS + 4 /\ Count \in Cells
      /\ \A i \in Buckets : counted[i] <= counted[i]
  <2>1. counted \in [Buckets -> Nat]
    BY DEF TypeOK
  <2>2. \A i \in Buckets : counted[i] <= counted[i]
    BY <2>1
  <2>3. QED
    BY <2>2, CellFacts DEF TypeOK
<1>2. ASSUME CountedExact, NEW i \in Buckets PROVE counted[i] <= mem[i]
  <2>1. mem[i] = counted[i] + Cardinality(OwingIn(i)) /\ Cardinality(OwingIn(i)) \in Nat /\ counted[i] \in Nat
    BY <1>1, <1>2, OwingInFacts DEF CountedExact
  <2>2. QED
    BY <2>1
<1>3. ASSUME UNCHANGED <<spos, seen, base, clean, zpos, overlaps>>,
             \A i \in Buckets : counted[i] <= counted'[i]
      PROVE  LoadInv'
  <2>1. /\ spos > 0 /\ Quiet /\ seen[Count] = SumOn(base, Buckets)
        /\ \A i \in Buckets : base[i] <= counted[i]
        /\ \A k \in 5 .. spos : base[StatsOrder[k]] <= seen[StatsOrder[k]]
    BY <1>3 DEF LoadInv
  <2>2. \A i \in Buckets : counted'[i] \in Nat
    BY DEF TypeOK
  <2>3. \A i \in Buckets : base'[i] <= counted'[i]
    BY <1>1, <1>3, <2>1, <2>2
  <2>4. Quiet'
    BY <1>3, <2>1 DEF Quiet
  <2>5. QED
    BY <1>3, <2>1, <2>3, <2>4 DEF LoadInv
<1>4. ASSUME NEW r \in Recorders, NEW x \in Samples, RecordBucket(r, x) PROVE LoadInv'
  <2>1. UNCHANGED <<spos, seen, base, clean, zpos, counted>> /\ overlaps' = (IF zpos = 0 THEN overlaps ELSE overlaps + 1)
    BY <1>4 DEF RecordBucket, resetting, stats
  <2>2. zpos = 0
    BY <2>1 DEF LoadInv, Quiet
  <2>3. QED
    <3>1. UNCHANGED <<spos, seen, base, clean, zpos, overlaps>>
      BY <2>1, <2>2
    <3>2. \A i \in Buckets : counted[i] <= counted'[i]
      BY <1>1, <2>1
    <3>3. QED
      BY <1>3, <3>1, <3>2
<1>5. ASSUME NEW r \in Recorders, RecordCount(r) PROVE LoadInv'
  <2>1. UNCHANGED <<spos, seen, base, clean, zpos, overlaps>> /\ rpc[r] # "idle"
        /\ counted' = [counted EXCEPT ![bucket_for(ns[r])] = @ + 1]
    BY <1>5 DEF RecordCount, resetting, stats
  <2>2. bucket_for(ns[r]) \in Buckets
    BY <2>1, SampleFacts DEF SampleInv
  <2>3. \A i \in Buckets : counted[i] <= counted'[i]
    BY <1>1, <2>1, <2>2
  <2>4. QED
    BY <1>3, <2>1, <2>3
<1>6. ASSUME NEW r \in Recorders,
             RecordTotal(r) \/ LoadMin(r) \/ CasMin(r) \/ LoadMax(r) \/ CasMax(r)
      PROVE  LoadInv'
  <2>1. UNCHANGED <<spos, seen, base, clean, zpos, overlaps, counted>>
    BY <1>6 DEF RecordTotal, LoadMin, CasMin, LoadMax, CasMax, resetting, stats, ghosts
  <2>2. QED
    <3>1. UNCHANGED <<spos, seen, base, clean, zpos, overlaps>>
      BY <2>1
    <3>2. \A i \in Buckets : counted[i] <= counted'[i]
      BY <1>1, <2>1
    <3>3. QED
      BY <1>3, <3>1, <3>2
<1>7. CASE ResetFirst \/ StatsReturn
  BY <1>7 DEF ResetFirst, StatsReturn
<1>8. CASE ResetNext
  <2>1. clean' = clean /\ zpos > 0
    BY <1>8 DEF ResetNext, stats
  <2>2. QED
    BY <2>1 DEF LoadInv, Quiet
<1>9. CASE StatsFirst
  <2>1. /\ seen' = [seen EXCEPT ![Count] = mem[Count]] /\ spos' = 1 /\ base' = counted
        /\ Quiet /\ UNCHANGED <<zpos, overlaps, counted>>
    BY <1>9, StatsOrderFacts DEF StatsFirst, Quiet, resetting, ghosts
  <2>2. seen'[Count] = SumOn(base', Buckets)
    BY <1>1, <2>1 DEF CountedInv, CountedExact
  <2>3. /\ \A i \in Buckets : base'[i] <= counted'[i]
        /\ \A k \in 5 .. spos' : FALSE
    BY <1>1, <2>1
  <2>4. spos' > 0 /\ Quiet'
    BY <2>1 DEF Quiet
  <2>5. QED
    BY <2>2, <2>3, <2>4 DEF LoadInv
<1>10. CASE StatsNext
  <2> DEFINE c == StatsOrder[spos + 1]
  <2>1. /\ seen' = [seen EXCEPT ![c] = mem[c]] /\ spos' = spos + 1 /\ spos \in 1 .. NUM_BUCKETS + 3
        /\ UNCHANGED <<base, clean, zpos, overlaps, counted, mem>>
    <3>1. Len(StatsOrder) = NUM_BUCKETS + 4
      BY StatsOrderFacts
    <3>2. /\ seen' = [seen EXCEPT ![c] = mem[c]] /\ spos' = spos + 1
          /\ spos \in 1 .. Len(StatsOrder) - 1
          /\ UNCHANGED <<base, clean, zpos, overlaps, counted, mem>>
      BY <1>10 DEF StatsNext, resetting, ghosts
    <3>3. Len(StatsOrder) - 1 = NUM_BUCKETS + 3
      BY <1>1, <3>1
    <3> HIDE DEF c
    <3>4. QED
      BY <3>2, <3>3, Zenon
  <2>2. /\ spos > 0 /\ Quiet /\ seen[Count] = SumOn(base, Buckets)
        /\ \A i \in Buckets : base[i] <= counted[i]
        /\ \A k \in 5 .. spos : base[StatsOrder[k]] <= seen[StatsOrder[k]]
    BY <2>1 DEF LoadInv
  <2>3. spos + 1 \in 2 .. NUM_BUCKETS + 4 /\ spos + 1 \in 1 .. NUM_BUCKETS + 4
    BY <1>1, <2>1
  <2>4. \A k \in 5 .. NUM_BUCKETS + 4 : StatsOrder[k] \in Buckets
    BY StatsBuckets
  <2>5. c \in Cells /\ c # Count
    <3>1. CASE spos + 1 \in 2 .. 4
      <4>1. spos + 1 = 2 \/ spos + 1 = 3 \/ spos + 1 = 4
        BY <3>1
      <4>2. QED
        BY <2>3, <4>1, StatsOrderFacts, CellFacts
    <3>2. CASE spos + 1 \in 5 .. NUM_BUCKETS + 4
      BY <2>4, <3>2, CellFacts
    <3>3. QED
      BY <2>3, <3>1, <3>2
  <2> HIDE DEF c
  <2>6. seen'[c] = mem[c] /\ seen'[Count] = seen[Count] /\ \A d \in Cells : d # c => seen'[d] = seen[d]
    BY <1>1, <2>1, <2>5
  <2>7. ASSUME NEW k \in 5 .. spos' PROVE base'[StatsOrder[k]] <= seen'[StatsOrder[k]]
    <3>1. k \in 5 .. NUM_BUCKETS + 4 /\ (k \in 5 .. spos \/ k = spos + 1)
      BY <1>1, <2>1
    <3>2. StatsOrder[k] \in Buckets /\ StatsOrder[k] \in Cells
      BY <2>4, <3>1, CellFacts
    <3>3. CASE StatsOrder[k] # c
      BY <2>1, <2>2, <2>6, <3>1, <3>2, <3>3 DEF c
    <3>4. CASE StatsOrder[k] = c
      <4>1. base[c] <= counted[c] /\ counted[c] <= mem[c] /\ base[c] \in Nat /\ counted[c] \in Nat /\ mem[c] \in Nat
        <5>1. CountedExact
          BY <2>2 DEF CountedInv
        <5>2. QED
          BY <1>1, <1>2, <2>2, <3>2, <3>4, <5>1, NatFacts
      <4>2. QED
        BY <2>1, <2>6, <3>4, <4>1
    <3>5. QED
      BY <3>3, <3>4
  <2>8. spos' > 0 /\ Quiet'
    BY <1>1, <2>1, <2>2 DEF Quiet
  <2>9. \A i \in Buckets : base'[i] <= counted'[i]
    BY <2>1, <2>2
  <2>10. seen'[Count] = SumOn(base', Buckets)
    BY <2>1, <2>2, <2>6
  <2>11. QED
    BY <2>7, <2>8, <2>9, <2>10 DEF LoadInv
<1>11. CASE UNCHANGED vars
  <2>1. UNCHANGED <<spos, seen, base, clean, zpos, overlaps, counted>>
    BY <1>11 DEF vars, stats, resetting, ghosts
  <2>2. QED
    <3>1. UNCHANGED <<spos, seen, base, clean, zpos, overlaps>>
      BY <2>1
    <3>2. \A i \in Buckets : counted[i] <= counted'[i]
      BY <1>1, <2>1
    <3>3. QED
      BY <1>3, <3>1, <3>2
<1>12. QED
  BY <1>4, <1>5, <1>6, <1>7, <1>8, <1>9, <1>10, <1>11 DEF Next, Record

\* The buckets with which the samples of h reach p thousandths of count.
Reached(h, count, p) == {i \in Buckets : 1000 * SumOver(h, 0 .. i) >= p * count}

LEMMA MinFacts ==
    ASSUME NEW S \in SUBSET Nat, S # {}
    PROVE  Min(S) \in S /\ \A y \in S : Min(S) <= y
<1>1. \E x \in S : \A y \in S : x <= y
  BY LeastElement
<1>2. QED
  BY <1>1 DEF Min

\* More buckets reached, and the percentile is no higher.
LEMMA PercentileOrder ==
    ASSUME NEW g, NEW h, NEW c, NEW d, NEW m, NEW n, NEW p, NEW q,
           Reached(g, c, p) # {}, Reached(g, c, p) \subseteq Reached(h, d, q)
    PROVE  Percentile(h, d, m, q) <= Percentile(g, c, n, p)
<1> DEFINE G == Reached(g, c, p)
           H == Reached(h, d, q)
<1>1. G \in SUBSET Nat /\ H \in SUBSET Nat /\ H # {} /\ G # {}
  BY CellFacts DEF Reached
<1>2. /\ Percentile(g, c, n, p) = bucket_to_ns(Min(G))
      /\ Percentile(h, d, m, q) = bucket_to_ns(Min(H))
  BY <1>1, ZenonT(30) DEF Percentile, Reached
<1> HIDE DEF G, H
<1>3. Min(G) \in G /\ Min(H) \in H /\ \A y \in H : Min(H) <= y
  BY <1>1, MinFacts
<1>4. Min(H) <= Min(G) /\ Min(H) \in Nat /\ Min(G) \in Nat
  BY <1>1, <1>3 DEF G, H
<1>5. QED
  BY <1>2, <1>4, RowsGrow

LEMMA TimesMonotone == \A a, b, c \in Nat : a <= b => c * a <= c * b /\ a * c <= b * c
<1> SUFFICES ASSUME NEW a \in Nat, NEW b \in Nat, NEW c \in Nat, a <= b
             PROVE  c * a <= c * b /\ a * c <= b * c
  OBVIOUS
<1>1. PICK k \in Nat : b = a + k
  BY b - a \in Nat /\ b = a + (b - a)
<1>2. c * b = c * a + c * k /\ b * c = a * c + k * c
  BY <1>1
<1>3. c * a \in Nat /\ c * k \in Nat /\ a * c \in Nat /\ k * c \in Nat
  BY <1>1
<1>4. QED
  BY <1>2, <1>3

\* The sum of the buckets up to the last one is the sum of all.
LEMMA Prefixes ==
    /\ \A i \in Buckets : 0 .. i \in SUBSET Buckets /\ IsFiniteSet(0 .. i)
    /\ NUM_BUCKETS - 1 \in Buckets /\ 0 .. (NUM_BUCKETS - 1) = Buckets
<1>1. \A i \in Buckets : 0 .. i \in SUBSET Buckets
  BY CellFacts
<1>2. NUM_BUCKETS - 1 \in Buckets /\ 0 .. (NUM_BUCKETS - 1) = Buckets
  BY CellFacts
<1>3. QED
  BY <1>1, <1>2, CellFacts, FS_Subset

Thousandths == 0 .. 1000

LEMMA PctTargets ==
    /\ \A k \in DOMAIN pct_targets : pct_targets[k] \in Thousandths
    /\ \A k \in 1 .. 3 : /\ k \in DOMAIN pct_targets /\ k + 1 \in DOMAIN pct_targets
                         /\ pct_targets[k] <= pct_targets[k + 1]
<1>1. DOMAIN pct_targets = 1 .. 4
  BY DEF pct_targets
<1>2. /\ pct_targets[1] = 500 /\ pct_targets[2] = 950
      /\ pct_targets[3] = 990 /\ pct_targets[4] = 999
  BY DEF pct_targets
<1>3. ASSUME NEW k \in 1 .. 4 PROVE pct_targets[k] \in Thousandths
  <2>1. k = 1 \/ k = 2 \/ k = 3 \/ k = 4
    OBVIOUS
  <2>2. QED
    BY <1>2, <2>1 DEF Thousandths
<1>4. ASSUME NEW k \in 1 .. 3
      PROVE  k \in 1 .. 4 /\ k + 1 \in 1 .. 4 /\ pct_targets[k] <= pct_targets[k + 1]
  <2>1. k = 1 \/ k = 2 \/ k = 3
    OBVIOUS
  <2>2. QED
    BY <1>2, <2>1
<1>5. QED
  BY <1>1, <1>3, <1>4

\* PercentilesNotOverstated: get_stats loads the count first and the buckets
\* last, so that with samples recorded in between, each percentile is at most
\* that of the samples counted when it began, and they are in order.
THEOREM PercentilesAreNotOverstated == Spec => []PercentilesNotOverstated
<1>1. Init => TypeOK /\ SampleInv /\ ExactInv /\ CountedInv /\ LoadInv
  BY TypeInit, ExactInit, CountedInit
<1>2. TypeOK /\ SampleInv /\ ExactInv /\ CountedInv /\ LoadInv /\ [Next]_vars
        => (TypeOK /\ SampleInv /\ ExactInv /\ CountedInv /\ LoadInv)'
  BY TypeStep, ExactStep, CountedStep, LoadStep
<1>3. TypeOK /\ LoadInv => PercentilesNotOverstated
  <2> SUFFICES ASSUME TypeOK, LoadInv, spos = Len(StatsOrder), clean
               PROVE  /\ \A k \in DOMAIN pct_targets :
                           Reported(pct_targets[k]) <=
                             Percentile(base, SumOver(base, Buckets), UINT64_MAX, pct_targets[k])
                      /\ \A k \in 1 .. 3 : Reported(pct_targets[k]) <= Reported(pct_targets[k + 1])
    BY DEF PercentilesNotOverstated
  <2> DEFINE C == SumOver(base, Buckets)
  <2>1. spos = NUM_BUCKETS + 4 /\ seen \in [Cells -> Nat] /\ base \in [Buckets -> Nat]
    BY StatsOrderFacts DEF TypeOK
  <2>2. \A f, T : SumOver(f, T) = SumOn(f, T)
    BY Zenon DEF SumOver, SumOn
  <2>3. C \in Nat /\ seen[Count] = C
    <3>1. SumOn(base, Buckets) \in Nat
      BY <2>1, CellFacts, SumNat
    <3>2. seen[Count] = SumOn(base, Buckets)
      BY DEF LoadInv
    <3>3. QED
      BY <2>2, <3>1, <3>2
  <2>4. \A i \in Buckets : /\ base[i] \in Nat /\ seen[i] \in Nat /\ base[i] <= seen[i]
    BY <2>1, StatsBuckets, CellFacts DEF LoadInv
  <2>5. \A i \in Buckets : /\ SumOver(base, 0 .. i) \in Nat /\ SumOver(seen, 0 .. i) \in Nat
                           /\ SumOver(base, 0 .. i) <= SumOver(seen, 0 .. i)
    <3> SUFFICES ASSUME NEW i \in Buckets
                 PROVE  /\ SumOn(base, 0 .. i) \in Nat /\ SumOn(seen, 0 .. i) \in Nat
                        /\ SumOn(base, 0 .. i) <= SumOn(seen, 0 .. i)
      BY <2>2
    <3>1. IsFiniteSet(0 .. i) /\ \A j \in 0 .. i : base[j] \in Nat /\ seen[j] \in Nat /\ base[j] <= seen[j]
      BY <2>4, Prefixes
    <3> DEFINE T == 0 .. i
    <3> HIDE DEF T
    <3>2. IsFiniteSet(T) /\ \A j \in T : base[j] \in Nat /\ seen[j] \in Nat /\ base[j] <= seen[j]
      BY <3>1 DEF T
    <3>3. SumOn(base, T) \in Nat /\ SumOn(seen, T) \in Nat
      BY <3>2, SumNat
    <3>4. SumOn(base, T) <= SumOn(seen, T)
      BY <3>2, SumMonotone
    <3>5. QED
      BY <3>3, <3>4 DEF T
  <2>6. C = SumOver(base, 0 .. (NUM_BUCKETS - 1))
    BY Prefixes
  <2> HIDE DEF C
  <2>7. ASSUME NEW p \in Thousandths
        PROVE  /\ Reached(base, C, p) # {} /\ Reached(base, C, p) \subseteq Reached(seen, C, p)
    <3>1. p * C <= 1000 * C
      BY <2>3, TimesMonotone DEF Thousandths
    <3>2. NUM_BUCKETS - 1 \in Reached(base, C, p)
      BY <2>3, <2>6, <3>1, Prefixes DEF Reached
    <3>3. ASSUME NEW i \in Buckets, 1000 * SumOver(base, 0 .. i) >= p * C
          PROVE  1000 * SumOver(seen, 0 .. i) >= p * C
      <4>1. PICK u \in Nat, v \in Nat : u = SumOver(base, 0 .. i) /\ v = SumOver(seen, 0 .. i) /\ u <= v
        BY <2>5
      <4>2. p * C \in Nat
        BY <2>3 DEF Thousandths
      <4>3. QED
        BY <3>3, <4>1, <4>2
    <3>4. QED
      BY <3>2, <3>3 DEF Reached
  <2>8. ASSUME NEW p \in Thousandths, NEW q \in Thousandths, p <= q
        PROVE  /\ Reached(seen, C, q) # {} /\ Reached(seen, C, q) \subseteq Reached(seen, C, p)
    <3>1. Reached(seen, C, q) # {}
      BY <2>7
    <3>2. p * C <= q * C /\ p * C \in Nat /\ q * C \in Nat
      BY <2>3, <2>8, TimesMonotone DEF Thousandths
    <3>3. ASSUME NEW i \in Buckets, 1000 * SumOver(seen, 0 .. i) >= q * C
          PROVE  1000 * SumOver(seen, 0 .. i) >= p * C
      BY <2>5, <3>2, <3>3
    <3>4. QED
      BY <3>1, <3>3 DEF Reached
  <2>10. ASSUME NEW k \in DOMAIN pct_targets
         PROVE  Reported(pct_targets[k]) <= Percentile(base, C, UINT64_MAX, pct_targets[k])
    BY <2>3, <2>7, PctTargets, PercentileOrder DEF Reported
  <2>11. ASSUME NEW k \in 1 .. 3
         PROVE  Reported(pct_targets[k]) <= Reported(pct_targets[k + 1])
    <3>1. PICK p \in Thousandths, q \in Thousandths :
            p = pct_targets[k] /\ q = pct_targets[k + 1] /\ p <= q
      BY PctTargets
    <3>2. Reached(seen, C, q) # {} /\ Reached(seen, C, q) \subseteq Reached(seen, C, p)
      BY <2>8, <3>1, ZenonT(30)
    <3>3. Percentile(seen, C, seen[MaxNs], p) <= Percentile(seen, C, seen[MaxNs], q)
      BY <3>2, PercentileOrder
    <3>4. QED
      BY <2>3, <3>1, <3>3 DEF Reported
  <2>12. QED
    BY <2>10, <2>11 DEF C
<1>4. QED
  BY <1>1, <1>2, <1>3, PTL DEF Spec
=============================================================================
