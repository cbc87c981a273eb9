--------------------------- MODULE ByteRingProofs ---------------------------
(***************************************************************************)
(* Proofs about ByteRing, for every capacity, every width of the positions *)
(* that is a multiple of it, and every bound on the calls and the bytes.   *)
(***************************************************************************)
EXTENDS ByteRing, SequenceTheorems, TLAPS

-----------------------------------------------------------------------------
(***************************************************************************)
(* Arithmetic of positions.                                                *)
(***************************************************************************)

\* The remainder is in range and differs from its argument by a multiple.
LEMMA ModFacts ==
    ASSUME NEW a \in Int, NEW n \in Nat \ {0}
    PROVE  /\ a % n \in 0 .. n - 1
           /\ \E q \in Int : a = q * n + (a % n)
<1>1. a % n \in 0 .. n - 1 
  OBVIOUS
<1>2. a \div n \in Int /\ a = (a \div n) * n + (a % n)
  OBVIOUS
<1>3. QED
  BY <1>1, <1>2

\* Two numbers less than n apart that differ by a multiple of n are equal.
LEMMA NoMultiple ==
    ASSUME NEW q \in Int, NEW n \in Nat \ {0}, q * n < n, q * n > -n
    PROVE  q = 0
<1>1. ASSUME q >= 1 PROVE FALSE
  <2>1. PICK k \in Nat : q = 1 + k
    BY <1>1
  <2>2. q * n = n + k * n /\ k * n >= 0
    BY <2>1
  <2>3. QED
    BY <2>2
<1>2. ASSUME q <= -1 PROVE FALSE
  <2>1. PICK k \in Nat : q = -1 - k
    BY <1>2
  <2>2. q * n = -n - k * n /\ k * n >= 0
    BY <2>1
  <2>3. QED
    BY <2>2
<1>3. QED
  BY <1>1, <1>2

\* The remainder is the only number in range with that property.
LEMMA ModUnique ==
    ASSUME NEW n \in Nat \ {0}, NEW q \in Int, NEW r \in 0 .. n - 1,
           NEW a \in Int, a = q * n + r
    PROVE  a % n = r
<1>1. PICK k \in Int : a = k * n + (a % n)
  BY ModFacts
<1>2. a % n \in 0 .. n - 1
  BY ModFacts
<1>3. q - k \in Int /\ (q - k) * n = (a % n) - r
  <2>1. q * n \in Int /\ k * n \in Int /\ (q - k) * n = q * n - k * n
    OBVIOUS
  <2>2. QED
    BY <1>1, <1>2, <2>1
<1>4. q - k = 0
  <2> DEFINE d == q - k
  <2>1. d \in Int /\ d * n < n /\ d * n > -n
    BY <1>2, <1>3
  <2> HIDE DEF d
  <2>2. d = 0
    BY <2>1, NoMultiple
  <2>3. QED
    BY <2>2 DEF d
<1>5. QED
  BY <1>1, <1>4, <1>2

\* Adding a multiple of n, and reducing by a multiple of n first, change nothing.
LEMMA ModShift ==
    ASSUME NEW n \in Nat \ {0}, NEW m \in Nat \ {0}, NEW k \in Int, m = k * n,
           NEW a \in Int, NEW b \in Int
    PROVE  ((a % m) + b) % n = (a + b) % n
<1>1. PICK q \in Int : a = q * m + (a % m)
  BY ModFacts
<1>2. PICK u \in Int : a + b = u * n + ((a + b) % n)
  <2>1. a + b \in Int
    OBVIOUS
  <2>2. QED
    BY <2>1, ModFacts, Zenon
<1>3. a % m \in Int /\ (a + b) % n \in 0 .. n - 1
  BY ModFacts
<1>4. q * m = (q * k) * n /\ q * k \in Int
  OBVIOUS
<1>5. (a % m) + b = (u - q * k) * n + ((a + b) % n)
  <2> DEFINE v == q * k
             r == (a + b) % n
             x == a % m
  <2>1. v \in Int /\ a = v * n + x /\ a + b = u * n + r /\ x \in Int /\ r \in Int
    BY <1>1, <1>2, <1>3, <1>4
  <2> HIDE DEF v, r, x
  <2>2. v * n \in Int /\ u * n \in Int /\ (u - v) * n = u * n - v * n
    BY <2>1
  <2>3. x + b = (u - v) * n + r
    BY <2>1, <2>2
  <2>4. QED
    BY <2>3 DEF v, r, x
<1>6. QED
  <2> DEFINE x == (a % m) + b
             v == u - q * k
             r == (a + b) % n
  <2>1. x \in Int /\ v \in Int /\ r \in 0 .. n - 1 /\ x = v * n + r
    BY <1>3, <1>4, <1>5
  <2> HIDE DEF x, v, r
  <2>2. x % n = r
    BY <2>1, ModUnique
  <2>3. QED
    BY <2>2 DEF x, r

\* Numbers less than n apart have different remainders.
LEMMA ModInjective ==
    ASSUME NEW n \in Nat \ {0}, NEW a \in Int, NEW b \in Int,
           a - b < n, b - a < n, a % n = b % n
    PROVE  a = b
<1>1. PICK q \in Int : a = q * n + (a % n)
  BY ModFacts
<1>2. PICK u \in Int : b = u * n + (b % n)
  BY ModFacts
<1>3. a % n \in Int
  BY ModFacts
<1>4. q * n \in Int /\ u * n \in Int /\ (q - u) * n = q * n - u * n
  OBVIOUS
<1>5. a - b = (q - u) * n
  BY <1>1, <1>2, <1>3, <1>4
<1>6. q - u = 0
  <2> DEFINE d == q - u
  <2>1. d \in Int /\ d * n < n /\ d * n > -n
    BY <1>5
  <2> HIDE DEF d
  <2>2. d = 0
    BY <2>1, NoMultiple
  <2>3. QED
    BY <2>2 DEF d
<1>7. QED
  BY <1>5, <1>6

\* A number in range is its own remainder.
LEMMA ModSmall ==
    ASSUME NEW n \in Nat \ {0}, NEW a \in 0 .. n - 1
    PROVE  a % n = a
BY ModUnique

\* The distance of two positions after the first, or the second, moves by d.
LEMMA ModAhead ==
    ASSUME NEW m \in Nat \ {0}, NEW w \in Int, NEW r \in Int, NEW d \in Nat,
           ((w - r) % m) + d < m
    PROVE  (((w + d) % m) - r) % m = ((w - r) % m) + d
<1> DEFINE x == (w - r) % m
<1>1. x \in 0 .. m - 1
  BY ModFacts
<1>2. (((w + d) % m) - r) % m = (w + d - r) % m
  <2>1. m = 1 * m /\ 1 \in Int /\ w + d \in Int /\ -r \in Int
    OBVIOUS
  <2>2. (((w + d) % m) + (-r)) % m = ((w + d) + (-r)) % m
    BY <2>1, ModShift, Zenon
  <2>3. (w + d) % m \in Int
    BY ModFacts
  <2>4. QED
    BY <2>2, <2>3
<1>3. (((w - r) % m) + d) % m = ((w - r) + d) % m
  BY ModShift
<1>4. (x + d) % m = x + d
  BY <1>1, ModSmall
<1>5. (w - r) + d = w + d - r
  OBVIOUS
<1>6. QED
  BY <1>2, <1>3, <1>4, <1>5

LEMMA ModBehind ==
    ASSUME NEW m \in Nat \ {0}, NEW w \in Int, NEW r \in Int, NEW d \in Nat,
           d <= (w - r) % m
    PROVE  (w - ((r + d) % m)) % m = ((w - r) % m) - d
<1> DEFINE x == (w - r) % m
           y == (r + d) % m
<1>1. x \in 0 .. m - 1 /\ y \in 0 .. m - 1
  BY ModFacts
<1>2. PICK q \in Int : w - r = q * m + x
  <2>1. w - r \in Int
    OBVIOUS
  <2>2. QED
    BY <2>1, ModFacts, Zenon
<1>3. PICK u \in Int : r + d = u * m + y
  <2>1. r + d \in Int
    OBVIOUS
  <2>2. QED
    BY <2>1, ModFacts, Zenon
<1> HIDE DEF x, y
<1>4. q * m \in Int /\ u * m \in Int /\ (q + u) * m = q * m + u * m
  OBVIOUS
<1>5. w - y = (q + u) * m + (x - d)
  BY <1>1, <1>2, <1>3, <1>4
<1>6. x - d \in 0 .. m - 1 /\ q + u \in Int /\ w - y \in Int
  BY <1>1 DEF x
<1>7. (w - y) % m = x - d
  <2> DEFINE a == w - y
             v == q + u
             z == x - d
  <2>1. a \in Int /\ v \in Int /\ z \in 0 .. m - 1 /\ a = v * m + z
    BY <1>5, <1>6
  <2> HIDE DEF a, v, z
  <2>2. a % m = z
    BY <2>1, ModUnique
  <2>3. QED
    BY <2>2 DEF a, z
<1>8. QED
  BY <1>7 DEF x, y

-----------------------------------------------------------------------------
(***************************************************************************)
(* Facts about the operators of the ring.                                  *)
(***************************************************************************)

LEMMA ConstantFacts ==
    /\ Capacity \in Nat \ {0} /\ PosMod \in Nat \ {0} /\ Capacity < PosMod
    /\ \E k \in Int : PosMod = k * Capacity
<1>1. PICK k \in 2 .. PosMod : PosMod = k * Capacity
  BY PosModAssumption
<1>2. k \in Int /\ Capacity \in Nat \ {0}
  BY CapacityAssumption
<1>3. PICK h \in Nat : k = 2 + h
  BY <1>1, <1>2
<1>4. PosMod = Capacity + Capacity + h * Capacity /\ h * Capacity \in Nat
  BY <1>1, <1>2, <1>3
<1>5. QED
  BY <1>1, <1>2, <1>4

\* `& MASK' yields an index of the array.
LEMMA IndexType ==
    ASSUME NEW p \in Int, NEW i \in Int
    PROVE  Index(p, i) \in 0 .. Capacity - 1
<1>1. p + i - 1 \in Int /\ Capacity \in Nat \ {0}
  BY CapacityAssumption
<1>2. QED
  BY <1>1, ModFacts, Zenon DEF Index

\* Bytes less than Capacity apart are at different indices.
LEMMA IndexInjective ==
    ASSUME NEW p \in Int, NEW i \in Int, NEW j \in Int,
           i - j < Capacity, j - i < Capacity, Index(p, i) = Index(p, j)
    PROVE  i = j
<1> DEFINE a == p + i - 1
           b == p + j - 1
<1>1. a \in Int /\ b \in Int /\ a - b = i - j /\ b - a = j - i
      /\ Capacity \in Nat \ {0}
  BY CapacityAssumption
<1>2. a % Capacity = b % Capacity
  BY DEF Index
<1>3. a = b
  <2> HIDE DEF a, b
  <2>1. QED
    BY <1>1, <1>2, ModInjective
<1>4. QED
  BY <1>3

\* The wrap-around of the positions leaves the indices alone, PosMod being a
\* multiple of Capacity.
LEMMA IndexAhead ==
    ASSUME NEW p \in Int, NEW d \in Int, NEW i \in Int
    PROVE  Index((p + d) % PosMod, i) = Index(p, d + i)
<1> DEFINE a == p + d
           b == i - 1
<1>1. a \in Int /\ b \in Int /\ a % PosMod \in Int
      /\ PosMod \in Nat \ {0} /\ Capacity \in Nat \ {0}
  <2>1. a \in Int /\ b \in Int /\ PosMod \in Nat \ {0} /\ Capacity \in Nat \ {0}
    BY ConstantFacts
  <2> HIDE DEF a, b
  <2>2. QED
    BY <2>1, ModFacts
<1>2. PICK k \in Int : PosMod = k * Capacity
  BY ConstantFacts
<1>3. ((a % PosMod) + b) % Capacity = (a + b) % Capacity
  <2>1. \A x, y \in Int : ((x % PosMod) + y) % Capacity = (x + y) % Capacity
    BY <1>1, <1>2, ModShift
  <2> HIDE DEF a, b
  <2>2. QED
    BY <1>1, <2>1, Zenon
<1>4. (a % PosMod) + i - 1 = (a % PosMod) + b /\ p + (d + i) - 1 = a + b
  BY <1>1
<1>5. QED
  BY <1>3, <1>4 DEF Index

\* readable() and writable() are the distances they should be, and write_pos
\* is readable() bytes ahead of read_pos.
LEMMA ReadableFacts ==
    ASSUME TypeOK
    PROVE  /\ Readable \in Nat /\ Readable < PosMod
           /\ Readable <= Capacity => Writable = Capacity - Readable
           /\ \A i \in Int : Index(write_pos, i) = Index(read_pos, Readable + i)
<1> DEFINE m == PosMod
           R == Readable
<1>1. write_pos \in 0 .. m - 1 /\ read_pos \in 0 .. m - 1 /\ m \in Nat \ {0}
      /\ Capacity \in Nat \ {0} /\ Capacity < m
  BY ConstantFacts DEF TypeOK, Positions
<1>2. R \in 0 .. m - 1
  <2>1. write_pos - read_pos \in Int
    BY <1>1
  <2>2. QED
    BY <1>1, <2>1, ModFacts, Zenon DEF Readable
<1>3. ASSUME R <= Capacity PROVE Writable = Capacity - R
  <2> DEFINE x == Capacity - R
  <2>1. x \in 0 .. m - 1
    BY <1>1, <1>2, <1>3
  <2>2. Writable = x % m
    BY DEF Writable
  <2> HIDE DEF x, R, m
  <2>3. x % m = x
    BY <1>1, <2>1, ModSmall
  <2>4. QED
    BY <2>2, <2>3 DEF x
<1>4. (read_pos + R) % m = write_pos
  <2> DEFINE a == write_pos - read_pos
  <2>1. a \in Int /\ a + read_pos = write_pos /\ R = a % m /\ m = 1 * m /\ 1 \in Int
        /\ read_pos \in Int /\ write_pos \in 0 .. m - 1 /\ m \in Nat \ {0}
    BY <1>1 DEF Readable
  <2> HIDE DEF a, R, m
  <2>2. ((a % m) + read_pos) % m = (a + read_pos) % m
    BY <2>1, ModShift
  <2>3. write_pos % m = write_pos
    BY <2>1, ModSmall
  <2>4. (R + read_pos) % m = write_pos
    BY <2>1, <2>2, <2>3
  <2>5. R + read_pos = read_pos + R
    BY <1>1, <1>2
  <2>6. QED
    BY <2>4, <2>5
<1>5. ASSUME NEW i \in Int PROVE Index(write_pos, i) = Index(read_pos, R + i)
  <2>1. read_pos \in Int /\ R \in Int
    BY <1>1, <1>2
  <2>2. Index((read_pos + R) % m, i) = Index(read_pos, R + i)
    BY <2>1, IndexAhead
  <2>3. QED
    BY <1>4, <2>2
<1>6. R \in Nat /\ R < m
  BY <1>1, <1>2
<1>7. QED
  BY <1>3, <1>5, <1>6, Zenon

-----------------------------------------------------------------------------
(***************************************************************************)
(* The inductive invariant: types and RingInv.                             *)
(***************************************************************************)

\* What the byte at index i of the ring, and so InRing, means.
LEMMA InRingAt ==
    ASSUME TypeOK, NEW i \in 1 .. Readable
    PROVE  /\ InRing[i] = buf[Index(read_pos, i)]
           /\ Index(read_pos, i) \in 0 .. Capacity - 1
           /\ InRing[i] \in 0 .. MaxBytes
<1>1. read_pos \in Int /\ i \in Int
  BY ReadableFacts, ConstantFacts DEF TypeOK, Positions
<1>2. Index(read_pos, i) \in 0 .. Capacity - 1
  BY <1>1, IndexType
<1>3. QED
  BY <1>2 DEF InRing, TypeOK

\* A byte of the write in progress shares its index with no other byte of
\* the write and with no readable byte.
LEMMA WriteApart ==
    ASSUME TypeOK, ProducerInv, wpc = "copy", NEW i \in 1 .. wlen
    PROVE  /\ Index(wp, i) \in 0 .. Capacity - 1
           /\ \A j \in 1 .. wlen : j # i => Index(wp, j) # Index(wp, i)
           /\ \A j \in 1 .. Readable : Index(read_pos, j) # Index(wp, i)
<1>1. /\ wp \in Int /\ read_pos \in Int /\ wlen \in Nat /\ Readable \in Nat
      /\ wp = write_pos /\ Readable + wlen <= Capacity /\ Capacity \in Nat
  BY ReadableFacts, ConstantFacts DEF TypeOK, Positions, ProducerInv
<1>2. Index(wp, i) \in 0 .. Capacity - 1
  BY <1>1, IndexType
<1>3. ASSUME NEW j \in 1 .. wlen, j # i PROVE Index(wp, j) # Index(wp, i)
  <2>1. j \in Int /\ i \in Int /\ i - j < Capacity /\ j - i < Capacity
    BY <1>1
  <2>2. QED
    BY <1>1, <1>3, <2>1, IndexInjective
<1>4. ASSUME NEW j \in 1 .. Readable PROVE Index(read_pos, j) # Index(wp, i)
  <2> DEFINE k == Readable + i
  <2>1. Index(wp, i) = Index(read_pos, k)
    BY <1>1, ReadableFacts
  <2>2. j \in Int /\ k \in Int /\ j # k /\ j - k < Capacity /\ k - j < Capacity
    BY <1>1
  <2> HIDE DEF k
  <2>3. QED
    BY <1>1, <2>1, <2>2, IndexInjective
<1>5. QED
  BY <1>2, <1>3, <1>4

LEMMA RingInit == Init => TypeOK /\ RingInv
<1> SUFFICES ASSUME Init PROVE TypeOK /\ RingInv
  OBVIOUS
<1>1. TypeOK
  <2>1. dst \in [1 .. plen -> 0 .. MaxBytes]
    <3>1. dst = <<>> /\ plen = 0
      BY DEF Init
    <3>2. <<>> \in [1 .. 0 -> 0 .. MaxBytes]
      BY EmptySeq, LenProperties
    <3>3. QED
      BY <3>1, <3>2
  <2>2. 0 \in Positions /\ 0 \in 0 .. MaxBytes /\ 0 \in 0 .. MaxLen
    BY ConstantFacts, BoundsAssumption DEF Positions
  <2>3. buf \in [0 .. Capacity - 1 -> 0 .. MaxBytes]
    BY <2>2 DEF Init
  <2>4. QED
    BY <2>1, <2>2, <2>3 DEF Init, TypeOK
<1>2. Readable = 0
  <2>1. 0 % PosMod = 0
    BY ConstantFacts, ModSmall
  <2>2. QED
    BY <2>1 DEF Init, Readable
<1>3. QED
  BY <1>1, <1>2, ConstantFacts DEF Init, RingInv, ProducerInv, ConsumerInv, OrderInv

\* If neither the positions nor the readable bytes change, the order of the
\* readable bytes does not either.
LEMMA SameRing ==
    ASSUME TypeOK, TypeOK', UNCHANGED <<write_pos, read_pos>>,
           \A i \in 1 .. Readable : buf'[Index(read_pos, i)] = buf[Index(read_pos, i)]
    PROVE  Readable' = Readable /\ InRing' = InRing
<1>1. Readable' = Readable
  BY DEF Readable
<1>2. QED
  BY <1>1 DEF InRing, Index

LEMMA WriteLoadStep ==
    ASSUME TypeOK, RingInv, WriteLoad
    PROVE  TypeOK' /\ RingInv'
<1>1. PICK n \in 1 .. MaxLen :
        fed + n <= MaxBytes /\ fed' = fed + n /\ wlen' = Least(n, Writable)
  BY DEF WriteLoad
<1>2. /\ Readable \in Nat /\ Capacity \in Nat /\ Writable = Capacity - Readable
      /\ Readable <= Capacity /\ Writable \in Nat
  <2>1. Readable \in Nat /\ (Readable <= Capacity => Writable = Capacity - Readable)
    BY ReadableFacts
  <2>2. Readable + wlen <= Capacity /\ wlen \in Nat
    BY BoundsAssumption DEF RingInv, ProducerInv, TypeOK
  <2>3. QED
    BY <2>1, <2>2, ConstantFacts
<1>3. wlen' \in 0 .. MaxLen /\ wlen' <= Writable /\ wlen' <= n
  BY <1>1, <1>2, BoundsAssumption DEF Least
<1>4. TypeOK'
  BY <1>1, <1>3, BoundsAssumption DEF TypeOK, WriteLoad, rvars
<1>5. Readable' = Readable /\ InRing' = InRing
  BY <1>4, SameRing DEF WriteLoad
<1>6. ProducerInv'
  BY <1>1, <1>2, <1>3, <1>5, BoundsAssumption DEF ProducerInv, WriteLoad, TypeOK
<1>7. ConsumerInv'
  BY <1>5 DEF ConsumerInv, RingInv, WriteLoad, rvars
<1>8. OrderInv'
  <2>1. wpc = "idle" /\ fed' = fed + n /\ wbase' = fed /\ taken' = taken
        /\ wpc' \in {"idle", "copy"} /\ fed \in Nat /\ n \in Nat /\ taken \in Nat
    BY <1>1, BoundsAssumption DEF WriteLoad, TypeOK
  <2>2. \A i \in 1 .. Readable : InRing[i] \in Nat
    BY InRingAt, BoundsAssumption
  <2>3. QED
    BY <1>5, <2>1, <2>2 DEF OrderInv, RingInv
<1>9. QED
  BY <1>4, <1>6, <1>7, <1>8 DEF RingInv

LEMMA WriteByteStep ==
    ASSUME TypeOK, RingInv, WriteByte
    PROVE  TypeOK' /\ RingInv' /\ InRing' = InRing
<1>1. PICK i \in wtodo :
        /\ buf' = [buf EXCEPT ![Index(wp, i)] = wbase + i]
        /\ wtodo' = wtodo \ {i}
  BY DEF WriteByte
<1>2. i \in 1 .. wlen /\ wpc = "copy" /\ ProducerInv
  BY DEF TypeOK, WriteByte, RingInv
<1>3. wbase + i \in 0 .. MaxBytes
  BY <1>2, BoundsAssumption DEF ProducerInv, TypeOK
<1>4. Index(wp, i) \in 0 .. Capacity - 1
  BY <1>2, WriteApart
<1>5. TypeOK'
  BY <1>1, <1>3, <1>4 DEF TypeOK, WriteByte, rvars
<1>6. /\ buf'[Index(wp, i)] = wbase + i
      /\ \A j \in 1 .. wlen : j # i => buf'[Index(wp, j)] = buf[Index(wp, j)]
      /\ \A j \in 1 .. Readable : buf'[Index(read_pos, j)] = buf[Index(read_pos, j)]
  <2>1. \A x \in 0 .. Capacity - 1 :
          buf'[x] = IF x = Index(wp, i) THEN wbase + i ELSE buf[x]
    BY <1>1, <1>4 DEF TypeOK
  <2>2. \A j \in 1 .. wlen : Index(wp, j) \in 0 .. Capacity - 1
    BY <1>2, WriteApart
  <2>3. \A j \in 1 .. Readable : Index(read_pos, j) \in 0 .. Capacity - 1
    BY InRingAt
  <2>4. /\ \A j \in 1 .. wlen : j # i => Index(wp, j) # Index(wp, i)
        /\ \A j \in 1 .. Readable : Index(read_pos, j) # Index(wp, i)
    BY <1>2, WriteApart
  <2>5. QED
    BY <1>4, <2>1, <2>2, <2>3, <2>4
<1>7. Readable' = Readable /\ InRing' = InRing
  BY <1>5, <1>6, SameRing DEF WriteByte
<1>8. ProducerInv'
  BY <1>1, <1>2, <1>6, <1>7 DEF ProducerInv, WriteByte, Index
<1>9. ConsumerInv'
  <2>1. plen \in Nat /\ Readable \in Nat /\ plen <= Readable
    BY ReadableFacts DEF TypeOK, RingInv, ConsumerInv
  <2>2. ASSUME NEW j \in (1 .. plen) \ rtodo PROVE dst[j] = buf'[Index(rp, j)]
    <3>1. j \in 1 .. Readable /\ rp = read_pos /\ dst[j] = buf[Index(rp, j)]
      BY <2>1, <2>2 DEF TypeOK, RingInv, ConsumerInv
    <3>2. QED
      BY <1>6, <3>1
  <2>3. QED
    BY <1>7, <2>2 DEF RingInv, ConsumerInv, WriteByte, rvars, Index
<1>10. OrderInv'
  BY <1>7 DEF OrderInv, RingInv, WriteByte
<1>11. QED
  BY <1>5, <1>7, <1>8, <1>9, <1>10 DEF RingInv

\* fetch_add of write_pos_ appends the bytes of the write to the readable ones.
LEMMA PublishEffect ==
    ASSUME TypeOK, RingInv, WritePublish
    PROVE  /\ write_pos' \in Positions
           /\ Readable' = Readable + wlen
           /\ \A j \in 1 .. Readable : InRing'[j] = InRing[j]
           /\ \A i \in 1 .. wlen : InRing'[Readable + i] = wbase + i
<1>1. /\ write_pos \in Int /\ read_pos \in Int /\ wlen \in Nat
      /\ Readable \in Nat /\ Readable + wlen <= Capacity
      /\ Capacity \in Nat /\ Capacity < PosMod /\ PosMod \in Nat \ {0}
  <2>1. Readable \in Nat
    BY ReadableFacts
  <2>2. QED
    BY <2>1, ConstantFacts, BoundsAssumption DEF RingInv, ProducerInv, TypeOK, Positions
<1>2. write_pos' = (write_pos + wlen) % PosMod /\ read_pos' = read_pos /\ buf' = buf
  BY DEF WritePublish
<1>3. write_pos' \in Positions
  <2>1. write_pos + wlen \in Int
    BY <1>1
  <2>2. QED
    BY <1>1, <1>2, <2>1, ModFacts, Zenon DEF Positions
<1>4. Readable' = Readable + wlen
  <2>1. ((write_pos - read_pos) % PosMod) + wlen < PosMod
    BY <1>1 DEF Readable
  <2>2. (((write_pos + wlen) % PosMod) - read_pos) % PosMod
          = ((write_pos - read_pos) % PosMod) + wlen
    BY <1>1, <2>1, ModAhead
  <2>3. QED
    BY <1>2, <2>2 DEF Readable
<1>5. InRing' = [j \in 1 .. Readable + wlen |-> buf[Index(read_pos, j)]]
  BY <1>2, <1>4 DEF InRing, Index
<1>6. ASSUME NEW j \in 1 .. Readable PROVE InRing'[j] = InRing[j]
  <2>1. j \in 1 .. Readable + wlen
    BY <1>1
  <2>2. QED
    BY <1>5, <2>1, InRingAt
<1>7. ASSUME NEW i \in 1 .. wlen PROVE InRing'[Readable + i] = wbase + i
  <2>1. Readable + i \in 1 .. Readable + wlen /\ i \in Int
    BY <1>1
  <2>2. InRing'[Readable + i] = buf[Index(read_pos, Readable + i)]
    BY <1>5, <2>1
  <2>3. Index(write_pos, i) = Index(read_pos, Readable + i)
    BY <2>1, ReadableFacts
  <2>4. wp = write_pos /\ buf[Index(wp, i)] = wbase + i
    BY DEF WritePublish, RingInv, ProducerInv
  <2>5. QED
    BY <2>2, <2>3, <2>4
<1>8. QED
  BY <1>3, <1>4, <1>6, <1>7

LEMMA WritePublishStep ==
    ASSUME TypeOK, RingInv, WritePublish
    PROVE  TypeOK' /\ RingInv'
<1> DEFINE R == Readable
<1>1. /\ R \in Nat /\ wlen \in Nat /\ plen \in Nat /\ fed \in Nat /\ taken \in Nat
      /\ wbase \in Nat /\ Capacity \in Nat
  BY ReadableFacts, ConstantFacts, BoundsAssumption DEF TypeOK
<1>2. TypeOK'
  BY PublishEffect, BoundsAssumption DEF TypeOK, WritePublish, rvars
<1>3. ProducerInv'
  BY <1>1, PublishEffect DEF RingInv, ProducerInv, WritePublish
<1>4. ConsumerInv'
  <2>1. plen <= Readable'
    BY <1>1, PublishEffect DEF RingInv, ConsumerInv
  <2>2. QED
    BY <2>1 DEF RingInv, ConsumerInv, WritePublish, rvars, Index
<1>5. OrderInv'
  <2>1. wpc = "copy" /\ wbase + wlen <= fed /\ taken <= wbase
    BY DEF WritePublish, RingInv, ProducerInv, OrderInv
  <2>2. \A i \in 1 .. R : /\ InRing[i] \in Nat /\ taken < InRing[i] /\ InRing[i] <= wbase
                          /\ \A j \in 1 .. R : i < j => InRing[i] < InRing[j]
    BY <2>1, InRingAt, BoundsAssumption DEF RingInv, OrderInv
  <2>3. ASSUME NEW i \in 1 .. R + wlen
        PROVE  \/ i \in 1 .. R /\ InRing'[i] = InRing[i]
               \/ i - R \in 1 .. wlen /\ InRing'[i] = wbase + (i - R)
    <3>1. CASE i <= R
      BY <1>1, <3>1, PublishEffect
    <3>2. CASE i > R
      <4>1. i - R \in 1 .. wlen /\ i = R + (i - R)
        BY <1>1, <3>2
      <4>2. QED
        BY <4>1, PublishEffect
    <3>3. QED
      BY <1>1, <3>1, <3>2
  <2>4. Readable' = R + wlen
    BY PublishEffect
  <2>5. ASSUME NEW i \in 1 .. R + wlen
        PROVE  /\ taken < InRing'[i] /\ InRing'[i] <= fed
               /\ \A j \in 1 .. R + wlen : i < j => InRing'[i] < InRing'[j]
    <3>1. taken < InRing'[i] /\ InRing'[i] <= fed
      BY <1>1, <2>1, <2>2, <2>3
    <3>2. ASSUME NEW j \in 1 .. R + wlen, i < j PROVE InRing'[i] < InRing'[j]
      BY <1>1, <2>1, <2>2, <2>3, <3>2
    <3>3. QED
      BY <3>1, <3>2
  <2>6. taken' = taken /\ fed' = fed /\ wpc' = "idle" /\ taken <= fed
    BY <1>1, <2>1 DEF WritePublish
  <2> HIDE DEF R
  <2>7. QED
    BY <2>4, <2>5, <2>6 DEF OrderInv
<1>6. QED
  BY <1>2, <1>3, <1>4, <1>5 DEF RingInv

LEMMA PeekLoadStep ==
    ASSUME TypeOK, RingInv, PeekLoad
    PROVE  TypeOK' /\ RingInv'
<1>1. PICK n \in 1 .. MaxLen : plen' = Least(n, Readable)
  BY DEF PeekLoad
<1>2. Readable \in Nat
  BY ReadableFacts
<1>3. plen' \in 0 .. MaxLen /\ plen' <= Readable
  BY <1>1, <1>2, BoundsAssumption DEF Least
<1>4. TypeOK'
  <2>1. dst' \in [1 .. plen' -> 0 .. MaxBytes]
    BY BoundsAssumption DEF PeekLoad
  <2>2. QED
    BY <1>3, <2>1 DEF TypeOK, PeekLoad, wvars
<1>5. Readable' = Readable /\ InRing' = InRing
  BY <1>4, SameRing DEF PeekLoad
<1>6. ProducerInv'
  BY <1>5 DEF RingInv, ProducerInv, PeekLoad, wvars, Index
<1>7. ConsumerInv'
  BY <1>3, <1>5 DEF ConsumerInv, PeekLoad
<1>8. OrderInv'
  BY <1>5 DEF RingInv, OrderInv, PeekLoad, wvars
<1>9. QED
  BY <1>4, <1>6, <1>7, <1>8 DEF RingInv

LEMMA PeekByteStep ==
    ASSUME TypeOK, RingInv, PeekByte
    PROVE  TypeOK' /\ RingInv'
<1>1. PICK i \in rtodo : /\ dst' = [dst EXCEPT ![i] = buf[Index(rp, i)]]
                         /\ rtodo' = rtodo \ {i}
  BY DEF PeekByte
<1>2. i \in 1 .. plen /\ rp \in Int /\ i \in Int
  BY ConstantFacts, BoundsAssumption DEF TypeOK, Positions
<1>3. Index(rp, i) \in 0 .. Capacity - 1
  BY <1>2, IndexType
<1>4. TypeOK'
  BY <1>1, <1>2, <1>3 DEF TypeOK, PeekByte, wvars
<1>5. Readable' = Readable /\ InRing' = InRing
  BY <1>4, SameRing DEF PeekByte
<1>6. ProducerInv'
  BY <1>5 DEF RingInv, ProducerInv, PeekByte, wvars, Index
<1>7. ConsumerInv'
  BY <1>1, <1>2, <1>5 DEF RingInv, ConsumerInv, PeekByte, TypeOK, Index
<1>8. OrderInv'
  BY <1>5 DEF RingInv, OrderInv, PeekByte, wvars
<1>9. QED
  BY <1>4, <1>6, <1>7, <1>8 DEF RingInv

\* fetch_add of read_pos_ removes the oldest readable bytes.
LEMMA ConsumeEffect ==
    ASSUME TypeOK, RingInv, NEW n \in 1 .. plen, buf' = buf, write_pos' = write_pos,
           read_pos' = (read_pos + n) % PosMod
    PROVE  /\ read_pos' \in Positions
           /\ Readable' = Readable - n
           /\ n <= Readable
           /\ \A j \in 1 .. Readable - n : InRing'[j] = InRing[n + j]
<1>1. /\ write_pos \in Int /\ read_pos \in Int /\ plen \in Nat /\ n \in Nat
      /\ Readable \in Nat /\ n <= Readable /\ PosMod \in Nat \ {0}
  <2>1. Readable \in Nat
    BY ReadableFacts
  <2>2. QED
    BY <2>1, ConstantFacts, BoundsAssumption DEF RingInv, ConsumerInv, TypeOK, Positions
<1>2. read_pos' \in Positions
  <2>1. read_pos + n \in Int
    BY <1>1
  <2>2. QED
    BY <1>1, <2>1, ModFacts, Zenon DEF Positions
<1>3. Readable' = Readable - n
  <2>1. n <= (write_pos - read_pos) % PosMod
    BY <1>1 DEF Readable
  <2>2. \A w, r \in Int, d \in Nat :
          d <= (w - r) % PosMod
            => (w - ((r + d) % PosMod)) % PosMod = ((w - r) % PosMod) - d
    BY <1>1, ModBehind
  <2>3. (write_pos - ((read_pos + n) % PosMod)) % PosMod
          = ((write_pos - read_pos) % PosMod) - n
    BY <1>1, <2>1, <2>2
  <2>4. QED
    BY <2>3 DEF Readable
<1>4. InRing' = [j \in 1 .. Readable - n |-> buf[Index(read_pos', j)]]
  BY <1>3 DEF InRing, Index
<1>5. ASSUME NEW j \in 1 .. Readable - n PROVE InRing'[j] = InRing[n + j]
  <2>1. n + j \in 1 .. Readable /\ j \in Int /\ n \in Int
    BY <1>1
  <2>2. Index(read_pos', j) = Index(read_pos, n + j)
    BY <1>1, <2>1, IndexAhead
  <2>3. QED
    BY <1>4, <2>1, <2>2, InRingAt
<1>6. QED
  BY <1>1, <1>2, <1>3, <1>5

LEMMA ConsumeStep ==
    ASSUME TypeOK, RingInv, Consume
    PROVE  TypeOK' /\ RingInv'
<1> DEFINE R == Readable
<1>1. PICK n \in 1 .. plen : read_pos' = (read_pos + n) % PosMod /\ taken' = dst[n]
  BY DEF Consume
<1>2. /\ R \in Nat /\ wlen \in Nat /\ plen \in Nat /\ fed \in Nat /\ taken \in Nat
      /\ wbase \in Nat /\ Capacity \in Nat /\ n \in Nat /\ plen <= R
  BY ReadableFacts, ConstantFacts, BoundsAssumption DEF TypeOK, RingInv, ConsumerInv
<1>3. /\ read_pos' \in Positions /\ Readable' = R - n /\ n <= R
      /\ \A j \in 1 .. R - n : InRing'[j] = InRing[n + j]
  BY <1>1, ConsumeEffect DEF Consume
<1>4. taken' = InRing[n] /\ n \in 1 .. R
  <2>1. rtodo = {} /\ rpc = "peek"
    BY DEF Consume
  <2>2. rp = read_pos /\ dst[n] = buf[Index(rp, n)]
    BY <2>1 DEF RingInv, ConsumerInv
  <2>3. n \in 1 .. R
    BY <1>2
  <2>4. QED
    BY <1>1, <2>2, <2>3, InRingAt
<1>5. TypeOK'
  <2>1. taken' \in 0 .. MaxBytes
    BY <1>4, InRingAt
  <2>2. dst' \in [1 .. plen' -> 0 .. MaxBytes]
    <3>1. dst' = <<>> /\ plen' = 0
      BY DEF Consume
    <3>2. <<>> \in [1 .. 0 -> 0 .. MaxBytes]
      BY EmptySeq, LenProperties
    <3>3. QED
      BY <3>1, <3>2
  <2>3. plen' \in 0 .. MaxLen
    BY BoundsAssumption DEF Consume
  <2>4. QED
    BY <1>3, <2>1, <2>2, <2>3 DEF TypeOK, Consume, wvars
<1>6. ProducerInv'
  <2>1. Readable' + wlen <= Capacity
    BY <1>2, <1>3 DEF RingInv, ProducerInv
  <2>2. QED
    BY <2>1 DEF RingInv, ProducerInv, Consume, wvars, Index
<1>7. ConsumerInv'
  BY <1>2, <1>3 DEF ConsumerInv, Consume
<1>8. OrderInv'
  <2> DEFINE offered == IF wpc = "copy" THEN wbase ELSE fed
  <2>1. \A i \in 1 .. R : /\ InRing[i] \in Nat /\ InRing[i] <= offered
                          /\ \A j \in 1 .. R : i < j => InRing[i] < InRing[j]
    BY InRingAt, BoundsAssumption DEF RingInv, OrderInv
  <2>2. wpc' = wpc /\ wbase' = wbase /\ fed' = fed
    BY DEF Consume, wvars
  <2>3. ASSUME NEW i \in 1 .. R - n
        PROVE  n + i \in 1 .. R /\ n < n + i /\ InRing'[i] = InRing[n + i]
    BY <1>2, <1>3
  <2>4. ASSUME NEW i \in 1 .. R - n
        PROVE  /\ taken' < InRing'[i] /\ InRing'[i] <= offered
               /\ \A j \in 1 .. R - n : i < j => InRing'[i] < InRing'[j]
    <3>1. taken' < InRing'[i] /\ InRing'[i] <= offered
      BY <1>4, <2>1, <2>3
    <3>2. ASSUME NEW j \in 1 .. R - n, i < j PROVE InRing'[i] < InRing'[j]
      <4>1. n + i < n + j
        BY <1>2, <3>2
      <4>2. QED
        BY <2>1, <2>3, <4>1
    <3>3. QED
      BY <3>1, <3>2
  <2>5. taken' <= offered
    BY <1>4, <2>1
  <2> HIDE DEF R
  <2>6. QED
    BY <1>3, <2>2, <2>4, <2>5 DEF OrderInv
<1>9. QED
  BY <1>5, <1>6, <1>7, <1>8 DEF RingInv

LEMMA RingStep == TypeOK /\ RingInv /\ [Next]_vars => TypeOK' /\ RingInv'
<1> SUFFICES ASSUME TypeOK, RingInv, [Next]_vars PROVE TypeOK' /\ RingInv'
  OBVIOUS
<1>1. CASE UNCHANGED vars
  BY <1>1 DEF vars, wvars, rvars, TypeOK, RingInv, ProducerInv, ConsumerInv, OrderInv,
              InRing, Readable, Index
<1>2. QED
  BY <1>1, WriteLoadStep, WriteByteStep, WritePublishStep,
     PeekLoadStep, PeekByteStep, ConsumeStep
  DEF Next, Producer, Consumer

LEMMA RingInvariant == Spec => [](TypeOK /\ RingInv)
BY RingInit, RingStep, PTL DEF Spec

\* Every variable keeps its type: no index leaves the array, no length the
\* bound of its call.
THEOREM TypeCorrect == Spec => []TypeOK
BY RingInvariant, PTL

\* The producer's part of the array, the readable part and what has been peeked
\* stay apart and hold what they should, although neither thread takes a lock.
THEOREM RingConsistent == Spec => []RingInv
BY RingInvariant, PTL

\* No byte of the feed reaches the parser twice or out of order.
THEOREM BytesArriveOnce == Spec => []NoByteTwice
<1>1. ASSUME TypeOK, RingInv PROVE NoByteTwice
  <2>1. Readable \in Nat /\ plen \in Nat /\ plen <= Readable
    BY <1>1, ReadableFacts, BoundsAssumption DEF TypeOK, RingInv, ConsumerInv
  <2>2. ASSUME NEW i \in (1 .. plen) \ rtodo
        PROVE  i \in 1 .. Readable /\ dst[i] = InRing[i]
    <3>1. i \in 1 .. Readable /\ rp = read_pos /\ dst[i] = buf[Index(rp, i)]
      BY <1>1, <2>1 DEF TypeOK, RingInv, ConsumerInv
    <3>2. QED
      BY <1>1, <3>1, InRingAt
  <2>3. QED
    BY <1>1, <2>2 DEF NoByteTwice, RingInv, OrderInv
<1>2. QED
  BY <1>1, RingInvariant, PTL

-----------------------------------------------------------------------------
(***************************************************************************)
(* The ring implements ByteFifo.  The refinement mapping is that of Fifo:  *)
(* the pending bytes are InFlight, the queue is InRing, the output is Held. *)
(***************************************************************************)

LEMMA FunctionIsSeq ==
    ASSUME NEW S, NEW n \in Nat, NEW f \in [1 .. n -> S]
    PROVE  f \in Seq(S) /\ Len(f) = n
OBVIOUS

LEMMA EmptyFunction ==
    ASSUME NEW S, NEW f \in [1 .. 0 -> S]
    PROVE  f = <<>>
<1>1. f \in Seq(S) /\ Len(f) = 0
  BY FunctionIsSeq
<1>2. QED
  BY <1>1, EmptySeq

\* The three sequences of the mapping, byte by byte.
Shapes ==
    /\ InRing \in [1 .. Readable -> Nat]
    /\ InFlight = [i \in 1 .. wlen |-> wbase + i]
    /\ Held = [i \in 1 .. plen |-> InRing[i]]
    /\ Readable \in Nat /\ wlen \in Nat /\ plen \in Nat /\ wbase \in Nat
    /\ plen <= Readable /\ Readable + wlen <= Capacity

LEMMA MappingShapes == TypeOK /\ RingInv => Shapes
<1> SUFFICES ASSUME TypeOK, RingInv PROVE Shapes
  OBVIOUS
<1>1. /\ Readable \in Nat /\ wlen \in Nat /\ plen \in Nat /\ wbase \in Nat
      /\ plen <= Readable /\ Readable + wlen <= Capacity
  BY ReadableFacts, BoundsAssumption DEF TypeOK, RingInv, ProducerInv, ConsumerInv
<1>2. InRing \in [1 .. Readable -> Nat]
  <2>1. \A i \in 1 .. Readable : buf[Index(read_pos, i)] \in Nat
    BY InRingAt, BoundsAssumption
  <2>2. QED
    BY <2>1 DEF InRing
<1>3. InFlight = [i \in 1 .. wlen |-> wbase + i]
  BY DEF InFlight, RingInv, ProducerInv
<1>4. Held = [i \in 1 .. plen |-> InRing[i]]
  <2>1. ASSUME NEW i \in 1 .. plen
        PROVE  (IF i \in rtodo THEN buf[Index(rp, i)] ELSE dst[i]) = InRing[i]
    <3>1. i \in 1 .. Readable /\ rp = read_pos
      BY <1>1 DEF TypeOK, RingInv, ConsumerInv
    <3>2. InRing[i] = buf[Index(rp, i)]
      BY <3>1, InRingAt
    <3>3. i \notin rtodo => dst[i] = buf[Index(rp, i)]
      BY DEF RingInv, ConsumerInv
    <3>4. QED
      BY <3>2, <3>3
  <2>2. QED
    BY <2>1 DEF Held
<1>5. QED
  BY <1>1, <1>2, <1>3, <1>4 DEF Shapes

LEMMA FifoInit == Init => Fifo!Init
<1> SUFFICES ASSUME Init PROVE Fifo!Init
  OBVIOUS
<1>1. Shapes
  BY RingInit, MappingShapes
<1>2. wlen = 0 /\ plen = 0 /\ fed = 0
  BY DEF Init
<1>3. Readable = 0
  <2>1. 0 % PosMod = 0
    BY ConstantFacts, ModSmall
  <2>2. QED
    BY <2>1 DEF Init, Readable
<1>4. InRing \in [1 .. 0 -> Nat] /\ InFlight \in [1 .. 0 -> Nat] /\ Held \in [1 .. 0 -> Nat]
  BY <1>1, <1>2, <1>3 DEF Shapes
<1>5. QED
  BY <1>2, <1>4, EmptyFunction DEF Fifo!Init

\* The queue's length is what readable() says.
LEMMA QueueLength ==
    ASSUME Shapes
    PROVE  InRing \in Seq(Nat) /\ Len(InRing) = Readable
BY FunctionIsSeq DEF Shapes

\* Loading the positions accepts the bytes of the call that fit.
LEMMA WriteLoadAccepts ==
    ASSUME TypeOK, RingInv, WriteLoad, Shapes, TypeOK', Shapes'
    PROVE  Fifo!Accept
<1>1. PICK n \in 1 .. MaxLen : fed' = fed + n /\ wlen' = Least(n, Writable)
  BY DEF WriteLoad
<1>2. Readable' = Readable /\ InRing' = InRing
  BY SameRing DEF WriteLoad
<1>3. Held' = Held
  BY DEF Held, WriteLoad, rvars, Index
<1>4. InFlight = <<>>
  <2>1. wlen = 0
    BY DEF WriteLoad, RingInv, ProducerInv
  <2>2. InFlight \in [1 .. 0 -> Nat]
    BY <2>1 DEF Shapes
  <2>3. QED
    BY <2>2, EmptyFunction
<1>5. Writable = Capacity - Len(InRing)
  <2>1. Readable <= Capacity
    BY ConstantFacts DEF Shapes
  <2>2. QED
    BY <2>1, ReadableFacts, QueueLength
<1>6. InFlight' = [i \in 1 .. Least(n, Capacity - Len(InRing)) |-> fed + i]
  BY <1>1, <1>5 DEF Shapes, WriteLoad
<1>7. QED
  BY <1>1, <1>2, <1>3, <1>4, <1>6 DEF Fifo!Accept, Fifo!Least, Least

\* A byte of the producer's memcpy changes nothing the stream promises.
LEMMA WriteByteHidden ==
    ASSUME TypeOK, RingInv, WriteByte, Shapes, Shapes'
    PROVE  UNCHANGED <<fed, InFlight, InRing, Held>>
<1>1. InRing' = InRing
  BY WriteByteStep
<1>2. InFlight' = InFlight
  BY DEF Shapes, WriteByte
<1>3. Held' = Held
  BY <1>1 DEF Shapes, WriteByte, rvars
<1>4. QED
  BY <1>1, <1>2, <1>3 DEF WriteByte

\* fetch_add of write_pos_ publishes the pending bytes.
LEMMA WritePublishPublishes ==
    ASSUME TypeOK, RingInv, WritePublish, Shapes, Shapes'
    PROVE  Fifo!Publish
<1>1. /\ Readable' = Readable + wlen
      /\ \A j \in 1 .. Readable : InRing'[j] = InRing[j]
      /\ \A i \in 1 .. wlen : InRing'[Readable + i] = wbase + i
  BY PublishEffect
<1>2. InFlight \in Seq(Nat) /\ Len(InFlight) = wlen
  <2>1. InFlight \in [1 .. wlen -> Nat] /\ wlen \in Nat
    BY DEF Shapes
  <2>2. QED
    BY <2>1, FunctionIsSeq
<1>3. InFlight # <<>>
  <2>1. wlen > 0 /\ wlen \in Nat
    BY DEF WritePublish, RingInv, ProducerInv, Shapes
  <2>2. QED
    BY <1>2, <2>1, EmptySeq
<1>4. InFlight' = <<>>
  <2>1. wlen' = 0
    BY DEF WritePublish
  <2>2. InFlight' \in [1 .. 0 -> Nat]
    BY <2>1 DEF Shapes
  <2>3. QED
    BY <2>2, EmptyFunction
<1>5. InRing' = InRing \o InFlight
  <2> DEFINE q == InRing
             r == InRing'
             p == InFlight
             R == Readable
  <2>1. /\ q \in Seq(Nat) /\ Len(q) = R /\ R \in Nat /\ wlen \in Nat
        /\ r \in Seq(Nat) /\ Len(r) = R + wlen
    <3>1. q \in Seq(Nat) /\ Len(q) = R /\ R \in Nat /\ wlen \in Nat
      BY QueueLength DEF Shapes
    <3>2. r \in [1 .. R + wlen -> Nat]
      BY <1>1 DEF Shapes
    <3>3. QED
      BY <3>1, <3>2, FunctionIsSeq
  <2>2. /\ q \o p \in Seq(Nat) /\ Len(q \o p) = R + wlen
        /\ \A i \in 1 .. R + wlen : (q \o p)[i] = IF i <= R THEN q[i] ELSE p[i - R]
    BY <1>2, <2>1, ConcatProperties
  <2>3. ASSUME NEW i \in 1 .. R + wlen PROVE r[i] = (q \o p)[i]
    <3>1. CASE i <= R
      BY <1>1, <2>1, <2>2, <3>1
    <3>2. CASE i > R
      <4>1. i - R \in 1 .. wlen /\ i = R + (i - R)
        BY <2>1, <3>2
      <4>2. p[i - R] = wbase + (i - R)
        BY <4>1 DEF Shapes
      <4>3. r[i] = wbase + (i - R)
        BY <1>1, <4>1
      <4>4. QED
        BY <2>1, <2>2, <3>2, <4>2, <4>3
    <3>3. i <= R \/ i > R
      BY <2>1
    <3>4. QED
      BY <3>1, <3>2, <3>3, Zenon
  <2> HIDE DEF q, r, p, R
  <2>4. r = q \o p
    BY <2>1, <2>2, <2>3, SeqEqual
  <2>5. QED
    BY <2>4 DEF q, r, p
<1>6. Held' = Held
  BY DEF Held, WritePublish, rvars, Index
<1>7. QED
  BY <1>3, <1>4, <1>5, <1>6 DEF Fifo!Publish, WritePublish

\* Loading the positions for a peek selects the oldest readable bytes.
LEMMA PeekLoadPeeks ==
    ASSUME TypeOK, RingInv, PeekLoad, Shapes, TypeOK', Shapes'
    PROVE  Fifo!Peek
<1>1. PICK n \in 1 .. MaxLen : plen' = Least(n, Readable)
  BY DEF PeekLoad
<1>2. Readable' = Readable /\ InRing' = InRing
  BY SameRing DEF PeekLoad
<1>3. InFlight' = InFlight
  BY DEF InFlight, PeekLoad, wvars, Index
<1>4. Held' = SubSeq(InRing, 1, Least(n, Len(InRing)))
  <2> DEFINE h == Held'
             k == plen'
             q == InRing
  <2>1. q \in Seq(Nat) /\ Len(q) = Readable /\ k \in Nat /\ k <= Readable
    BY <1>2, QueueLength DEF Shapes
  <2>2. h = [i \in 1 .. k |-> q[i]]
    BY <1>2 DEF Shapes
  <2>3. \A i \in 1 .. k : q[i] \in Nat
    BY <1>2 DEF Shapes
  <2>4. k = Least(n, Len(q))
    BY <1>1, <2>1
  <2> HIDE DEF h, k, q
  <2>5. /\ SubSeq(q, 1, k) \in Seq(Nat) /\ Len(SubSeq(q, 1, k)) = k
        /\ \A i \in 1 .. k : SubSeq(q, 1, k)[i] = q[i]
    BY <2>1, <2>3, SubSeqProperties
  <2>6. h \in Seq(Nat) /\ Len(h) = k
    BY <2>1, <2>2, <2>3, FunctionIsSeq
  <2>7. h = SubSeq(q, 1, k)
    BY <2>2, <2>5, <2>6, SeqEqual
  <2>8. QED
    BY <2>4, <2>7 DEF h, q
<1>5. QED
  BY <1>1, <1>2, <1>3, <1>4 DEF Fifo!Peek, Fifo!Least, Least, PeekLoad

\* A byte of the consumer's memcpy changes nothing the stream promises.
LEMMA PeekByteHidden ==
    ASSUME TypeOK, RingInv, PeekByte, Shapes, TypeOK', Shapes'
    PROVE  UNCHANGED <<fed, InFlight, InRing, Held>>
<1>1. InRing' = InRing
  BY SameRing DEF PeekByte
<1>2. InFlight' = InFlight
  BY DEF Shapes, PeekByte, wvars
<1>3. Held' = Held
  BY <1>1 DEF Shapes, PeekByte
<1>4. QED
  BY <1>1, <1>2, <1>3 DEF PeekByte

\* fetch_add of read_pos_ drops bytes from the head of the queue.
LEMMA ConsumeConsumes ==
    ASSUME TypeOK, RingInv, Consume, Shapes, Shapes'
    PROVE  Fifo!Consume
<1>1. PICK n \in 1 .. plen : read_pos' = (read_pos + n) % PosMod
  BY DEF Consume
<1>2. /\ Readable' = Readable - n
      /\ n <= Readable
      /\ \A j \in 1 .. Readable - n : InRing'[j] = InRing[n + j]
  BY <1>1, ConsumeEffect DEF Consume
<1>3. Len(Held) = plen
  <2>1. Held \in [1 .. plen -> Nat] /\ plen \in Nat
    BY DEF Shapes
  <2>2. QED
    BY <2>1, FunctionIsSeq
<1>4. InFlight' = InFlight
  BY DEF InFlight, Consume, wvars, Index
<1>5. Held' = <<>>
  <2>1. plen' = 0
    BY DEF Consume
  <2>2. Held' \in [1 .. 0 -> Nat]
    BY <2>1 DEF Shapes
  <2>3. QED
    BY <2>2, EmptyFunction
<1>6. InRing' = SubSeq(InRing, n + 1, Len(InRing))
  <2> DEFINE q == InRing
             r == InRing'
             R == Readable
  <2>1. /\ q \in Seq(Nat) /\ Len(q) = R /\ R \in Nat /\ n \in Nat /\ n <= R
        /\ r \in Seq(Nat) /\ Len(r) = R - n
    <3>1. q \in Seq(Nat) /\ Len(q) = R /\ R \in Nat /\ n \in Nat /\ n <= R
      BY <1>2, QueueLength DEF Shapes
    <3>2. r \in [1 .. R - n -> Nat] /\ R - n \in Nat
      BY <1>2, <3>1 DEF Shapes
    <3>3. QED
      BY <3>1, <3>2, FunctionIsSeq
  <2>2. \A i \in 1 .. R : q[i] \in Nat
    BY DEF Shapes
  <2>3. \A j \in 1 .. R - n : r[j] = q[n + j]
    BY <1>2
  <2> HIDE DEF q, r, R
  <2>4. /\ SubSeq(q, n + 1, R) \in Seq(Nat)
        /\ Len(SubSeq(q, n + 1, R)) = R - n
        /\ \A i \in 1 .. R - n : SubSeq(q, n + 1, R)[i] = q[n + i]
    <3> DEFINE m == n + 1
    <3>1. m \in Int /\ R \in Int /\ \A i \in m .. R : q[i] \in Nat
      BY <2>1, <2>2
    <3>2. m = n + 1
      OBVIOUS
    <3> HIDE DEF m
    <3>3. /\ SubSeq(q, m, R) \in Seq(Nat)
          /\ Len(SubSeq(q, m, R)) = IF m <= R THEN R - m + 1 ELSE 0
          /\ \A i \in 1 .. R - m + 1 : SubSeq(q, m, R)[i] = q[m + i - 1]
      BY <3>1, SubSeqProperties
    <3>4. /\ R - m + 1 = R - n /\ (IF m <= R THEN R - m + 1 ELSE 0) = R - n
          /\ \A i \in 1 .. R - n : m + i - 1 = n + i
      BY <2>1, <3>1, <3>2
    <3>5. QED
      BY <3>2, <3>3, <3>4
  <2>5. r = SubSeq(q, n + 1, R)
    BY <2>1, <2>3, <2>4, SeqEqual
  <2>6. QED
    BY <2>1, <2>5 DEF q, r
<1>7. QED
  BY <1>1, <1>3, <1>4, <1>5, <1>6 DEF Fifo!Consume, Consume

LEMMA FifoStep ==
    TypeOK /\ RingInv /\ [Next]_vars => [Fifo!Next]_(Fifo!fifoVars)
<1> SUFFICES ASSUME TypeOK, RingInv, [Next]_vars
             PROVE  Fifo!Next \/ UNCHANGED <<fed, InFlight, InRing, Held>>
  BY DEF Fifo!fifoVars
<1>1. Shapes /\ TypeOK' /\ RingInv'
  BY RingStep, MappingShapes
<1>2. TypeOK' /\ RingInv' => Shapes'
  BY MappingShapes, PTL
<1>3. CASE UNCHANGED vars
  BY <1>3 DEF vars, wvars, rvars, InFlight, InRing, Held, Readable, Index
<1>4. QED
  BY <1>1, <1>2, <1>3, WriteLoadAccepts, WriteByteHidden, WritePublishPublishes,
     PeekLoadPeeks, PeekByteHidden, ConsumeConsumes
  DEF Next, Producer, Consumer, Fifo!Next

\* The ring implements the bounded byte stream ByteFifo for every capacity:
\* however the two threads interleave, no byte is lost, duplicated, reordered
\* or overwritten, at the array's end and at the wrap-around of the positions.
THEOREM RingImplementsFifo == Spec => IsByteFifo
<1>1. Init => Fifo!Init
  BY FifoInit
<1>2. TypeOK /\ RingInv /\ [Next]_vars => [Fifo!Next]_(Fifo!fifoVars)
  BY FifoStep
<1>3. QED
  BY <1>1, <1>2, RingInvariant, PTL DEF Spec, IsByteFifo, Fifo!Spec
=============================================================================
