---------------------------- MODULE ParserProofs ----------------------------
(***************************************************************************)
(* Proofs about Parser, for every set of streams the server may send, every *)
(* table of message sizes and every capacity of the ring buffer.           *)
(***************************************************************************)
EXTENDS Parser, Integers, SequenceTheorems, FiniteSums, TLAPS

-----------------------------------------------------------------------------
(***************************************************************************)
(* The inductive invariant.                                                *)
(***************************************************************************)

\* Byte b comes before byte c in the stream.
Before(b, c) == b.msg < c.msg \/ (b.msg = c.msg /\ b.off < c.off)

InStream(b) == b.msg \in Indices /\ b.off < SizeOf(b.msg)

Pair(m, o) == [msg |-> m, off |-> o]

\* Byte o of message m is in r.
Has(r, m, o) == \E i \in 1 .. Len(r) : r[i].msg = m /\ r[i].off = o

\* The receiving side: next is a byte of the stream or its end, and while feed
\* is under way the time is that of the byte it is about to write.
ReceivedInv ==
    /\ next.msg \in Indices => next.off < SizeOf(next.msg)
    /\ feeding => next.msg \in Indices /\ batch_recv_time = next
    /\ batch_recv_time.msg \in Indices
         => batch_recv_time.off < SizeOf(batch_recv_time.msg)

\* The ring holds bytes of the stream in order, none of them still to be
\* received or received after the stored time.
RingOrdered ==
    \A i \in 1 .. Len(ring) :
        /\ InStream(ring[i]) /\ Before(ring[i], next)
        /\ ring[i] = batch_recv_time \/ Before(ring[i], batch_recv_time)
        /\ \A j \in 1 .. Len(ring) : i < j => Before(ring[i], ring[j])

\* Of a damaged message some byte has passed and is not in the ring, ...
LostInv ==
    \A m \in damaged :
        /\ m <= next.msg
        /\ \E o \in 0 .. SizeOf(m) - 1 : Before(Pair(m, o), next) /\ ~Has(ring, m, o)

\* ... and of any other one that is not accepted every byte that passed is.
KeptInv ==
    \A m \in Indices \ damaged :
        m \notin RangeOf(accepted) =>
            \A o \in 0 .. SizeOf(m) - 1 : Before(Pair(m, o), next) => Has(ring, m, o)

\* Accepted messages came whole and came before all that is in the ring.
AcceptedInv ==
    /\ Ascending(accepted)
    /\ \A m \in RangeOf(accepted) :
         /\ m < next.msg /\ m \notin damaged
         /\ \A i \in 1 .. Len(ring) : m < ring[i].msg

DeliveredInv ==
    /\ Ascending(delivered)
    /\ RangeOf(delivered) \subseteq RangeOf(accepted)
    /\ RecvTimeNotStale

GapInv ==
    /\ seq_initialized <=> accepted # <<>>
    /\ accepted = <<>> => sequence_gaps = 0 /\ total_gap_size = 0
    /\ GapAccounting

PInv ==
    /\ TypeOK /\ ReceivedInv /\ RingOrdered /\ LostInv /\ KeptInv
    /\ AcceptedInv /\ DeliveredInv /\ GapInv

-----------------------------------------------------------------------------
(***************************************************************************)
(* Facts about the operators.                                              *)
(***************************************************************************)

LEMMA SizeFacts ==
    ASSUME TypeOK, NEW m \in Indices
    PROVE  /\ m \in Nat \ {0} /\ Len(stream) \in Nat /\ m <= Len(stream)
           /\ stream[m] \in Messages /\ stream[m].seq \in SeqNums
           /\ SizeOf(m) \in Nat /\ HeaderSize < SizeOf(m) /\ HeaderSize \in Nat \ {0}
           /\ SizeOf(m) \in Nat \ {0}
<1>1. stream \in Seq(Messages)
  BY StreamAssumption DEF TypeOK
<1>2. m \in Nat \ {0} /\ Len(stream) \in Nat /\ m <= Len(stream) /\ stream[m] \in Messages
  BY <1>1 DEF Indices
<1>3. stream[m].type \in Types /\ stream[m].seq \in SeqNums
  BY <1>2 DEF Messages
<1>4. SizeOf(m) \in Nat /\ HeaderSize < SizeOf(m) /\ HeaderSize \in Nat \ {0}
  BY <1>3, SizeAssumption DEF SizeOf
<1>5. QED
  BY <1>2, <1>3, <1>4

LEMMA ByteFacts ==
    ASSUME TypeOK
    PROVE  /\ ring \in Seq(Byte) /\ Len(ring) \in Nat
           /\ \A i \in 1 .. Len(ring) :
                ring[i] \in Byte /\ ring[i].msg \in Nat /\ ring[i].off \in Nat
           /\ next \in Byte /\ next.msg \in Nat /\ next.off \in Nat
           /\ batch_recv_time \in Byte
           /\ batch_recv_time.msg \in Nat /\ batch_recv_time.off \in Nat
<1>1. \A b \in Byte : b.msg \in Nat /\ b.off \in Nat
  BY DEF Byte
<1>2. ring \in Seq(Byte) /\ next \in Byte /\ batch_recv_time \in Byte
  BY DEF TypeOK
<1>3. Len(ring) \in Nat /\ \A i \in 1 .. Len(ring) : ring[i] \in Byte
  BY <1>2, ElementOfSeq, LenProperties
<1>4. QED
  BY <1>1, <1>2, <1>3

\* Dropping n bytes from the front of a sequence.
LEMMA DropFacts ==
    ASSUME NEW S, NEW s \in Seq(S), NEW n \in 0 .. Len(s)
    PROVE  /\ SubSeq(s, n + 1, Len(s)) \in Seq(S)
           /\ Len(SubSeq(s, n + 1, Len(s))) = Len(s) - n
           /\ \A i \in 1 .. Len(s) - n : SubSeq(s, n + 1, Len(s))[i] = s[n + i]
<1> DEFINE m == n + 1
           R == Len(s)
<1>1. m \in Int /\ R \in Int /\ \A i \in m .. R : s[i] \in S
  OBVIOUS
<1>2. m = n + 1 /\ R \in Nat /\ n \in Nat /\ n <= R
  OBVIOUS
<1> HIDE DEF m, R
<1>3. /\ SubSeq(s, m, R) \in Seq(S)
      /\ Len(SubSeq(s, m, R)) = IF m <= R THEN R - m + 1 ELSE 0
      /\ \A i \in 1 .. R - m + 1 : SubSeq(s, m, R)[i] = s[m + i - 1]
  BY <1>1, SubSeqProperties
<1>4. /\ R - m + 1 = R - n /\ (IF m <= R THEN R - m + 1 ELSE 0) = R - n
      /\ \A i \in 1 .. R - n : m + i - 1 = n + i
  BY <1>1, <1>2
<1>5. QED
  BY <1>2, <1>3, <1>4 DEF R

\* Appending an element.
LEMMA AppendFacts ==
    ASSUME NEW S, NEW s \in Seq(S), NEW e \in S
    PROVE  /\ Append(s, e) \in Seq(S) /\ Len(Append(s, e)) = Len(s) + 1
           /\ Append(s, e)[Len(s) + 1] = e
           /\ \A i \in 1 .. Len(s) : Append(s, e)[i] = s[i]
           /\ Append(s, e) # <<>>
           /\ RangeOf(Append(s, e)) = RangeOf(s) \union {e}
BY DEF RangeOf

\* The bytes of a message that is not damaged and has some byte at the front of
\* the ring are all at the front of the ring, in order.
LEMMA FrontIntact ==
    ASSUME PInv, ring # <<>>, ring[1].msg \notin damaged,
           NEW n \in Nat, n <= Len(ring), n <= SizeOf(ring[1].msg)
    PROVE  Intact(n)
<1> DEFINE m == ring[1].msg
           L == Len(ring)
<1>1. /\ ring \in Seq(Byte) /\ L \in Nat \ {0} /\ 1 \in 1 .. L
      /\ \A i \in 1 .. L : ring[i].msg \in Nat /\ ring[i].off \in Nat /\ ring[i] \in Byte
      /\ next.msg \in Nat /\ next.off \in Nat
  <2>1. TypeOK
    BY DEF PInv
  <2>2. L # 0
    BY <2>1, ByteFacts, EmptySeq
  <2>3. QED
    BY <2>1, <2>2, ByteFacts
<1>2. m \in Indices /\ m \notin damaged /\ SizeOf(m) \in Nat
  BY <1>1, SizeFacts DEF PInv, RingOrdered, InStream
<1>3. m \notin RangeOf(accepted)
  BY <1>1 DEF PInv, AcceptedInv
<1>4. \A o \in 0 .. SizeOf(m) - 1 : Before(Pair(m, o), next) => Has(ring, m, o)
  BY <1>2, <1>3 DEF PInv, KeptInv
<1>5. \A i, j \in 1 .. L : i < j => Before(ring[i], ring[j])
  BY DEF PInv, RingOrdered
<1>6. \A i \in 1 .. L : Before(ring[i], next) /\ InStream(ring[i])
  BY DEF PInv, RingOrdered
\* Every byte up to one in the ring is in the ring.
<1>7. ASSUME NEW i \in 1 .. L, NEW o \in Nat,
             ring[i].msg > m \/ (ring[i].msg = m /\ o <= ring[i].off),
             o < SizeOf(m)
      PROVE  Has(ring, m, o)
  <2>1. Before(Pair(m, o), next)
    BY <1>1, <1>2, <1>6, <1>7 DEF Before, Pair, Indices
  <2>2. o \in 0 .. SizeOf(m) - 1
    BY <1>2, <1>7
  <2>3. QED
    BY <1>4, <2>1, <2>2
\* So byte i - 1 is at place i, for the first places that can hold the message.
<1>8. ASSUME NEW k \in Nat, k <= L, k <= SizeOf(m)
      PROVE  \A i \in 1 .. k : ring[i].msg = m /\ ring[i].off = i - 1
  <2> DEFINE Bad == {i \in 1 .. k : ~(ring[i].msg = m /\ ring[i].off = i - 1)}
  <2> SUFFICES ASSUME Bad # {} PROVE FALSE
    BY Zenon
  <2>1. Bad \in SUBSET Nat
    OBVIOUS
  <2>2. PICK i \in Bad : \A j \in Bad : i <= j
    BY <2>1, LeastElement
  <2>3. i \in 1 .. k /\ i \in 1 .. L /\ i <= SizeOf(m) /\ i \in Nat
    BY <1>1, <1>2, <1>8
  <2>4. ring[i].msg > m \/ (ring[i].msg = m /\ i - 1 < ring[i].off)
    <3>1. CASE i = 1
      <4>1. ring[i].off # 0 /\ ring[i].msg = m
        BY <2>2, <3>1
      <4>2. QED
        BY <1>1, <2>3, <3>1, <4>1
    <3>2. CASE i > 1
      <4>1. i - 1 \in 1 .. k /\ i - 1 \notin Bad /\ i - 1 \in 1 .. L
        BY <2>2, <2>3, <3>2, <1>1
      <4>2. ring[i - 1].msg = m /\ ring[i - 1].off = i - 2
        BY <4>1, <2>3
      <4>3. Before(ring[i - 1], ring[i])
        BY <1>5, <2>3, <4>1
      <4>4. ~(ring[i].msg = m /\ ring[i].off = i - 1)
        BY <2>2
      <4>5. QED
        BY <1>1, <1>2, <2>3, <4>2, <4>3, <4>4, SMTT(30) DEF Before
    <3>3. QED
      BY <2>3, <3>1, <3>2
  <2>5. Has(ring, m, i - 1)
    BY <1>1, <1>2, <1>7, <2>3, <2>4
  <2>6. PICK j \in 1 .. L : ring[j].msg = m /\ ring[j].off = i - 1
    BY <2>5 DEF Has
  <2>7. j < i
    <3>1. i # j
      BY <1>1, <2>3, <2>4, <2>6
    <3>2. ASSUME i < j PROVE FALSE
      <4>1. Before(ring[i], ring[j])
        BY <1>5, <2>3, <3>2
      <4>2. QED
        BY <1>1, <1>2, <2>3, <2>4, <2>6, <4>1, SMTT(30) DEF Before
    <3>3. QED
      BY <1>1, <2>3, <3>1, <3>2
  <2>8. j \notin Bad /\ j \in 1 .. k
    BY <2>2, <2>3, <2>6, <2>7
  <2>9. ring[j].off = j - 1
    BY <2>8
  <2>10. QED
    BY <2>3, <2>6, <2>7, <2>9
<1>9. Intact(n)
  <2>1. ASSUME NEW i \in 1 .. n PROVE ring[i] = [msg |-> m, off |-> i - 1]
    <3>1. ring[i].msg = m /\ ring[i].off = i - 1
      BY <1>8
    <3>2. ring[i] \in Byte
      BY <1>1
    <3>3. QED
      BY <3>1, <3>2 DEF Byte
  <2>2. QED
    BY <2>1 DEF Intact
<1>10. QED
  BY <1>9

-----------------------------------------------------------------------------
(***************************************************************************)
(* The initial states and the network thread.                              *)
(***************************************************************************)

LEMMA ParserInit == Init => PInv
<1> SUFFICES ASSUME Init PROVE PInv
  OBVIOUS
<1>1. stream \in Seq(Messages) /\ Len(stream) \in Nat /\ stream \in Streams
  BY StreamAssumption DEF Init
<1>2. TypeOK
  <2>1. next \in Byte /\ next.msg \in 1 .. Len(stream) + 1 /\ batch_recv_time \in Byte
    BY <1>1 DEF Init, Byte
  <2>2. SequenceTypes
    <3>1. 0 \in SeqNums
      BY SeqModAssumption DEF SeqNums
    <3>2. QED
      BY <3>1, Zenon DEF Init, SequenceInit, SequenceTypes
  <2>3. ring \in Seq(Byte) /\ Len(ring) <= RingCapacity
    BY BoundAssumption DEF Init
  <2>4. /\ recv_times \in Seq(Byte) /\ Len(recv_times) = Len(delivered)
        /\ delivered \in Seq(Indices) /\ accepted \in Seq(Indices)
    BY DEF Init
  <2>5. /\ reconnects \in 0 .. MaxReconnects /\ damaged \subseteq Indices
        /\ checksum_errors \in Nat /\ msgs_parsed \in Nat
    BY BoundAssumption DEF Init
  <2>6. feeding \in BOOLEAN
    BY Zenon DEF Init
  <2>7. QED
    BY <1>1, <2>1, <2>2, <2>3, <2>4, <2>5, <2>6 DEF TypeOK
<1>3. ring = <<>> /\ accepted = <<>> /\ delivered = <<>> /\ Len(<<>>) = 0
  BY DEF Init
<1>4. 1 .. Len(ring) = {} /\ RangeOf(accepted) = {} /\ RangeOf(delivered) = {}
      /\ 1 .. Len(accepted) = {} /\ 1 .. Len(delivered) = {}
  BY <1>3 DEF RangeOf
<1>5. ReceivedInv
  BY <1>1, <1>2, SizeFacts DEF Init, ReceivedInv, Indices
<1>6. RingOrdered /\ AcceptedInv /\ DeliveredInv
  BY <1>4 DEF RingOrdered, AcceptedInv, DeliveredInv, Ascending, RecvTimeNotStale
<1>7. LostInv
  BY DEF Init, LostInv
<1>8. KeptInv
  <2>1. ASSUME NEW m \in Indices, NEW o \in 0 .. SizeOf(m) - 1 PROVE ~Before(Pair(m, o), next)
    BY <1>2, SizeFacts DEF Before, Pair, Init
  <2>2. QED
    BY <2>1 DEF KeptInv
<1>9. GapInv
  BY <1>3 DEF Init, GapInv, GapAccounting, SequenceInit
<1>10. QED
  BY <1>2, <1>5, <1>6, <1>7, <1>8, <1>9 DEF PInv

\* What only the parse thread's variables matter to.
LEMMA ParsingSame ==
    ASSUME PInv, UNCHANGED <<stream, parsing>>
    PROVE  DeliveredInv' /\ GapInv'
<1>1. DeliveredInv'
  BY ZenonT(30) DEF PInv, DeliveredInv, parsing, Ascending, RangeOf, RecvTimeNotStale, SizeOf
<1>2. GapInv'
  BY DEF PInv, GapInv, GapAccounting, SeqAscending, Indices, parsing, sequencing
<1>3. QED
  BY <1>1, <1>2

\* A byte that has not been received is not in the ring.
LEMMA NotReceived ==
    ASSUME PInv, NEW m \in Nat, NEW o \in Nat, ~Before(Pair(m, o), next)
    PROVE  ~Has(ring, m, o)
BY DEF PInv, RingOrdered, Has, Before, Pair

LEMMA FeedTimeStep ==
    ASSUME PInv, FeedTime
    PROVE  PInv'
<1>1. /\ batch_recv_time' = next /\ feeding' = TRUE /\ next.msg \in Indices
      /\ UNCHANGED <<stream, next, reconnects, damaged, ring, parsing>>
  BY DEF FeedTime
<1>2. TypeOK'
  BY <1>1 DEF PInv, TypeOK, parsing, sequencing, SequenceTypes, Indices
<1>3. ReceivedInv'
  BY <1>1 DEF PInv, ReceivedInv, Indices, SizeOf
<1>4. RingOrdered'
  BY <1>1 DEF PInv, RingOrdered, InStream, Before, Indices, SizeOf
<1>5. LostInv' /\ KeptInv' /\ AcceptedInv'
  BY <1>1 DEF PInv, LostInv, KeptInv, AcceptedInv, Before, Pair, Has, Indices, SizeOf,
              RangeOf, Ascending, parsing
<1>6. QED
  BY <1>1, <1>2, <1>3, <1>4, <1>5, ParsingSame DEF PInv

\* The byte after next: exactly next comes before it and not before next.
LEMMA AfterFacts ==
    ASSUME TypeOK, ReceivedInv, next.msg \in Indices
    PROVE  LET n == After(next)
           IN  /\ n \in Byte /\ n.msg \in 1 .. Len(stream) + 1
               /\ n.msg \in Indices => n.off < SizeOf(n.msg)
               /\ next.msg <= n.msg
               /\ \A m \in Indices, o \in Nat :
                    o < SizeOf(m) =>
                      (Before(Pair(m, o), n)
                         <=> Before(Pair(m, o), next) \/ (m = next.msg /\ o = next.off))
<1> DEFINE n == After(next)
<1>1. /\ next.msg \in Nat \ {0} /\ next.off \in Nat /\ next.off < SizeOf(next.msg)
      /\ SizeOf(next.msg) \in Nat /\ Len(stream) \in Nat /\ next.msg <= Len(stream)
  BY ByteFacts, SizeFacts DEF ReceivedInv
<1>2. CASE next.off + 1 < SizeOf(next.msg)
  <2>1. n = [msg |-> next.msg, off |-> next.off + 1]
    BY <1>2 DEF After
  <2>2. QED
    BY <1>1, <1>2, <2>1, SizeFacts DEF Byte, Before, Pair
<1>3. CASE ~(next.off + 1 < SizeOf(next.msg))
  <2>1. n = [msg |-> next.msg + 1, off |-> 0]
    BY <1>3 DEF After
  <2>2. /\ n \in Byte /\ n.msg \in 1 .. Len(stream) + 1 /\ next.msg <= n.msg
    BY <1>1, <2>1 DEF Byte
  <2>3. n.msg \in Indices => n.off < SizeOf(n.msg)
    BY <2>1, SizeFacts
  <2>4. ASSUME NEW m \in Indices, NEW o \in Nat, o < SizeOf(m)
        PROVE  Before(Pair(m, o), n)
                 <=> Before(Pair(m, o), next) \/ (m = next.msg /\ o = next.off)
    <3>1. m \in Nat /\ SizeOf(m) \in Nat
      BY SizeFacts
    <3>2. next.off + 1 = SizeOf(next.msg)
      BY <1>1, <1>3
    <3>3. QED
      BY <1>1, <2>1, <2>4, <3>1, <3>2 DEF Before, Pair
  <2>5. QED
    BY <2>2, <2>3, <2>4
<1>4. QED
  BY <1>2, <1>3

LEMMA FeedWriteStep ==
    ASSUME PInv, FeedWrite
    PROVE  PInv'
<1>1. /\ feeding /\ feeding' = FALSE /\ next' = After(next)
      /\ UNCHANGED <<stream, batch_recv_time, reconnects, parsing>>
      /\ next.msg \in Indices /\ batch_recv_time = next
      /\ TypeOK /\ ReceivedInv
  BY DEF FeedWrite, PInv, ReceivedInv
<1>2. /\ next' \in Byte /\ next'.msg \in 1 .. Len(stream) + 1
      /\ next'.msg \in Indices => next'.off < SizeOf(next'.msg)
      /\ next.msg <= next'.msg
  BY <1>1, AfterFacts
<1>3. \A m \in Indices, o \in Nat :
        o < SizeOf(m) =>
          (Before(Pair(m, o), next')
             <=> Before(Pair(m, o), next) \/ (m = next.msg /\ o = next.off))
  BY <1>1, AfterFacts
<1>4. /\ next.msg \in Nat \ {0} /\ next.off \in Nat /\ next.off < SizeOf(next.msg)
      /\ next \in Byte /\ next'.msg \in Nat /\ Len(ring) \in Nat /\ ring \in Seq(Byte)
      /\ \A i \in 1 .. Len(ring) : ring[i].msg \in Nat /\ ring[i].off \in Nat
  BY <1>1, <1>2, ByteFacts, SizeFacts DEF ReceivedInv, Byte
<1>5. ASSUME NEW b, b.msg \in Indices, b.off \in Nat, b.off < SizeOf(b.msg)
      PROVE  Before(b, next') <=> Before(b, next) \/ (b.msg = next.msg /\ b.off = next.off)
  BY <1>3, <1>5 DEF Before, Pair
<1>6. ReceivedInv'
  BY <1>1, <1>2 DEF ReceivedInv, Indices, SizeOf
<1>7. \A m \in RangeOf(accepted) : m < next.msg /\ m < next'.msg /\ m \in Nat
  <2>1. ASSUME NEW m \in RangeOf(accepted) PROVE m < next.msg /\ m \in Nat
    BY <1>1 DEF PInv, AcceptedInv, RangeOf, TypeOK, Indices
  <2>2. QED
    BY <1>2, <1>4, <2>1
<1>8. /\ UNCHANGED <<delivered, accepted, sequencing, recv_times, checksum_errors, msgs_parsed>>
      /\ Indices' = Indices /\ \A m : SizeOf(m)' = SizeOf(m)
  BY <1>1 DEF parsing, Indices, SizeOf
<1>9. CASE Len(ring) < RingCapacity
  <2>1. ring' = Append(ring, next) /\ damaged' = damaged
    BY <1>9 DEF FeedWrite
  <2>2. /\ ring' \in Seq(Byte) /\ Len(ring') = Len(ring) + 1
        /\ ring'[Len(ring) + 1] = next
        /\ \A i \in 1 .. Len(ring) : ring'[i] = ring[i]
    BY <1>4, <2>1, AppendFacts
  <2>3. TypeOK'
    <3>1. Len(ring') <= RingCapacity
      BY <1>4, <1>9, <2>2, BoundAssumption
    <3>2. QED
      BY <1>1, <1>2, <1>8, <2>1, <2>2, <3>1 DEF TypeOK, SequenceTypes, sequencing, Indices
  <2>4. RingOrdered'
    <3>1. ASSUME NEW i \in 1 .. Len(ring)
          PROVE  InStream(ring[i]) /\ Before(ring[i], next')
      <4>1. InStream(ring[i]) /\ Before(ring[i], next)
        BY DEF PInv, RingOrdered
      <4>2. QED
        BY <1>4, <1>5, <4>1 DEF InStream
    <3>2. InStream(next) /\ Before(next, next')
      BY <1>1, <1>4, <1>5 DEF InStream
    <3>3. \A i \in 1 .. Len(ring) :
            /\ Before(ring[i], next)
            /\ \A j \in 1 .. Len(ring) : i < j => Before(ring[i], ring[j])
      BY DEF PInv, RingOrdered
    <3>4. ASSUME NEW i \in 1 .. Len(ring')
          PROVE  i \in 1 .. Len(ring) \/ (i = Len(ring) + 1 /\ ring'[i] = next)
      BY <1>4, <2>2
    <3>5. ASSUME NEW i \in 1 .. Len(ring')
          PROVE  /\ InStream(ring'[i]) /\ Before(ring'[i], next')
                 /\ ring'[i] = next \/ Before(ring'[i], next)
      BY <2>2, <3>1, <3>2, <3>3, <3>4
    <3>6. ASSUME NEW i \in 1 .. Len(ring'), NEW j \in 1 .. Len(ring'), i < j
          PROVE  Before(ring'[i], ring'[j])
      <4>1. i \in 1 .. Len(ring)
        BY <1>4, <2>2, <3>6
      <4>2. QED
        BY <2>2, <3>3, <3>4, <3>6, <4>1
    <3>7. QED
      BY <1>1, <1>8, <3>5, <3>6 DEF RingOrdered, InStream
  <2>5. \A m \in Nat, o \in Nat :
          Has(ring', m, o) <=> Has(ring, m, o) \/ (m = next.msg /\ o = next.off)
    <3>1. ASSUME NEW m \in Nat, NEW o \in Nat, Has(ring, m, o) PROVE Has(ring', m, o)
      BY <1>4, <2>2, <3>1 DEF Has
    <3>2. Has(ring', next.msg, next.off)
      <4>1. Len(ring) + 1 \in 1 .. Len(ring')
        BY <1>4, <2>2
      <4>2. QED
        BY <2>2, <4>1 DEF Has
    <3>3. ASSUME NEW m \in Nat, NEW o \in Nat, Has(ring', m, o)
          PROVE  Has(ring, m, o) \/ (m = next.msg /\ o = next.off)
      <4>1. PICK i \in 1 .. Len(ring') : ring'[i].msg = m /\ ring'[i].off = o
        BY <3>3 DEF Has
      <4>2. CASE i \in 1 .. Len(ring)
        BY <2>2, <4>1, <4>2 DEF Has
      <4>3. CASE i = Len(ring) + 1
        BY <2>2, <4>1, <4>3
      <4>4. QED
        BY <1>4, <2>2, <4>2, <4>3
    <3>4. QED
      BY <3>1, <3>2, <3>3
  <2>6. LostInv'
    <3>1. ASSUME NEW m \in damaged
          PROVE  /\ m <= next'.msg
                 /\ \E o \in 0 .. SizeOf(m) - 1 : Before(Pair(m, o), next') /\ ~Has(ring', m, o)
      <4>1. m <= next.msg /\ m \in Indices /\ m \in Nat /\ SizeOf(m) \in Nat
        BY <1>1, SizeFacts DEF PInv, LostInv, TypeOK
      <4>2. PICK o \in 0 .. SizeOf(m) - 1 : Before(Pair(m, o), next) /\ ~Has(ring, m, o)
        BY DEF PInv, LostInv
      <4>3. o \in Nat /\ o < SizeOf(m)
        BY <4>1
      <4>4. ~(m = next.msg /\ o = next.off)
        BY <1>4, <4>1, <4>2, <4>3 DEF Before, Pair
      <4>5. Before(Pair(m, o), next') /\ ~Has(ring', m, o)
        BY <1>3, <2>5, <4>1, <4>2, <4>3, <4>4
      <4>6. QED
        BY <1>2, <1>4, <4>1, <4>5
    <3>2. QED
      BY <1>8, <2>1, <3>1 DEF LostInv, Before, Pair
  <2>7. KeptInv'
    <3>1. ASSUME NEW m \in Indices \ damaged, m \notin RangeOf(accepted),
                 NEW o \in 0 .. SizeOf(m) - 1, Before(Pair(m, o), next')
          PROVE  Has(ring', m, o)
      <4>1. m \in Nat /\ o \in Nat /\ o < SizeOf(m) /\ m \in Indices
        BY <1>1, SizeFacts
      <4>2. Before(Pair(m, o), next) => Has(ring, m, o)
        BY <3>1 DEF PInv, KeptInv
      <4>3. QED
        BY <1>3, <2>5, <3>1, <4>1, <4>2
    <3>2. QED
      BY <1>8, <2>1, <3>1 DEF KeptInv, RangeOf, Before, Pair
  <2>8. AcceptedInv'
    <3>1. ASSUME NEW m \in RangeOf(accepted), NEW i \in 1 .. Len(ring') PROVE m < ring'[i].msg
      BY <1>4, <1>7, <2>2 DEF PInv, AcceptedInv
    <3>2. QED
      BY <1>7, <1>8, <2>1, <3>1 DEF PInv, AcceptedInv, RangeOf, Ascending
  <2>9. QED
    BY <1>1, <1>6, <2>3, <2>4, <2>6, <2>7, <2>8, ParsingSame DEF PInv
<1>10. CASE ~(Len(ring) < RingCapacity)
  <2>1. ring' = ring /\ damaged' = damaged \union {next.msg}
    BY <1>10 DEF FeedWrite
  <2>2. TypeOK'
    BY <1>1, <1>2, <1>8, <2>1 DEF TypeOK, SequenceTypes, sequencing, Indices
  <2>3. RingOrdered'
    <3>1. ASSUME NEW i \in 1 .. Len(ring)
          PROVE  InStream(ring[i]) /\ Before(ring[i], next')
      <4>1. InStream(ring[i]) /\ Before(ring[i], next)
        BY DEF PInv, RingOrdered
      <4>2. QED
        BY <1>4, <1>5, <4>1 DEF InStream
    <3>2. QED
      BY <1>1, <1>8, <2>1, <3>1 DEF PInv, RingOrdered, InStream
  <2>4. \A m, o : Has(ring', m, o) <=> Has(ring, m, o)
    BY <2>1
  <2>5. LostInv'
    <3>1. ASSUME NEW m \in damaged \union {next.msg}
          PROVE  /\ m <= next'.msg
                 /\ \E o \in 0 .. SizeOf(m) - 1 : Before(Pair(m, o), next') /\ ~Has(ring', m, o)
      <4>1. CASE m \in damaged
        <5>1. m <= next.msg /\ m \in Indices /\ m \in Nat /\ SizeOf(m) \in Nat
          BY <1>1, <4>1, SizeFacts DEF PInv, LostInv, TypeOK
        <5>2. PICK o \in 0 .. SizeOf(m) - 1 : Before(Pair(m, o), next) /\ ~Has(ring, m, o)
          BY <4>1 DEF PInv, LostInv
        <5>3. o \in Nat /\ o < SizeOf(m)
          BY <5>1
        <5>4. Before(Pair(m, o), next') /\ ~Has(ring', m, o)
          BY <1>3, <2>4, <5>1, <5>2, <5>3
        <5>5. QED
          BY <1>2, <1>4, <5>1, <5>4
      <4>2. CASE m = next.msg
        <5>1. ~Before(Pair(m, next.off), next)
          BY <1>4, <4>2 DEF Before, Pair
        <5>2. ~Has(ring', m, next.off)
          BY <1>4, <2>4, <4>2, <5>1, NotReceived
        <5>3. Before(Pair(m, next.off), next')
          BY <1>1, <1>3, <1>4, <4>2
        <5>4. next.off \in 0 .. SizeOf(m) - 1
          BY <1>1, <1>4, <4>2, SizeFacts
        <5>5. QED
          BY <1>2, <4>2, <5>2, <5>3, <5>4
      <4>3. QED
        BY <4>1, <4>2
    <3>2. QED
      BY <1>8, <2>1, <3>1 DEF LostInv, Before, Pair
  <2>6. KeptInv'
    <3>1. ASSUME NEW m \in Indices \ damaged, m # next.msg, m \notin RangeOf(accepted),
                 NEW o \in 0 .. SizeOf(m) - 1, Before(Pair(m, o), next')
          PROVE  Has(ring', m, o)
      <4>1. m \in Nat /\ o \in Nat /\ o < SizeOf(m) /\ m \in Indices
        BY <1>1, SizeFacts
      <4>2. Before(Pair(m, o), next) => Has(ring, m, o)
        BY <3>1 DEF PInv, KeptInv
      <4>3. QED
        BY <1>3, <2>4, <3>1, <4>1, <4>2
    <3>2. QED
      BY <1>8, <2>1, <3>1 DEF KeptInv, RangeOf, Before, Pair
  <2>7. AcceptedInv'
    BY <1>4, <1>7, <1>8, <2>1 DEF PInv, AcceptedInv, RangeOf, Ascending
  <2>8. QED
    BY <1>1, <1>6, <2>2, <2>3, <2>5, <2>6, <2>7, ParsingSame DEF PInv
<1>11. QED
  BY <1>9, <1>10

LEMMA ReconnectStep ==
    ASSUME PInv, Reconnect
    PROVE  PInv'
<1>1. PICK k \in next.msg .. Len(stream) :
        /\ next.off > 0 => k > next.msg
        /\ next' = [msg |-> k, off |-> 0]
        /\ damaged' = damaged \union (next.msg .. k - 1)
  BY DEF Reconnect
<1>2. /\ ~feeding /\ UNCHANGED <<stream, feeding, batch_recv_time, ring, parsing>>
      /\ reconnects < MaxReconnects /\ reconnects' = reconnects + 1 /\ TypeOK
  BY DEF Reconnect, PInv
<1>3. /\ next.msg \in Nat \ {0} /\ next.off \in Nat /\ Len(stream) \in Nat /\ k \in Nat
      /\ next.msg \in Indices /\ k \in Indices /\ next.msg <= k
      /\ \A i \in 1 .. Len(ring) : ring[i].msg \in Nat /\ ring[i].off \in Nat
  <2>1. next.msg \in 1 .. Len(stream) + 1 /\ Len(stream) \in Nat
    BY <1>2, StreamAssumption, LenProperties DEF TypeOK
  <2>2. QED
    BY <1>1, <1>2, <2>1, ByteFacts DEF Indices
<1>4. /\ UNCHANGED <<delivered, accepted, sequencing, recv_times, checksum_errors, msgs_parsed>>
      /\ Indices' = Indices /\ \A m : SizeOf(m)' = SizeOf(m)
  BY <1>2 DEF parsing, Indices, SizeOf
<1>5. next'.msg = k /\ next'.off = 0 /\ next' \in Byte
  BY <1>1, <1>3 DEF Byte
<1>6. ASSUME NEW b, b.msg \in Nat, b.off \in Nat, Before(b, next) PROVE Before(b, next')
  BY <1>1, <1>3, <1>5, <1>6 DEF Before
<1>7. TypeOK'
  <2>1. next'.msg \in 1 .. Len(stream) + 1 /\ damaged' \subseteq Indices
    <3>1. next'.msg \in 1 .. Len(stream) + 1 /\ next.msg .. k - 1 \subseteq Indices
      BY <1>3, <1>5 DEF Indices
    <3>2. damaged \subseteq Indices
      BY <1>2 DEF TypeOK
    <3>3. QED
      BY <1>1, <3>1, <3>2
  <2>2. reconnects' \in 0 .. MaxReconnects
    BY <1>2, BoundAssumption DEF TypeOK
  <2>3. QED
    BY <1>2, <1>4, <1>5, <2>1, <2>2 DEF TypeOK, SequenceTypes, sequencing, Indices
<1>8. ReceivedInv'
  <2>1. 0 < SizeOf(k)
    BY <1>2, <1>3, SizeFacts
  <2>2. QED
    BY <1>2, <1>4, <1>5, <2>1 DEF PInv, ReceivedInv
<1>9. RingOrdered'
  BY <1>2, <1>3, <1>4, <1>6 DEF PInv, RingOrdered, InStream
<1>10. LostInv'
  <2>1. ASSUME NEW m \in damaged \union (next.msg .. k - 1)
        PROVE  /\ m <= k
               /\ \E o \in 0 .. SizeOf(m) - 1 : Before(Pair(m, o), next') /\ ~Has(ring, m, o)
    <3>1. CASE m \in damaged
      <4>1. m <= next.msg /\ m \in Nat /\ SizeOf(m) \in Nat
        BY <1>2, <3>1, SizeFacts DEF PInv, LostInv, TypeOK
      <4>2. PICK o \in 0 .. SizeOf(m) - 1 : Before(Pair(m, o), next) /\ ~Has(ring, m, o)
        BY <3>1 DEF PInv, LostInv
      <4>3. Before(Pair(m, o), next')
        BY <1>6, <4>1, <4>2 DEF Pair
      <4>4. QED
        BY <1>3, <4>1, <4>2, <4>3
    <3>2. CASE m \in next.msg .. k - 1
      <4>1. m \in Indices /\ m \in Nat /\ m < k /\ next.msg <= m
        BY <1>3, <3>2 DEF Indices
      <4>2. SizeOf(m) \in Nat \ {0}
        BY <1>2, <4>1, SizeFacts
      <4> DEFINE o == IF m = next.msg THEN next.off ELSE 0
      <4>3. o \in 0 .. SizeOf(m) - 1
        BY <1>3, <4>1, <4>2 DEF PInv, ReceivedInv
      <4>4. Before(Pair(m, o), next') /\ ~Before(Pair(m, o), next)
        BY <1>3, <1>5, <4>1, <4>3 DEF Before, Pair
      <4>5. o \in Nat
        BY <4>2, <4>3
      <4> HIDE DEF o
      <4>6. ~Has(ring, m, o)
        BY <4>1, <4>4, <4>5, NotReceived
      <4>7. QED
        BY <1>3, <4>1, <4>3, <4>4, <4>6
    <3>3. QED
      BY <3>1, <3>2
  <2>2. QED
    BY <1>1, <1>2, <1>4, <1>5, <2>1 DEF LostInv, Before, Pair
<1>11. KeptInv'
  <2>1. ASSUME NEW m \in Indices \ (damaged \union (next.msg .. k - 1)),
               m \notin RangeOf(accepted),
               NEW o \in 0 .. SizeOf(m) - 1, Before(Pair(m, o), next')
        PROVE  Has(ring, m, o)
    <3>1. m \in Nat /\ o \in Nat
      BY <1>2, SizeFacts
    <3>2. Before(Pair(m, o), next)
      BY <1>3, <1>5, <2>1, <3>1 DEF Before, Pair
    <3>3. QED
      BY <2>1, <3>2 DEF PInv, KeptInv
  <2>2. QED
    BY <1>1, <1>2, <1>4, <2>1 DEF KeptInv, RangeOf, Before, Pair
<1>12. AcceptedInv'
  <2>1. ASSUME NEW m \in RangeOf(accepted) PROVE m < k /\ m \notin next.msg .. k - 1
    <3>1. m < next.msg /\ m \in Nat
      BY <1>2 DEF PInv, AcceptedInv, RangeOf, TypeOK, Indices
    <3>2. QED
      BY <1>3, <3>1
  <2>2. QED
    BY <1>1, <1>2, <1>4, <1>5, <2>1 DEF PInv, AcceptedInv, RangeOf, Ascending
<1>13. QED
  BY <1>2, <1>7, <1>8, <1>9, <1>10, <1>11, <1>12, ParsingSame DEF PInv

-----------------------------------------------------------------------------
(***************************************************************************)
(* The parse thread.                                                       *)
(***************************************************************************)

\* consume leaves the later bytes in their order, and what it concerns only.
LEMMA Consumed ==
    ASSUME PInv, NEW n \in 0 .. Len(ring), ConsumeBytes(n), UNCHANGED network
    PROVE  /\ ring' \in Seq(Byte) /\ Len(ring') = Len(ring) - n /\ Len(ring) \in Nat
           /\ Len(ring') <= RingCapacity
           /\ \A i \in 1 .. Len(ring') : n + i \in 1 .. Len(ring) /\ ring'[i] = ring[n + i]
           /\ \A i \in n + 1 .. Len(ring) : i - n \in 1 .. Len(ring') /\ ring'[i - n] = ring[i]
           /\ ReceivedInv' /\ RingOrdered' /\ LostInv'
<1>1. ring \in Seq(Byte) /\ Len(ring) \in Nat /\ n \in Nat /\ n <= Len(ring)
      /\ Len(ring) <= RingCapacity /\ RingCapacity \in Nat
  BY BoundAssumption DEF PInv, TypeOK
<1>2. /\ ring' \in Seq(Byte) /\ Len(ring') = Len(ring) - n
      /\ \A i \in 1 .. Len(ring) - n : ring'[i] = ring[n + i]
  BY <1>1, DropFacts DEF ConsumeBytes
<1>3. \A i \in 1 .. Len(ring') : n + i \in 1 .. Len(ring) /\ ring'[i] = ring[n + i]
  BY <1>1, <1>2
<1>4. ASSUME NEW i \in n + 1 .. Len(ring)
      PROVE  i - n \in 1 .. Len(ring') /\ ring'[i - n] = ring[i]
  <2>1. i - n \in 1 .. Len(ring) - n /\ n + (i - n) = i
    BY <1>1
  <2>2. QED
    BY <1>2, <2>1
<1>5. Len(ring') <= RingCapacity
  BY <1>1, <1>2
<1>6. UNCHANGED <<stream, next, feeding, batch_recv_time, damaged>>
      /\ Indices' = Indices /\ \A m : SizeOf(m)' = SizeOf(m)
  BY DEF network, Indices, SizeOf
<1>7. ReceivedInv'
  BY <1>6 DEF PInv, ReceivedInv
<1>8. RingOrdered'
  <2>1. ASSUME NEW i \in 1 .. Len(ring')
        PROVE  /\ InStream(ring'[i]) /\ Before(ring'[i], next)
               /\ ring'[i] = batch_recv_time \/ Before(ring'[i], batch_recv_time)
    BY <1>3 DEF PInv, RingOrdered
  <2>2. ASSUME NEW i \in 1 .. Len(ring'), NEW j \in 1 .. Len(ring'), i < j
        PROVE  Before(ring'[i], ring'[j])
    <3>1. n + i < n + j
      BY <1>1, <1>2, <2>2
    <3>2. QED
      BY <1>3, <3>1 DEF PInv, RingOrdered
  <2>3. QED
    BY <1>6, <2>1, <2>2 DEF RingOrdered, InStream
<1>9. LostInv'
  <2>1. \A m, o : Has(ring', m, o) => Has(ring, m, o)
    BY <1>3 DEF Has
  <2>2. QED
    BY <1>6, <2>1 DEF PInv, LostInv, Before, Pair
<1>10. QED
  BY <1>1, <1>2, <1>3, <1>4, <1>5, <1>7, <1>8, <1>9

\* When process skips a byte, the message the byte is of is damaged.
LEMMA SkipsDamaged ==
    ASSUME PInv, UnknownType \/ ChecksumError
    PROVE  1 \in 0 .. Len(ring) /\ 1 \in 1 .. Len(ring) /\ ring[1].msg \in damaged
<1> DEFINE m == ring[1].msg
<1>1. TypeOK /\ Len(ring) \in Nat /\ HeaderSize \in Nat \ {0} /\ Len(ring) >= HeaderSize
  BY ByteFacts, SizeAssumption DEF PInv, UnknownType, ChecksumError
<1>2. Len(ring) >= 1 /\ 1 \in 1 .. Len(ring) /\ 1 \in 0 .. Len(ring) /\ ring # <<>>
  BY <1>1
<1>3. m \in Indices
  BY <1>2 DEF PInv, RingOrdered, InStream
<1>4. SizeOf(m) \in Nat /\ HeaderSize < SizeOf(m)
  BY <1>1, <1>3, SizeFacts
<1>5. ASSUME m \notin damaged PROVE FALSE
  <2>1. Intact(HeaderSize)
    BY <1>1, <1>2, <1>4, <1>5, FrontIntact
  <2>2. PICK t \in HeaderTypes : Len(ring) >= Size[t] /\ ~Intact(Size[t])
    BY <2>1 DEF UnknownType, ChecksumError
  <2>3. Size[t] = SizeOf(m)
    BY <2>1, <2>2 DEF HeaderTypes, SizeOf
  <2>4. Intact(SizeOf(m))
    BY <1>2, <1>4, <1>5, <2>2, <2>3, FrontIntact
  <2>5. QED
    BY <2>2, <2>3, <2>4
<1>6. QED
  BY <1>2, <1>5

LEMMA SkipStep ==
    ASSUME PInv, UnknownType \/ ChecksumError
    PROVE  PInv'
<1>1. /\ ConsumeBytes(1) /\ UNCHANGED <<network, sequencing, msgs_parsed, delivered,
                                        recv_times, accepted>>
      /\ checksum_errors' = checksum_errors \/ checksum_errors' = checksum_errors + 1
  BY DEF UnknownType, ChecksumError, parsing
<1>2. 1 \in 0 .. Len(ring) /\ 1 \in 1 .. Len(ring) /\ ring[1].msg \in damaged
  BY SkipsDamaged
<1>3. /\ ring' \in Seq(Byte) /\ Len(ring') = Len(ring) - 1 /\ Len(ring) \in Nat
      /\ Len(ring') <= RingCapacity
      /\ \A i \in 1 .. Len(ring') : 1 + i \in 1 .. Len(ring) /\ ring'[i] = ring[1 + i]
      /\ \A i \in 1 + 1 .. Len(ring) : i - 1 \in 1 .. Len(ring') /\ ring'[i - 1] = ring[i]
      /\ ReceivedInv' /\ RingOrdered' /\ LostInv'
  BY <1>1, <1>2, Consumed
<1>4. /\ UNCHANGED <<stream, next, damaged, accepted>>
      /\ Indices' = Indices /\ \A m : SizeOf(m)' = SizeOf(m)
  BY <1>1 DEF network, Indices, SizeOf
<1>5. TypeOK'
  BY <1>1, <1>3, <1>4 DEF PInv, TypeOK, network, SequenceTypes, sequencing, Indices
<1>6. KeptInv'
  <2>1. ASSUME NEW m \in Indices \ damaged, NEW o, Has(ring, m, o) PROVE Has(ring', m, o)
    <3>1. PICK i \in 1 .. Len(ring) : ring[i].msg = m /\ ring[i].off = o
      BY <2>1 DEF Has
    <3>2. i # 1
      BY <1>2, <3>1
    <3>3. i \in 1 + 1 .. Len(ring)
      BY <1>3, <3>2
    <3>4. i - 1 \in 1 .. Len(ring') /\ ring'[i - 1] = ring[i]
      BY <1>3, <3>3
    <3>5. QED
      BY <3>1, <3>4 DEF Has
  <2>2. QED
    BY <1>4, <2>1 DEF PInv, KeptInv, RangeOf, Before, Pair
<1>7. AcceptedInv'
  BY <1>3, <1>4, ZenonT(30) DEF PInv, AcceptedInv, RangeOf, Ascending
<1>8. DeliveredInv'
  BY <1>1, <1>4 DEF PInv, DeliveredInv, RangeOf, Ascending, RecvTimeNotStale
<1>9. GapInv'
  BY <1>1, <1>4 DEF PInv, GapInv, GapAccounting, SeqAscending, sequencing
<1>10. QED
  BY <1>3, <1>5, <1>6, <1>7, <1>8, <1>9 DEF PInv

\* Appending a larger number to an ascending sequence.
LEMMA AscendingAppend ==
    ASSUME NEW S \in SUBSET Nat, NEW s \in Seq(S), NEW e \in S, Ascending(s),
           \A m \in RangeOf(s) : m < e
    PROVE  Ascending(Append(s, e))
<1>1. /\ Len(Append(s, e)) = Len(s) + 1 /\ Append(s, e)[Len(s) + 1] = e /\ Len(s) \in Nat
      /\ \A i \in 1 .. Len(s) : Append(s, e)[i] = s[i]
  BY AppendFacts
<1>2. \A i \in 1 .. Len(s) : s[i] < e
  BY DEF RangeOf
<1>3. ASSUME NEW i \in 1 .. Len(s) + 1, NEW j \in 1 .. Len(s) + 1, i < j
      PROVE  Append(s, e)[i] < Append(s, e)[j]
  <2>1. i \in 1 .. Len(s)
    BY <1>1, <1>3
  <2>2. CASE j \in 1 .. Len(s)
    BY <1>1, <1>3, <2>1, <2>2 DEF Ascending
  <2>3. CASE j = Len(s) + 1
    BY <1>1, <1>2, <2>1, <2>3
  <2>4. QED
    BY <1>1, <2>2, <2>3
<1>4. QED
  BY <1>1, <1>3 DEF Ascending

\* The message AcceptMessage finds: its bytes are the front of the ring, it
\* came whole, later than every accepted one and not later than the time.
LEMMA FrontMessage ==
    ASSUME PInv, ring # <<>>,
           Len(ring) >= SizeOf(ring[1].msg), Intact(SizeOf(ring[1].msg))
    PROVE  LET m == ring[1].msg
               n == SizeOf(m)
           IN  /\ m \in Indices /\ n \in Nat /\ n \in 0 .. Len(ring)
               /\ m \notin damaged /\ m < next.msg
               /\ \A i \in 1 .. n : ring[i].msg = m
               /\ \A i \in n + 1 .. Len(ring) : m < ring[i].msg
               /\ \A a \in RangeOf(accepted) : a < m
               /\ \/ batch_recv_time.msg > m
                  \/ batch_recv_time = [msg |-> m, off |-> n - 1]
<1> DEFINE m == ring[1].msg
           n == SizeOf(m)
<1>1. /\ Len(ring) \in Nat /\ Len(ring) >= 1 /\ 1 \in 1 .. Len(ring) /\ TypeOK
      /\ \A i \in 1 .. Len(ring) : ring[i].msg \in Nat /\ ring[i].off \in Nat
  <2>1. TypeOK
    BY DEF PInv
  <2>2. Len(ring) # 0
    BY <2>1, ByteFacts, EmptySeq
  <2>3. QED
    BY <2>1, <2>2, ByteFacts
<1>2. m \in Indices
  BY <1>1 DEF PInv, RingOrdered, InStream
<1>3. n \in Nat \ {0} /\ m \in Nat /\ n \in 1 .. Len(ring) /\ n \in 0 .. Len(ring)
  <2>1. n \in Nat \ {0} /\ m \in Nat
    BY <1>1, <1>2, SizeFacts
  <2>2. n <= Len(ring)
    BY <1>1, <2>1
  <2> HIDE DEF n
  <2>3. QED
    BY <1>1, <2>1, <2>2
<1>4. ASSUME NEW i \in 1 .. n
      PROVE  ring[i].msg = m /\ ring[i].off = i - 1 /\ i \in 1 .. Len(ring)
  <2>1. ring[i] = [msg |-> m, off |-> i - 1]
    BY DEF Intact
  <2>2. i \in 1 .. Len(ring)
    BY <1>1, <1>3
  <2>3. QED
    BY <2>1, <2>2
<1>5. ring[n].msg = m /\ ring[n].off = n - 1
  <2>1. n \in 1 .. n
    BY <1>3
  <2>2. QED
    BY <1>4, <2>1
<1>6. m < next.msg
  <2>1. Before(ring[n], next)
    BY <1>3 DEF PInv, RingOrdered
  <2>2. next.msg \in Nat /\ next.off \in Nat
    BY <1>1, ByteFacts
  <2>3. next.msg = m => next.off < n
    BY <1>2 DEF PInv, ReceivedInv
  <2>4. QED
    BY <1>3, <1>5, <2>1, <2>2, <2>3 DEF Before
<1>7. m \notin damaged
  <2>1. ASSUME NEW o \in 0 .. n - 1 PROVE Has(ring, m, o)
    <3>1. o + 1 \in 1 .. n /\ o + 1 - 1 = o
      BY <1>3
    <3>2. QED
      BY <1>4, <3>1 DEF Has
  <2>2. QED
    BY <2>1 DEF PInv, LostInv
<1>8. ASSUME NEW i \in n + 1 .. Len(ring) PROVE m < ring[i].msg
  <2>1. i \in 1 .. Len(ring) /\ n < i
    BY <1>3
  <2>2. Before(ring[n], ring[i]) /\ InStream(ring[i])
    BY <1>3, <2>1 DEF PInv, RingOrdered
  <2>3. QED
    BY <1>1, <1>3, <1>5, <2>1, <2>2 DEF Before, InStream
<1>9. \A a \in RangeOf(accepted) : a < m
  BY <1>1 DEF PInv, AcceptedInv
<1>10. batch_recv_time.msg > m \/ batch_recv_time = [msg |-> m, off |-> n - 1]
  <2> DEFINE b == batch_recv_time
  <2>1. b \in Byte /\ b.msg \in Nat /\ b.off \in Nat
    BY <1>1, ByteFacts
  <2>2. ring[n] = b \/ Before(ring[n], b)
    BY <1>3 DEF PInv, RingOrdered
  <2>3. b.msg = m => b.off < n
    BY <1>2 DEF PInv, ReceivedInv
  <2>4. b.msg > m \/ (b.msg = m /\ b.off = n - 1)
    BY <1>3, <1>5, <2>1, <2>2, <2>3 DEF Before
  <2> HIDE DEF m, n
  <2>5. QED
    BY <2>1, <2>4 DEF Byte
<1>11. QED
  BY <1>2, <1>3, <1>4, <1>6, <1>7, <1>8, <1>9, <1>10

\* Short of the end of their range, the next number is the successor.
LEMMA NextSeqSmall ==
    ASSUME NEW x \in Nat, x + 1 < SeqMod
    PROVE  NextSeqNum(x) = x + 1
BY SeqModAssumption DEF NextSeqNum

\* What CheckSequence does to the statistics when a message is accepted.
LEMMA CheckSequenceStep ==
    ASSUME PInv, NEW m \in Indices, CheckSequence(stream[m].seq),
           \A a \in RangeOf(accepted) : a < m,
           accepted' = Append(accepted, m), UNCHANGED stream
    PROVE  SequenceTypes' /\ GapInv'
<1> DEFINE n == stream[m].seq
           A == Append(accepted, m)
<1>1. TypeOK /\ accepted \in Seq(Indices) /\ SequenceTypes /\ Indices' = Indices
  BY DEF PInv, TypeOK, Indices
<1>2. /\ n \in SeqNums /\ n \in Nat /\ n < SeqMod /\ SeqMod \in Nat \ {0}
      /\ \A i \in Indices : stream[i].seq \in Nat /\ stream[i].seq < SeqMod
  BY <1>1, SizeFacts, SeqModAssumption DEF SeqNums
<1>3. /\ A \in Seq(Indices) /\ Len(A) = Len(accepted) + 1 /\ A[Len(accepted) + 1] = m
      /\ Len(accepted) \in Nat /\ \A i \in 1 .. Len(accepted) : A[i] = accepted[i]
      /\ A # <<>>
  BY <1>1, AppendFacts
<1>4. NextSeqNum(n) \in SeqNums /\ seq_initialized' = TRUE /\ expected_seq' = NextSeqNum(n)
  BY <1>2 DEF NextSeqNum, SeqNums, CheckSequence
<1>5. seq_initialized' \in BOOLEAN /\ (seq_initialized' <=> A # <<>>)
  BY <1>3, <1>4, Zenon
<1>6. /\ total_gap_size \in Nat /\ sequence_gaps \in Nat /\ expected_seq \in Nat
  BY <1>1, <1>2 DEF SequenceTypes, SeqNums
<1>7. \/ /\ seq_initialized /\ n > expected_seq
         /\ sequence_gaps' = sequence_gaps + 1
         /\ total_gap_size' = total_gap_size + (n - expected_seq)
      \/ /\ ~(seq_initialized /\ n > expected_seq)
         /\ sequence_gaps' = sequence_gaps /\ total_gap_size' = total_gap_size
  BY DEF CheckSequence
<1>8. sequence_gaps' \in Nat /\ total_gap_size' \in Nat
  BY <1>2, <1>6, <1>7
<1>9. SequenceTypes'
  BY <1>4, <1>5, <1>8 DEF SequenceTypes
<1>10. ASSUME SeqAscending
       PROVE  /\ total_gap_size' + Len(A) = n - stream[A[1]].seq + 1
              /\ sequence_gaps' <= total_gap_size'
  <2>1. CASE accepted = <<>>
    <3>1. Len(accepted) = 0 /\ total_gap_size = 0 /\ sequence_gaps = 0 /\ ~seq_initialized
      BY <2>1 DEF PInv, GapInv
    <3>2. A[1] = m /\ Len(A) = 1
      BY <1>3, <3>1
    <3>3. QED
      BY <1>2, <1>7, <3>1, <3>2
  <2>2. CASE accepted # <<>>
    <3> DEFINE k     == Len(accepted)
               last  == stream[accepted[k]].seq
               first == stream[accepted[1]].seq
    <3>1. k \in Nat \ {0} /\ k \in 1 .. k /\ 1 \in 1 .. k
      BY <1>1, <2>2, EmptySeq
    <3>2. /\ expected_seq = NextSeqNum(last) /\ total_gap_size + k = last - first + 1
          /\ sequence_gaps <= total_gap_size /\ seq_initialized
      BY <1>10, <2>2 DEF PInv, GapInv, GapAccounting
    <3>3. accepted[k] \in Indices /\ accepted[1] \in Indices /\ accepted[k] < m
      BY <1>1, <3>1 DEF RangeOf
    <3>4. last \in Nat /\ first \in Nat /\ last < n
      BY <1>2, <1>10, <3>3 DEF SeqAscending
    <3>5. expected_seq = last + 1
      <4>1. last + 1 \in 0 .. SeqMod - 1
        BY <1>2, <3>4
      <4>2. QED
        BY <1>2, <3>2, <3>4, <4>1, NextSeqSmall
    <3>6. A[1] = accepted[1] /\ Len(A) = k + 1
      BY <1>3, <3>1
    <3> HIDE DEF k, last, n, A
    <3>7. total_gap_size' = total_gap_size + (n - last - 1)
      <4>1. n \in Nat
        BY <1>2 DEF n
      <4>2. CASE n > expected_seq
        <5>1. total_gap_size' = total_gap_size + (n - expected_seq)
          BY <1>7, <3>2, <4>2 DEF n
        <5>2. QED
          BY <1>6, <3>4, <3>5, <4>1, <5>1
      <4>3. CASE ~(n > expected_seq)
        <5>1. total_gap_size' = total_gap_size
          BY <1>7, <4>3 DEF n
        <5>2. n - last - 1 = 0
          BY <3>4, <3>5, <4>1, <4>3
        <5>3. QED
          BY <1>6, <5>1, <5>2
      <4>4. QED
        BY <4>2, <4>3
    <3>8. stream[A[1]].seq = first
      BY <3>6
    <3> HIDE DEF first
    <3>9. total_gap_size' + Len(A) = n - first + 1
      <4>1. n \in Nat /\ k \in Nat /\ total_gap_size + k = last - first + 1
        BY <1>2, <3>1, <3>2 DEF n
      <4>2. Len(A) = k + 1 /\ total_gap_size \in Nat
        BY <1>6, <3>6
      <4>3. QED
        BY <3>4, <3>7, <4>1, <4>2
    <3>10. sequence_gaps' <= total_gap_size'
      <4>1. n \in Nat
        BY <1>2 DEF n
      <4>2. QED
        BY <1>6, <1>7, <3>2, <4>1 DEF n
    <3>11. QED
      BY <3>8, <3>9, <3>10 DEF n, A
  <2>3. QED
    BY <2>1, <2>2
<1>11. GapInv'
  <2>1. SeqAscending' => SeqAscending
    BY <1>1 DEF SeqAscending
  <2>2. A[Len(A)] = m
    BY <1>3
  <2>3. GapAccounting'
    BY <1>4, <1>10, <2>1, <2>2 DEF GapAccounting
  <2>4. QED
    BY <1>3, <1>5, <2>3 DEF GapInv
<1>12. QED
  BY <1>9, <1>11

LEMMA AcceptStep ==
    ASSUME PInv, AcceptMessage
    PROVE  PInv'
<1> DEFINE m == ring[1].msg
           n == SizeOf(m)
<1>1. /\ Len(ring) >= HeaderSize /\ Len(ring) >= n /\ Intact(n) /\ ConsumeBytes(n)
      /\ CheckSequence(stream[m].seq) /\ Dispatch(m)
      /\ accepted' = Append(accepted, m)
      /\ UNCHANGED <<network, checksum_errors>>
  BY DEF AcceptMessage
<1>2. TypeOK /\ Len(ring) \in Nat /\ ring \in Seq(Byte) /\ ring # <<>>
  <2>1. TypeOK /\ HeaderSize \in Nat \ {0}
    BY SizeAssumption DEF PInv
  <2>2. Len(ring) \in Nat /\ ring \in Seq(Byte)
    BY <2>1, ByteFacts
  <2>3. Len(ring) # 0
    BY <1>1, <2>1, <2>2
  <2>4. QED
    BY <2>1, <2>2, <2>3, EmptySeq
<1>3. /\ m \in Indices /\ n \in Nat /\ n \in 0 .. Len(ring)
      /\ m \notin damaged /\ m < next.msg
      /\ \A i \in 1 .. n : ring[i].msg = m
      /\ \A i \in n + 1 .. Len(ring) : m < ring[i].msg
      /\ \A a \in RangeOf(accepted) : a < m
      /\ batch_recv_time.msg > m \/ batch_recv_time = [msg |-> m, off |-> n - 1]
  BY <1>1, <1>2, FrontMessage
<1> HIDE DEF m, n
<1>4. /\ ring' \in Seq(Byte) /\ Len(ring') = Len(ring) - n
      /\ Len(ring') <= RingCapacity
      /\ \A i \in 1 .. Len(ring') : n + i \in 1 .. Len(ring) /\ ring'[i] = ring[n + i]
      /\ \A i \in n + 1 .. Len(ring) : i - n \in 1 .. Len(ring') /\ ring'[i - n] = ring[i]
      /\ ReceivedInv' /\ RingOrdered' /\ LostInv'
  BY <1>1, <1>3, Consumed
<1>5. /\ UNCHANGED <<stream, next, feeding, batch_recv_time, reconnects, damaged>>
      /\ Indices' = Indices /\ \A k : SizeOf(k)' = SizeOf(k)
  BY <1>1 DEF network, Indices, SizeOf
<1>6. SequenceTypes' /\ GapInv'
  BY <1>1, <1>3, <1>5, CheckSequenceStep
<1>7. /\ accepted \in Seq(Indices) /\ delivered \in Seq(Indices) /\ recv_times \in Seq(Byte)
      /\ Len(recv_times) = Len(delivered) /\ Indices \in SUBSET Nat /\ batch_recv_time \in Byte
      /\ Len(delivered) \in Nat
  BY <1>2 DEF TypeOK, Indices
<1>8. accepted' \in Seq(Indices) /\ RangeOf(accepted') = RangeOf(accepted) \union {m}
  BY <1>1, <1>3, <1>7, AppendFacts
<1>9. \/ delivered' = delivered /\ recv_times' = recv_times
      \/ /\ delivered' = Append(delivered, m)
         /\ recv_times' = Append(recv_times, batch_recv_time)
  BY <1>1 DEF Dispatch
<1>10. TypeOK'
  <2>1. msgs_parsed' \in Nat
    BY <1>1, <1>2 DEF Dispatch, TypeOK
  <2>2. /\ recv_times' \in Seq(Byte) /\ Len(recv_times') = Len(delivered')
        /\ delivered' \in Seq(Indices)
    <3>1. CASE delivered' = delivered /\ recv_times' = recv_times
      BY <1>7, <3>1
    <3>2. CASE /\ delivered' = Append(delivered, m)
               /\ recv_times' = Append(recv_times, batch_recv_time)
      BY <1>3, <1>7, <3>2, AppendFacts
    <3>3. QED
      BY <1>9, <3>1, <3>2
  <2>3. QED
    BY <1>1, <1>2, <1>4, <1>5, <1>6, <1>8, <2>1, <2>2 DEF TypeOK
<1>11. KeptInv'
  <2>1. ASSUME NEW k \in Indices, k # m, NEW o, Has(ring, k, o) PROVE Has(ring', k, o)
    <3>1. PICK i \in 1 .. Len(ring) : ring[i].msg = k /\ ring[i].off = o
      BY <2>1 DEF Has
    <3>2. i \notin 1 .. n
      BY <1>3, <2>1, <3>1
    <3>3. i \in n + 1 .. Len(ring)
      BY <1>2, <1>3, <3>2
    <3>4. i - n \in 1 .. Len(ring') /\ ring'[i - n] = ring[i]
      BY <1>4, <3>3
    <3>5. QED
      BY <3>1, <3>4 DEF Has
  <2>2. ASSUME NEW k \in Indices \ damaged, k \notin RangeOf(accepted'),
               NEW o \in 0 .. SizeOf(k) - 1, Before(Pair(k, o), next)
        PROVE  Has(ring', k, o)
    <3>1. k # m /\ k \notin RangeOf(accepted)
      BY <1>8, <2>2
    <3>2. Has(ring, k, o)
      BY <2>2, <3>1 DEF PInv, KeptInv
    <3>3. QED
      BY <2>1, <3>1, <3>2
  <2>3. QED
    BY <1>5, <2>2 DEF KeptInv, RangeOf, Before, Pair
<1>12. AcceptedInv'
  <2>1. Ascending(accepted')
    BY <1>1, <1>3, <1>7, AscendingAppend DEF PInv, AcceptedInv
  <2>2. ASSUME NEW i \in 1 .. Len(ring')
        PROVE  m < ring'[i].msg /\ \A a \in RangeOf(accepted) : a < ring'[i].msg
    <3>1. n + i \in 1 .. Len(ring) /\ n + i \in n + 1 .. Len(ring) /\ ring'[i] = ring[n + i]
      BY <1>2, <1>3, <1>4
    <3>2. QED
      BY <1>3, <3>1 DEF PInv, AcceptedInv
  <2>3. ASSUME NEW a \in RangeOf(accepted) \union {m}
        PROVE  a < next.msg /\ a \notin damaged
    BY <1>3 DEF PInv, AcceptedInv
  <2>4. QED
    BY <1>5, <1>8, <2>1, <2>2, <2>3 DEF AcceptedInv, Ascending, RangeOf
<1>13. DeliveredInv'
  <2>1. RangeOf(delivered) \subseteq RangeOf(accepted) /\ Ascending(delivered)
    BY DEF PInv, DeliveredInv
  <2>2. \A i \in 1 .. Len(delivered) :
          \/ recv_times[i].msg > delivered[i]
          \/ recv_times[i] = [msg |-> delivered[i], off |-> SizeOf(delivered[i]) - 1]
    BY DEF PInv, DeliveredInv, RecvTimeNotStale
  <2>3. CASE delivered' = delivered /\ recv_times' = recv_times
    BY <1>5, <1>8, <2>1, <2>2, <2>3 DEF DeliveredInv, Ascending, RangeOf, RecvTimeNotStale
  <2>4. CASE /\ delivered' = Append(delivered, m)
             /\ recv_times' = Append(recv_times, batch_recv_time)
    <3>1. Ascending(delivered')
      BY <1>3, <1>7, <2>1, <2>4, AscendingAppend
    <3>2. RangeOf(delivered') \subseteq RangeOf(accepted')
      BY <1>3, <1>7, <1>8, <2>1, <2>4, AppendFacts
    <3>3. /\ Len(delivered') = Len(delivered) + 1 /\ delivered'[Len(delivered) + 1] = m
          /\ recv_times'[Len(delivered) + 1] = batch_recv_time
          /\ \A i \in 1 .. Len(delivered) : /\ delivered'[i] = delivered[i]
                                            /\ recv_times'[i] = recv_times[i]
      BY <1>3, <1>7, <2>4, AppendFacts
    <3>4. ASSUME NEW i \in 1 .. Len(delivered')
          PROVE  \/ recv_times'[i].msg > delivered'[i]
                 \/ recv_times'[i] = [msg |-> delivered'[i], off |-> SizeOf(delivered'[i]) - 1]
      <4>1. CASE i \in 1 .. Len(delivered)
        BY <2>2, <3>3, <4>1
      <4>2. CASE i = Len(delivered) + 1
        BY <1>3, <3>3, <4>2 DEF n
      <4>3. QED
        BY <1>7, <3>3, <4>1, <4>2
    <3>5. RecvTimeNotStale'
      BY <1>5, <3>4 DEF RecvTimeNotStale, SizeOf
    <3>6. QED
      BY <3>1, <3>2, <3>5 DEF DeliveredInv, Ascending, RangeOf
  <2>5. QED
    BY <1>9, <2>3, <2>4
<1>14. QED
  BY <1>4, <1>6, <1>10, <1>11, <1>12, <1>13 DEF PInv

LEMMA ParserStep == PInv /\ [Next]_vars => PInv'
<1> SUFFICES ASSUME PInv, [Next]_vars PROVE PInv'
  OBVIOUS
<1>1. CASE UNCHANGED vars
  <2>1. /\ UNCHANGED <<stream, next, feeding, batch_recv_time, reconnects, damaged, ring>>
        /\ UNCHANGED parsing
    BY <1>1 DEF vars, network
  <2>2. TypeOK'
    BY <2>1 DEF PInv, TypeOK, parsing, sequencing, SequenceTypes, Indices
  <2>3. ReceivedInv'
    BY <2>1 DEF PInv, ReceivedInv, Indices, SizeOf
  <2>4. RingOrdered'
    BY <2>1 DEF PInv, RingOrdered, InStream, Indices, SizeOf, Before
  <2>5. LostInv'
    BY <2>1 DEF PInv, LostInv, SizeOf, Before, Has
  <2>6. KeptInv'
    BY <2>1 DEF PInv, KeptInv, Indices, SizeOf, Before, Has, parsing, RangeOf
  <2>7. AcceptedInv'
    BY <2>1 DEF PInv, AcceptedInv, parsing, Ascending, RangeOf
  <2>8. QED
    BY <2>1, <2>2, <2>3, <2>4, <2>5, <2>6, <2>7, ParsingSame DEF PInv
<1>2. QED
  BY <1>1, FeedTimeStep, FeedWriteStep, ReconnectStep, SkipStep, AcceptStep
  DEF Next, Feed, Process

LEMMA ParserInvariant == Spec => []PInv
BY ParserInit, ParserStep, PTL DEF Spec

-----------------------------------------------------------------------------
(***************************************************************************)
(* The theorems.                                                           *)
(***************************************************************************)

\* Every variable of the parser keeps its type; in particular the ring never
\* exceeds its capacity and only messages of the stream are dispatched.
THEOREM TypeCorrect == Spec => []TypeOK
<1>1. PInv => TypeOK
  BY DEF PInv
<1>2. QED
  BY <1>1, ParserInvariant, PTL

\* Skipping byte by byte over damage never steps into a message that came
\* whole: it is accepted, or all its bytes are still in the ring.
THEOREM ResyncLosesNothing == Spec => []NoIntactSkipped
<1>1. ASSUME PInv, NEW m \in 1 .. next.msg - 1, m \notin damaged, m \notin RangeOf(accepted),
             NEW o \in 0 .. SizeOf(m) - 1
      PROVE  [msg |-> m, off |-> o] \in RangeOf(ring)
  <2>1. TypeOK /\ m \in Indices /\ m \in Nat /\ m < next.msg
    BY <1>1, ByteFacts DEF PInv, TypeOK, Indices
  <2>2. Has(ring, m, o)
    BY <1>1, <2>1 DEF PInv, KeptInv, Before, Pair
  <2>3. PICK i \in 1 .. Len(ring) : ring[i].msg = m /\ ring[i].off = o
    BY <2>2 DEF Has
  <2>4. ring[i] = [msg |-> m, off |-> o]
    <3>1. ring[i] \in Byte
      BY <2>1, ByteFacts
    <3>2. QED
      BY <2>3, <3>1 DEF Byte
  <2>5. QED
    BY <2>4 DEF RangeOf
<1>2. PInv => NoIntactSkipped
  BY <1>1 DEF NoIntactSkipped
<1>3. QED
  BY <1>2, ParserInvariant, PTL

\* Messages are accepted whole, in the order they were sent and at most once,
\* and the callback sees a subsequence of them.
THEOREM MessagesAcceptedOnce == Spec => []AcceptedOnce
<1>1. PInv => AcceptedOnce
  BY DEF PInv, AcceptedInv, DeliveredInv, AcceptedOnce
<1>2. QED
  BY <1>1, ParserInvariant, PTL

\* The unlocked time field never makes a latency too long.
THEOREM TimesNotStale == Spec => []RecvTimeNotStale
<1>1. PInv => RecvTimeNotStale
  BY DEF PInv, DeliveredInv
<1>2. QED
  BY <1>1, ParserInvariant, PTL

\* While the server's numbers ascend, total_gap_size_ is exactly the number of
\* sequence numbers missing between the first and the last accepted message.
THEOREM GapsCounted == Spec => []GapAccounting
<1>1. PInv => GapAccounting
  BY DEF PInv, GapInv
<1>2. QED
  BY <1>1, ParserInvariant, PTL
=============================================================================
