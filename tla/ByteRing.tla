------------------------------ MODULE ByteRing ------------------------------
(***************************************************************************)
(* ByteRingBuffer (include/common/ring_buffer.h), the buffer between the   *)
(* network thread, which calls write through Parser::feed, and the parse   *)
(* thread, which calls peek and consume from Parser::process.              *)
(*                                                                         *)
(* A step is one access to memory the other thread uses: the load of the   *)
(* other side's position, each byte of a memcpy (in any order), and the    *)
(* fetch_add that publishes or releases bytes.  Positions are size_t and   *)
(* wrap at PosMod, a multiple of Capacity as 2^64 is; `& MASK' is the      *)
(* remainder by Capacity.  A byte is its position in the stream offered to *)
(* write, as in ByteFifo.                                                  *)
(***************************************************************************)
EXTENDS Integers, Sequences

CONSTANTS
    Capacity,  \* size of buf_
    PosMod,    \* number of values of a position, 2^64 in the code
    MaxLen,    \* largest len passed to write and peek
    MaxBytes   \* bound: bytes offered to write

ASSUME CapacityAssumption == Capacity \in Nat \ {0}
ASSUME PosModAssumption   == \E k \in 2 .. PosMod : PosMod = k * Capacity
ASSUME BoundsAssumption   == MaxLen \in Nat \ {0} /\ MaxBytes \in Nat

VARIABLES
    buf,        \* buf_
    write_pos,  \* write_pos_
    read_pos,   \* read_pos_
    fed,        \* bytes offered to write so far
    wpc,        \* producer: "idle" or "copy"
    wp,         \* producer: the position its memcpy starts from
    wbase,      \* producer: fed before the call, so byte i of src is wbase + i
    wlen,       \* producer: bytes being written
    wtodo,      \* producer: indices of src still to be copied
    rpc,        \* consumer: "idle" or "peek"
    rp,         \* consumer: the position its memcpy starts from
    plen,       \* consumer: bytes being peeked
    rtodo,      \* consumer: indices of dst still to be filled
    dst,        \* consumer: the destination of peek
    taken,      \* ghost: last byte consumed
    resetting   \* the main thread is between the two stores of reset

wvars == <<wpc, wp, wbase, wlen, wtodo>>
rvars == <<rpc, rp, plen, rtodo, dst>>
vars  == <<buf, write_pos, read_pos, fed, wvars, rvars, taken, resetting>>

Positions == 0 .. PosMod - 1

TypeOK ==
    /\ buf \in [0 .. Capacity - 1 -> 0 .. MaxBytes]
    /\ write_pos \in Positions /\ read_pos \in Positions
    /\ fed \in 0 .. MaxBytes /\ taken \in 0 .. MaxBytes
    /\ wpc \in {"idle", "copy"} /\ rpc \in {"idle", "peek"}
    /\ wp \in Positions /\ rp \in Positions
    /\ wbase \in 0 .. MaxBytes
    /\ wlen \in 0 .. MaxLen /\ wtodo \subseteq 1 .. wlen
    /\ plen \in 0 .. MaxLen /\ rtodo \subseteq 1 .. plen
    /\ dst \in [1 .. plen -> 0 .. MaxBytes]
    /\ resetting \in BOOLEAN

\* The array is not initialised; 0 stands for a byte nobody wrote.
Init ==
    /\ buf = [i \in 0 .. Capacity - 1 |-> 0]
    /\ write_pos = 0 /\ read_pos = 0
    /\ fed = 0 /\ taken = 0
    /\ wpc = "idle" /\ wp = 0 /\ wbase = 0 /\ wlen = 0 /\ wtodo = {}
    /\ rpc = "idle" /\ rp = 0 /\ plen = 0 /\ rtodo = {} /\ dst = <<>>
    /\ resetting = FALSE

Least(m, n) == IF m < n THEN m ELSE n

\* Mutant: the difference is taken in a wider, signed type.
ReadableSigned == write_pos - read_pos

\* readable(): unsigned subtraction of the two positions.
Readable == (write_pos - read_pos) % PosMod

\* Mutant: one byte too many is thought to be free.
WritableOffByOne == (Capacity + 1 - Readable) % PosMod

\* writable()
Writable == (Capacity - Readable) % PosMod

\* The array index of the i-th byte from position p.
Index(p, i) == (p + i - 1) % Capacity

-----------------------------------------------------------------------------
(***************************************************************************)
(* The producer: write(src, len).                                          *)
(***************************************************************************)

\* Load of both positions; len is cut to what fits, a write of 0 returns.
WriteLoad ==
    /\ wpc = "idle"
    /\ \E n \in 1 .. MaxLen :
         /\ fed + n <= MaxBytes
         /\ fed' = fed + n
         /\ wlen' = Least(n, Writable)
    /\ wpc' = IF wlen' = 0 THEN "idle" ELSE "copy"
    /\ wp' = write_pos
    /\ wbase' = fed
    /\ wtodo' = 1 .. wlen'
    /\ UNCHANGED <<buf, write_pos, read_pos, rvars, taken, resetting>>

\* One byte of the one or two memcpy calls.
WriteByte ==
    /\ wpc = "copy"
    /\ \E i \in wtodo :
         /\ buf' = [buf EXCEPT ![Index(wp, i)] = wbase + i]
         /\ wtodo' = wtodo \ {i}
    /\ UNCHANGED <<write_pos, read_pos, fed, wpc, wp, wbase, wlen, rvars, taken, resetting>>

\* Mutant: the new position is published before the bytes are all there.
WritePublishEarly ==
    /\ wpc = "copy"
    /\ write_pos' = (write_pos + wlen) % PosMod
    /\ wpc' = "idle"
    /\ wlen' = 0 /\ wtodo' = {}
    /\ UNCHANGED <<buf, read_pos, fed, wp, wbase, rvars, taken, resetting>>

\* write_pos_.fetch_add(len, release)
WritePublish ==
    /\ wpc = "copy"
    /\ wtodo = {}
    /\ write_pos' = (write_pos + wlen) % PosMod
    /\ wpc' = "idle"
    /\ wlen' = 0
    /\ UNCHANGED <<buf, read_pos, fed, wp, wbase, wtodo, rvars, taken, resetting>>

-----------------------------------------------------------------------------
(***************************************************************************)
(* The consumer: peek(dst, len), repeated at will, then consume(n) of bytes *)
(* it has peeked; read is the two together.                                *)
(***************************************************************************)

\* Load of both positions; a peek of an empty buffer returns 0.
PeekLoad ==
    /\ rtodo = {}
    /\ \E n \in 1 .. MaxLen : plen' = Least(n, Readable)
    /\ rpc' = IF plen' = 0 THEN "idle" ELSE "peek"
    /\ rp' = read_pos
    /\ rtodo' = 1 .. plen'
    /\ dst' = [i \in 1 .. plen' |-> 0]
    /\ UNCHANGED <<buf, write_pos, read_pos, fed, wvars, taken, resetting>>

\* One byte of the one or two memcpy calls.
PeekByte ==
    /\ rpc = "peek"
    /\ \E i \in rtodo :
         /\ dst' = [dst EXCEPT ![i] = buf[Index(rp, i)]]
         /\ rtodo' = rtodo \ {i}
    /\ UNCHANGED <<buf, write_pos, read_pos, fed, wvars, rpc, rp, plen, taken, resetting>>

\* read_pos_.fetch_add(n, release)
Consume ==
    /\ rpc = "peek"
    /\ rtodo = {}
    /\ \E n \in 1 .. plen :
         /\ read_pos' = (read_pos + n) % PosMod
         /\ taken' = dst[n]
    /\ rpc' = "idle"
    /\ plen' = 0
    /\ dst' = <<>>
    /\ UNCHANGED <<buf, write_pos, fed, wvars, rp, rtodo, resetting>>

-----------------------------------------------------------------------------
(***************************************************************************)
(* reset(), called by the main thread through Parser::reset_stats when the *)
(* user presses `r', while the other two threads keep running.             *)
(***************************************************************************)
ResetReadPos ==
    /\ ~resetting
    /\ read_pos' = 0
    /\ resetting' = TRUE
    /\ UNCHANGED <<buf, write_pos, fed, wvars, rvars, taken>>

ResetWritePos ==
    /\ resetting
    /\ write_pos' = 0
    /\ resetting' = FALSE
    /\ UNCHANGED <<buf, read_pos, fed, wvars, rvars, taken>>

-----------------------------------------------------------------------------
Producer == WriteLoad \/ WriteByte \/ WritePublish
Consumer == PeekLoad \/ PeekByte \/ Consume

Next == Producer \/ Consumer

Spec == Init /\ [][Next]_vars

\* The program as it runs when the user may press `r'.
SpecWithReset == Init /\ [][Next \/ ResetReadPos \/ ResetWritePos]_vars

-----------------------------------------------------------------------------
(***************************************************************************)
(* Properties.                                                             *)
(***************************************************************************)

\* The bytes between the two positions.
InRing == [i \in 1 .. Readable |-> buf[Index(read_pos, i)]]

\* The bytes of the write in progress: those copied are in the array.
InFlight == [i \in 1 .. wlen |-> IF i \in wtodo THEN wbase + i ELSE buf[Index(wp, i)]]

\* The bytes of the peek in progress: those not copied are in the array.
Held == [i \in 1 .. plen |-> IF i \in rtodo THEN buf[Index(rp, i)] ELSE dst[i]]

Fifo == INSTANCE ByteFifo
          WITH pending <- InFlight, queue <- InRing, out <- Held

\* With one writer and one reader the ring is a bounded byte stream: no byte
\* is lost, duplicated, reordered or overwritten while it is being copied, at
\* the array's end, at the wrap-around of the positions, full or empty.
IsByteFifo == Fifo!Spec

\* What the threads rely on.  The producer works in the free part of the
\* array, from a write_pos only it moves, and has stored what it has copied.
ProducerInv ==
    /\ Readable + wlen <= Capacity
    /\ wpc = "idle" => wlen = 0
    /\ wpc = "copy" => wlen > 0 /\ wp = write_pos /\ wbase + wlen <= fed
    /\ \A i \in (1 .. wlen) \ wtodo : buf[Index(wp, i)] = wbase + i

\* The consumer works in the readable part, from a read_pos only it moves,
\* and nothing it has copied has been overwritten since.
ConsumerInv ==
    /\ plen <= Readable
    /\ rpc = "idle" => plen = 0
    /\ rpc = "peek" => plen > 0 /\ rp = read_pos
    /\ \A i \in (1 .. plen) \ rtodo : dst[i] = buf[Index(rp, i)]

\* The readable bytes are in stream order, later than the last one consumed
\* and earlier than any of a write in progress.
OrderInv ==
    LET offered == IF wpc = "copy" THEN wbase ELSE fed
    IN  /\ taken <= offered
        /\ \A i \in 1 .. Readable :
             /\ taken < InRing[i] /\ InRing[i] <= offered
             /\ \A j \in 1 .. Readable : i < j => InRing[i] < InRing[j]

\* Neither thread ever touches a byte the other one may be using: the
\* producer's part, the readable part and what has been peeked stay apart and
\* hold what they should, with no lock.
RingInv == ProducerInv /\ ConsumerInv /\ OrderInv

\* The bytes the consumer has copied are new to it and in stream order, so no
\* byte of the feed reaches the parser twice.
NoByteTwice ==
    \A i \in (1 .. plen) \ rtodo :
        /\ dst[i] > taken
        /\ \A j \in (1 .. plen) \ rtodo : i < j => dst[i] < dst[j]
=============================================================================
