------------------------------- MODULE Parser -------------------------------
(***************************************************************************)
(* Parser (include/client/parser.h, src/client/parser.cpp) between the     *)
(* network thread, which calls feed with what recv returned, and the parse *)
(* thread, which calls process.                                            *)
(*                                                                         *)
(* The ring buffer is the byte queue ByteRing is shown to implement.       *)
(* process only removes bytes and feed only appends them, so an iteration  *)
(* of its loop sees the same bytes whether or not feed runs in the middle  *)
(* of it: an iteration is one step.  A recv may return any number of bytes *)
(* and write drops the bytes that do not fit one by one from the end, so   *)
(* feeding single bytes reaches every state that larger chunks do.         *)
(*                                                                         *)
(* A byte is [msg, off]: which message of the server's stream it belongs   *)
(* to, and its offset.  Bytes that are not the beginning of a message      *)
(* decode to an arbitrary header.  The checksum is ideal: it fails for     *)
(* every sequence of bytes but a whole message.  The time of a recv is     *)
(* identified by the byte it returned, so times are ordered as bytes are.  *)
(* LatencyTracker models what record does with a latency.                  *)
(***************************************************************************)
EXTENDS SequenceCheck, Sequences

CONSTANTS
    Streams,       \* message sequences [type, seq, sym] the server may send
    HeaderSize,    \* HEADER_SIZE
    Size,          \* Size[t], total size of a message of type t
    RingCapacity,  \* RECV_BUF_SIZE
    MaxSymbols,    \* MAX_SYMBOLS
    MaxReconnects  \* bound: connections lost

Messages == [type : Types, seq : SeqNums, sym : Nat]

ASSUME SizeAssumption ==
    /\ HeaderSize \in Nat \ {0}
    /\ Size \in [Types -> Nat]
    /\ \A t \in Types : HeaderSize < Size[t] /\ Size[t] <= RingCapacity
ASSUME StreamAssumption ==
    /\ MaxSymbols \in Nat
    /\ Streams \subseteq Seq(Messages)
ASSUME BoundAssumption == RingCapacity \in Nat /\ MaxReconnects \in Nat

VARIABLES
    stream,            \* what the server sends; never changes
    next,              \* the byte of the stream the next recv returns first
    feeding,           \* feed has stored the time and not yet written
    batch_recv_time,   \* batch_recv_time_ns_, a plain field both threads use
    reconnects,        \* connections lost so far
    ring,              \* bytes in the ring buffer
    checksum_errors, msgs_parsed,
    delivered,         \* messages handed to the callback, in order
    recv_times,        \* the recv_time_ns they were handed over with
    accepted,          \* ghost: messages whose checksum was verified, in order
    damaged            \* ghost: messages of which some byte never got into the ring

network == <<stream, next, feeding, batch_recv_time, reconnects, damaged>>
parsing == <<sequencing, checksum_errors, msgs_parsed, delivered, recv_times, accepted>>
vars    == <<network, ring, parsing>>

Byte == [msg : Nat, off : Nat]

Indices == 1 .. Len(stream)
SizeOf(m) == Size[stream[m].type]

TypeOK ==
    /\ stream \in Streams
    /\ next \in Byte /\ next.msg \in 1 .. Len(stream) + 1
    /\ feeding \in BOOLEAN /\ batch_recv_time \in Byte
    /\ reconnects \in 0 .. MaxReconnects
    /\ ring \in Seq(Byte) /\ Len(ring) <= RingCapacity
    /\ SequenceTypes
    /\ checksum_errors \in Nat /\ msgs_parsed \in Nat
    /\ recv_times \in Seq(Byte) /\ Len(recv_times) = Len(delivered)
    /\ delivered \in Seq(Indices) /\ accepted \in Seq(Indices)
    /\ damaged \subseteq Indices

Init ==
    /\ stream \in Streams
    /\ next = [msg |-> 1, off |-> 0]
    /\ feeding = FALSE /\ batch_recv_time = [msg |-> 0, off |-> 0]
    /\ reconnects = 0
    /\ ring = <<>>
    /\ SequenceInit
    /\ checksum_errors = 0 /\ msgs_parsed = 0
    /\ delivered = <<>> /\ recv_times = <<>> /\ accepted = <<>>
    /\ damaged = {}

-----------------------------------------------------------------------------
(***************************************************************************)
(* The network thread.                                                     *)
(***************************************************************************)

After(b) == IF b.off + 1 < SizeOf(b.msg)
              THEN [msg |-> b.msg, off |-> b.off + 1]
              ELSE [msg |-> b.msg + 1, off |-> 0]

\* Mutant: the time is kept from the recv that began the message.
FeedTimeOfFirst ==
    /\ ~feeding /\ next.msg \in Indices
    /\ batch_recv_time' = IF next.off = 0 THEN next ELSE batch_recv_time
    /\ feeding' = TRUE
    /\ UNCHANGED <<stream, next, reconnects, damaged, ring, parsing>>

\* feed stores the time of the recv, for whatever process dispatches next ...
FeedTime ==
    /\ ~feeding /\ next.msg \in Indices
    /\ batch_recv_time' = next
    /\ feeding' = TRUE
    /\ UNCHANGED <<stream, next, reconnects, damaged, ring, parsing>>

\* ... and writes; what does not fit into the ring buffer is dropped.
FeedWrite ==
    /\ feeding
    /\ feeding' = FALSE
    /\ next' = After(next)
    /\ IF Len(ring) < RingCapacity
         THEN ring' = Append(ring, next) /\ UNCHANGED damaged
         ELSE damaged' = damaged \union {next.msg} /\ UNCHANGED ring
    /\ UNCHANGED <<stream, batch_recv_time, reconnects, parsing>>

\* The connection is lost at any byte and a new one begins with a later
\* message; the parser is not told and keeps the bytes it has.
Reconnect ==
    /\ ~feeding
    /\ reconnects < MaxReconnects
    /\ \E m \in next.msg .. Len(stream) :
         /\ next.off > 0 => m > next.msg
         /\ next' = [msg |-> m, off |-> 0]
         /\ damaged' = damaged \union (next.msg .. m - 1)
    /\ reconnects' = reconnects + 1
    /\ UNCHANGED <<stream, feeding, batch_recv_time, ring, parsing>>

-----------------------------------------------------------------------------
(***************************************************************************)
(* The parse thread: one iteration of the loop of process.                 *)
(***************************************************************************)

\* The first n bytes in the ring are the first n bytes of one message.
Intact(n) == \A i \in 1 .. n : ring[i] = [msg |-> ring[1].msg, off |-> i - 1]

\* The types the header in the ring may show.
HeaderTypes == IF Intact(HeaderSize) THEN {stream[ring[1].msg].type} ELSE Types

ConsumeBytes(n) == ring' = SubSeq(ring, n + 1, Len(ring))

\* Unknown message type: skip one byte.
UnknownType ==
    /\ Len(ring) >= HeaderSize
    /\ ~Intact(HeaderSize)
    /\ ConsumeBytes(1)
    /\ UNCHANGED <<network, parsing>>

\* Mutant: after a bad checksum the whole message is thrown away.
ChecksumErrorSkipsMessage ==
    /\ Len(ring) >= HeaderSize
    /\ \E t \in HeaderTypes :
         /\ Len(ring) >= Size[t]
         /\ ~Intact(Size[t])
         /\ ConsumeBytes(Size[t])
    /\ checksum_errors' = checksum_errors + 1
    /\ UNCHANGED <<network, sequencing, msgs_parsed, delivered, recv_times, accepted>>

\* A known type, enough bytes, a checksum that does not match: skip one byte.
ChecksumError ==
    /\ Len(ring) >= HeaderSize
    /\ \E t \in HeaderTypes :
         /\ Len(ring) >= Size[t]
         /\ ~Intact(Size[t])
    /\ checksum_errors' = checksum_errors + 1
    /\ ConsumeBytes(1)
    /\ UNCHANGED <<network, sequencing, msgs_parsed, delivered, recv_times, accepted>>

\* A heartbeat is counted, a message for an unknown symbol is discarded, any
\* other is counted and handed to the callback, with the time of whichever recv
\* came last.
Dispatch(m) ==
    LET heartbeat == stream[m].type = "heartbeat"
        known     == stream[m].sym < MaxSymbols
    IN  /\ msgs_parsed' = IF heartbeat \/ known THEN msgs_parsed + 1 ELSE msgs_parsed
        /\ IF ~heartbeat /\ known
             THEN /\ delivered' = Append(delivered, m)
                  /\ recv_times' = Append(recv_times, batch_recv_time)
             ELSE UNCHANGED <<delivered, recv_times>>

\* Mutant: an accepted message takes the next byte with it.
AcceptMessageTakesMore ==
    /\ Len(ring) >= HeaderSize
    /\ Intact(HeaderSize)
    /\ LET m == ring[1].msg
       IN  /\ Len(ring) >= SizeOf(m)
           /\ Intact(SizeOf(m))
           /\ ConsumeBytes(SizeOf(m) + 1)
           /\ CheckSequence(stream[m].seq)
           /\ Dispatch(m)
           /\ accepted' = Append(accepted, m)
    /\ UNCHANGED <<network, checksum_errors>>

\* Mutant: the checksum is not verified.
AcceptMessageUnverified ==
    /\ Len(ring) >= HeaderSize
    /\ Intact(HeaderSize)
    /\ LET m == ring[1].msg
       IN  /\ Len(ring) >= SizeOf(m)
           /\ ConsumeBytes(SizeOf(m))
           /\ CheckSequence(stream[m].seq)
           /\ Dispatch(m)
           /\ accepted' = Append(accepted, m)
    /\ UNCHANGED <<network, checksum_errors>>

\* A whole message: consume it, check its sequence number, dispatch it.
AcceptMessage ==
    /\ Len(ring) >= HeaderSize
    /\ Intact(HeaderSize)
    /\ LET m == ring[1].msg
       IN  /\ Len(ring) >= SizeOf(m)
           /\ Intact(SizeOf(m))
           /\ ConsumeBytes(SizeOf(m))
           /\ CheckSequence(stream[m].seq)
           /\ Dispatch(m)
           /\ accepted' = Append(accepted, m)
    /\ UNCHANGED <<network, checksum_errors>>

-----------------------------------------------------------------------------
Process == UnknownType \/ ChecksumError \/ AcceptMessage

Feed == FeedTime \/ FeedWrite

Next == Feed \/ Reconnect \/ Process

Spec == Init /\ [][Next]_vars

\* Both threads keep running.  Nothing is assumed of a damaged header: it may
\* claim more bytes than there are and make process wait.
FairSpec == Spec /\ WF_vars(Feed) /\ WF_vars(AcceptMessage)

-----------------------------------------------------------------------------
(***************************************************************************)
(* Properties.                                                             *)
(***************************************************************************)

RangeOf(s) == {s[i] : i \in 1 .. Len(s)}
Ascending(s) == \A i, j \in 1 .. Len(s) : i < j => s[i] < s[j]

\* Resynchronising after lost bytes never skips a message that arrived whole:
\* it is accepted, or all its bytes are still in the ring.
NoIntactSkipped ==
    \A m \in 1 .. next.msg - 1 :
        m \notin damaged =>
            \/ m \in RangeOf(accepted)
            \/ \A o \in 0 .. SizeOf(m) - 1 : [msg |-> m, off |-> o] \in RangeOf(ring)

\* The parser accepts only messages that arrived whole, in the order they were
\* sent and each at most once, and the callback sees a subsequence of them.
AcceptedOnce ==
    /\ Ascending(accepted) /\ Ascending(delivered)
    /\ RangeOf(accepted) \intersect damaged = {}
    /\ RangeOf(delivered) \subseteq RangeOf(accepted)

\* The latency recorded for a message is never overstated: although the field is
\* overwritten while earlier messages wait in the ring, the time a message is
\* dispatched with is that of the recv that completed it, or of a later one.
RecvTimeNotStale ==
    \A i \in 1 .. Len(delivered) :
        \/ recv_times[i].msg > delivered[i]
        \/ recv_times[i] = [msg |-> delivered[i], off |-> SizeOf(delivered[i]) - 1]

\* The server's numbers ascend: no restart, no wrap-around.
SeqAscending == \A i, j \in Indices : i < j => stream[i].seq < stream[j].seq

\* While the server's numbers ascend, the gap statistics account for every
\* number that was skipped or lost between the first and the last message.
GapAccounting ==
    SeqAscending /\ accepted # <<>> =>
        LET first == stream[accepted[1]].seq
            last  == stream[accepted[Len(accepted)]].seq
        IN  /\ expected_seq = NextSeqNum(last)
            /\ total_gap_size + Len(accepted) = last - first + 1
            /\ sequence_gaps <= total_gap_size

\* When no byte is lost every message is accepted in the end.
LosslessDelivery ==
    <>(damaged # {} \/ reconnects > 0 \/ Len(accepted) = Len(stream))
=============================================================================
