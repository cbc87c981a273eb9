------------------------------ MODULE ByteFifo ------------------------------
(***************************************************************************)
(* What a byte ring buffer promises its one producer and its one consumer: *)
(* a bounded first-in first-out byte stream.  The bytes handed to write    *)
(* are numbered 1, 2, 3, ... in the order of the calls, so a byte is its   *)
(* position in the stream the producer offers.                             *)
(***************************************************************************)
EXTENDS Naturals, Sequences

CONSTANTS Capacity, MaxLen

VARIABLES
    fed,      \* number of bytes the producer has offered
    pending,  \* bytes a write in progress has accepted
    queue,    \* bytes the consumer may read
    out       \* bytes the consumer holds from its last peek

fifoVars == <<fed, pending, queue, out>>

Least(m, n) == IF m < n THEN m ELSE n

Init == fed = 0 /\ pending = <<>> /\ queue = <<>> /\ out = <<>>

\* A write of n bytes takes as many as fit and drops the rest of the call.
Accept ==
    /\ pending = <<>>
    /\ \E n \in 1 .. MaxLen :
         /\ fed' = fed + n
         /\ pending' = [i \in 1 .. Least(n, Capacity - Len(queue)) |-> fed + i]
    /\ UNCHANGED <<queue, out>>

\* All bytes of a write become readable at once.
Publish ==
    /\ pending # <<>>
    /\ queue' = queue \o pending
    /\ pending' = <<>>
    /\ UNCHANGED <<fed, out>>

\* A peek returns the oldest bytes, as many as asked for and there are.
Peek ==
    /\ \E n \in 1 .. MaxLen : out' = SubSeq(queue, 1, Least(n, Len(queue)))
    /\ UNCHANGED <<fed, pending, queue>>

\* The consumer drops bytes it has peeked.
Consume ==
    /\ \E n \in 1 .. Len(out) : queue' = SubSeq(queue, n + 1, Len(queue))
    /\ out' = <<>>
    /\ UNCHANGED <<fed, pending>>

Next == Accept \/ Publish \/ Peek \/ Consume

Spec == Init /\ [][Next]_fifoVars
=============================================================================
