--------------------------- MODULE SequenceCheck ---------------------------
(***************************************************************************)
(* The sequence check of Parser::process (src/client/parser.cpp, phase 5), *)
(* with the state only it changes.  Parser uses it on messages recovered   *)
(* from bytes, Pipeline on the messages of the exchange.                   *)
(***************************************************************************)
EXTENDS Protocol

VARIABLES
    expected_seq,     \* expected_seq_
    seq_initialized,  \* seq_initialized_
    sequence_gaps,    \* sequence_gaps_
    total_gap_size    \* total_gap_size_

sequencing == <<expected_seq, seq_initialized, sequence_gaps, total_gap_size>>

SequenceTypes ==
    /\ expected_seq \in SeqNums /\ seq_initialized \in BOOLEAN
    /\ sequence_gaps \in Nat /\ total_gap_size \in Nat

SequenceInit ==
    /\ expected_seq = 0 /\ seq_initialized = FALSE
    /\ sequence_gaps = 0 /\ total_gap_size = 0

\* Mutant: the size of the gap counts the message that closes it.
CheckSequenceOffByOne(n) ==
    /\ IF seq_initialized /\ n > expected_seq
         THEN /\ sequence_gaps' = sequence_gaps + 1
              /\ total_gap_size' = total_gap_size + (n - expected_seq) + 1
         ELSE UNCHANGED <<sequence_gaps, total_gap_size>>
    /\ seq_initialized' = TRUE
    /\ expected_seq' = NextSeqNum(n)

\* Mutant: the expected number is not reduced to 32 bits.
CheckSequenceNoWrap(n) ==
    /\ IF seq_initialized /\ n > expected_seq
         THEN /\ sequence_gaps' = sequence_gaps + 1
              /\ total_gap_size' = total_gap_size + (n - expected_seq)
         ELSE UNCHANGED <<sequence_gaps, total_gap_size>>
    /\ seq_initialized' = TRUE
    /\ expected_seq' = n + 1

\* Gap detection.  An old sequence number is not counted, and moves
\* expected_seq back all the same.
CheckSequence(n) ==
    /\ IF seq_initialized /\ n > expected_seq
         THEN /\ sequence_gaps' = sequence_gaps + 1
              /\ total_gap_size' = total_gap_size + (n - expected_seq)
         ELSE UNCHANGED <<sequence_gaps, total_gap_size>>
    /\ seq_initialized' = TRUE
    /\ expected_seq' = NextSeqNum(n)
=============================================================================
