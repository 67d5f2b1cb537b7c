-------------------------- MODULE SequenceNumbers --------------------------
(***************************************************************************)
(* Sequence arithmetic of a RemotePeer (quicknet_remotepeer.cpp): 16-bit   *)
(* sequence numbers that wrap, the round counter that tells two uses of a  *)
(* number apart, the table of received sequences behind the duplicate      *)
(* check, and the acknowledgement bits.  Operators only; the state they    *)
(* work on is a record with the three receive-side fields of RemotePeer:   *)
(* m_sequenceIn, m_sequenceRound, m_seqtrackReceived.                      *)
(*                                                                         *)
(* In the program Half = 32768, AckBits = 32 and Rounds = 2^32.            *)
(***************************************************************************)
EXTENDS Integers

CONSTANTS
    Half,     \* half the range of sequence numbers
    AckBits,  \* width of the acknowledgement bitfield
    Rounds    \* range of the round counter

\* The range of sequence numbers; it is even because the code compares against
\* exactly half of it.
Modulus == 2 * Half

ASSUME SequenceAssumption ==
    /\ Half \in Nat /\ Half > 1
    /\ AckBits \in Nat /\ AckBits < Modulus
    /\ Rounds \in Nat /\ Rounds > 1

Sequences16 == 0 .. Modulus - 1

\* Mutant: sequences are kept in a wider integer.
WrapNone(n) == n

\* Wrap-around of uint16_t and of uint32_t arithmetic.
Wrap(n) == n % Modulus
WrapRound(r) == r % Rounds

\* Mutant: the comparison forgets that sequences wrap.
IsSequenceNewerNoWrap(incoming, current) == incoming > current

\* RemotePeer::IsSequenceNewer.
IsSequenceNewer(incoming, current) ==
    LET diff == IF incoming > current THEN incoming - current
                                      ELSE current - incoming
    IN  /\ incoming # current
        /\ IF diff < Half THEN incoming > current ELSE incoming < current

\* The receive-side fields of a RemotePeer, and of a freshly constructed one.
Receiver(sequenceIn, round, received) ==
    [m_sequenceIn       |-> sequenceIn,
     m_sequenceRound    |-> round,
     m_seqtrackReceived |-> received]

NewReceiver == Receiver(0, 0, <<>>)

\* The message number that a round and a sequence spell, and the one of the
\* newest sequence.
NumberOf(round, sequence) == round * Modulus + sequence
Newest(rx) == NumberOf(rx.m_sequenceRound, rx.m_sequenceIn)

\* Mutant: the round is never advanced.
SetSequenceInNoRound(rx, value) == Receiver(value, rx.m_sequenceRound, rx.m_seqtrackReceived)

\* RemotePeer::SetSequenceIn: going to a smaller number starts a new round.
SetSequenceIn(rx, value) ==
    Receiver(value,
             IF value < rx.m_sequenceIn THEN WrapRound(rx.m_sequenceRound + 1)
                                        ELSE rx.m_sequenceRound,
             rx.m_seqtrackReceived)

\* Mutants: an old sequence is looked up in the current round; the test for the
\* earlier round is reversed.
RoundOfCurrent(rx, sequence) == rx.m_sequenceRound

RoundOfReversed(rx, sequence) ==
    IF sequence < rx.m_sequenceIn THEN WrapRound(rx.m_sequenceRound - 1)
                                  ELSE rx.m_sequenceRound

\* The round an old sequence belongs to: numbers above the newest one were
\* sent before the last wrap.
RoundOf(rx, sequence) ==
    IF sequence > rx.m_sequenceIn THEN WrapRound(rx.m_sequenceRound - 1)
                                  ELSE rx.m_sequenceRound

\* RemotePeer::SaveReceivedSequence.
SaveReceivedSequence(rx, sequence, newer) ==
    LET entry == IF newer THEN rx.m_sequenceRound ELSE RoundOf(rx, sequence)
        received == rx.m_seqtrackReceived
    IN  Receiver(rx.m_sequenceIn, rx.m_sequenceRound,
                 [s \in DOMAIN received \cup {sequence} |->
                     IF s = sequence THEN entry ELSE received[s]])

\* RemotePeer::MessageDuplicated.
MessageDuplicated(rx, sequence) ==
    /\ sequence \in DOMAIN rx.m_seqtrackReceived
    /\ rx.m_seqtrackReceived[sequence] = RoundOf(rx, sequence)

\* Mutants: the bits ignore the round a sequence was received in, or do not go
\* back to the earlier round.
GetAckBitsAnyRound(rx) ==
    {i \in 0 .. AckBits - 1 : Wrap(rx.m_sequenceIn - 1 - i) \in DOMAIN rx.m_seqtrackReceived}

GetAckBitsThisRound(rx) ==
    {i \in GetAckBitsAnyRound(rx) :
        rx.m_seqtrackReceived[Wrap(rx.m_sequenceIn - 1 - i)] = rx.m_sequenceRound}

\* RemotePeer::GetAckBits, as the set of positions whose bit is set.  Bit i
\* stands for the (i+1)-th sequence before the newest one.
GetAckBits(rx) ==
    LET first == Wrap(rx.m_sequenceIn - 1)
        current(i) == Wrap(first - i)
        round(i) == IF current(i) > first THEN WrapRound(rx.m_sequenceRound - 1)
                                          ELSE rx.m_sequenceRound
    IN  {i \in 0 .. AckBits - 1 :
            /\ current(i) \in DOMAIN rx.m_seqtrackReceived
            /\ rx.m_seqtrackReceived[current(i)] = round(i)}

\* Mutant: ordered messages get no check of their own.
PassesSequenceCheckUnordered(rx, sequence, orderedOnly) ==
    IsSequenceNewer(sequence, rx.m_sequenceIn) \/ ~MessageDuplicated(rx, sequence)

\* The sequence check Peer::parseBuffer makes before it processes a message
\* that is not flagged unsequenced: a newer sequence passes, an old one passes
\* unless it is a duplicate or only ordered.
PassesSequenceCheck(rx, sequence, orderedOnly) ==
    \/ IsSequenceNewer(sequence, rx.m_sequenceIn)
    \/ ~orderedOnly /\ ~MessageDuplicated(rx, sequence)

\* What that check leaves in the RemotePeer.
AfterSequenceCheck(rx, sequence, orderedOnly) ==
    IF IsSequenceNewer(sequence, rx.m_sequenceIn)
    THEN SaveReceivedSequence(SetSequenceIn(rx, sequence), sequence, TRUE)
    ELSE IF PassesSequenceCheck(rx, sequence, orderedOnly)
         THEN SaveReceivedSequence(rx, sequence, FALSE)
         ELSE rx
=============================================================================
