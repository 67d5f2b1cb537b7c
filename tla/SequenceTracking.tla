-------------------------- MODULE SequenceTracking --------------------------
(***************************************************************************)
(* The receive side of one RemotePeer: the loop of Peer::parseBuffer       *)
(* (quicknet_peer.cpp:565-617) against the sequence tracking of            *)
(* quicknet_remotepeer.cpp, one step per message found in a packet.        *)
(*                                                                         *)
(* The sender numbers its messages 1, 2, 3, ... and sends each number      *)
(* modulo 2^16; number 0 is the ConnectionRequest, which Peer::sendMessage *)
(* sends outside the numbering with sequence 0 in its header and which the *)
(* network may deliver again once the peer is known.  Messages may be      *)
(* lost, duplicated and reordered without limit, except that an arriving   *)
(* message is less than Half away from the newest one: the code does not   *)
(* claim more (comment at quicknet_remotepeer.cpp:199).  The unwrapped     *)
(* numbers are history: no guard of the receiver reads them.               *)
(***************************************************************************)
EXTENDS SequenceNumbers

CONSTANT MaxNumber   \* bound: the last message number of a connection

\* The round counter itself does not wrap: a connection exchanges fewer than
\* Rounds * Modulus messages, 2^48 in the program.
ASSUME MaxNumberAssumption ==
    /\ MaxNumber \in Nat
    /\ MaxNumber < Rounds * Modulus

VARIABLES
    rx,          \* receive-side fields of the RemotePeer
    processed,   \* history: how often each message was processed
    newest,      \* history: the unwrapped number of m_sequenceIn
    lastOrdered  \* history: the last ordered unreliable message processed

vars == <<rx, processed, newest, lastOrdered>>

Numbers == 0 .. MaxNumber

Init ==
    /\ rx = NewReceiver
    /\ processed = [n \in Numbers |-> 0]
    /\ newest = 0
    /\ lastOrdered = 0

\* The assumption on the network: no message is Half or more away from the
\* newest one received.
InWindow(n) == newest - Half < n /\ n < newest + Half

\* A message passes the check and goes on to Peer::processMessage.
ProcessMessage(n, orderedOnly) ==
    /\ InWindow(n)
    /\ PassesSequenceCheck(rx, Wrap(n), orderedOnly)
    /\ rx' = AfterSequenceCheck(rx, Wrap(n), orderedOnly)
    /\ processed' = [processed EXCEPT ![n] = @ + 1]
    /\ newest' = IF IsSequenceNewer(Wrap(n), rx.m_sequenceIn) THEN n ELSE newest
    /\ lastOrdered' = IF orderedOnly THEN n ELSE lastOrdered

\* A message is skipped: out of date, or a duplicate.
SkipMessage(n, orderedOnly) ==
    /\ InWindow(n)
    /\ ~PassesSequenceCheck(rx, Wrap(n), orderedOnly)
    /\ rx' = AfterSequenceCheck(rx, Wrap(n), orderedOnly)
    /\ UNCHANGED <<processed, newest, lastOrdered>>

\* The ConnectionRequest is not an ordered message.
Next ==
    \E n \in Numbers, orderedOnly \in BOOLEAN :
        /\ n = 0 => ~orderedOnly
        /\ ProcessMessage(n, orderedOnly) \/ SkipMessage(n, orderedOnly)

Spec == Init /\ [][Next]_vars

-----------------------------------------------------------------------------
\* The receive-side fields have their types; the table of received sequences
\* holds rounds.
TypeOK ==
    LET table == rx.m_seqtrackReceived
    IN  /\ rx \in [m_sequenceIn : Sequences16, m_sequenceRound : 0 .. Rounds - 1,
                   m_seqtrackReceived : {table}]
        /\ DOMAIN table \subseteq Sequences16
        /\ table \in [DOMAIN table -> 0 .. Rounds - 1]
        /\ processed \in [Numbers -> Nat]
        /\ newest \in Numbers
        /\ lastOrdered \in Numbers

\* Duplicate detection works across wrap-around: however messages are
\* repeated and reordered, none is processed twice.
ProcessedAtMostOnce == \A n \in Numbers : processed[n] <= 1

\* An acknowledgement is never a lie: every sequence the bitfield reports is
\* that of a message this end has processed, and never the same sequence of
\* an earlier round.
AckBitsSound ==
    \A i \in GetAckBits(rx) :
        /\ newest - 1 - i \in Numbers
        /\ processed[newest - 1 - i] > 0

\* Every processed message among the AckBits before the newest is reported,
\* provided the newest sequence is not 0.
AckBitsComplete ==
    rx.m_sequenceIn # 0 =>
        \A i \in 0 .. AckBits - 1 :
            newest - 1 - i \in Numbers /\ processed[newest - 1 - i] > 0
                => i \in GetAckBits(rx)

\* An ordered unreliable message is processed only if it is newer than
\* every message processed before it, across wrap-around.
OrderedAreNewest == [][lastOrdered' # lastOrdered => lastOrdered' > newest]_vars

\* The tracked receiver implements the promise told without wrap-around.
Unwrapped == INSTANCE UniqueDelivery
ImplementsUniqueDelivery == Unwrapped!Spec

-----------------------------------------------------------------------------
\* The inductive invariant.  The round and the newest sequence spell the
\* newest number; a table entry spells a processed number not above it; and a
\* processed number has an entry of its round or a later one.
NewestSpelled == newest = Newest(rx)

EntriesProcessed ==
    \A s \in DOMAIN rx.m_seqtrackReceived :
        LET n == NumberOf(rx.m_seqtrackReceived[s], s)
        IN  n \in Numbers /\ n <= newest /\ processed[n] > 0

ProcessedHaveEntries ==
    \A n \in Numbers : processed[n] > 0 =>
        /\ n <= newest
        /\ Wrap(n) \in DOMAIN rx.m_seqtrackReceived
        /\ rx.m_seqtrackReceived[Wrap(n)] >= n \div Modulus

IInv ==
    /\ TypeOK
    /\ NewestSpelled
    /\ EntriesProcessed
    /\ ProcessedHaveEntries
    /\ ProcessedAtMostOnce
=============================================================================
