----------------------------- MODULE RemotePeer -----------------------------
(***************************************************************************)
(* The send side of a RemotePeer (quicknet_remotepeer.cpp) and the packet  *)
(* Peer::send builds from it (quicknet_peer.cpp, quicknet_packet.cpp).     *)
(* Operators only; the state they work on is a record with the three       *)
(* send-side fields of RemotePeer: m_sequenceOut, m_pendingMessages and    *)
(* m_reliableMessages.                                                     *)
(*                                                                         *)
(* A message is a record with the fields of its header the protocol reads  *)
(* (m_sequence, and flags as a set of flag names), its size on the wire    *)
(* with its header, and whatever else identifies it.  Sizes are in units   *)
(* of the model, the fixed packet header left out of both limits.  A       *)
(* message without a sequence yet has m_sequence 0, as in the code.        *)
(***************************************************************************)
EXTENDS SequenceNumbers, SequencesExt, FiniteSets

CONSTANTS
    MaximumPacketSize,  \* s_maximumPacketSize: full from this size on
    BufferSize          \* s_bufferSize: what ToBuffer can hold

ASSUME PacketSizeAssumption ==
    /\ MaximumPacketSize \in Nat \ {0}
    /\ BufferSize \in Nat \ {0}

IsReliable(message) == "reliable" \in message.flags
IsUnsequenced(message) == "unsequenced" \in message.flags
IsOrderedOnly(message) == "ordered" \in message.flags /\ ~IsReliable(message)

\* The send side of a RemotePeer whose next message gets this sequence.
Sender(sequenceOut) ==
    [m_sequenceOut |-> sequenceOut, m_pendingMessages |-> <<>>, m_reliableMessages |-> <<>>]

\* The receive side of a RemotePeer that received messages 1 .. n and no more.
ReceiverOf(n) ==
    LET recent == {k \in 1 .. n : k > n - Modulus}
        numberOf == [s \in {Wrap(k) : k \in recent} |->
                        CHOOSE k \in recent : Wrap(k) = s]
    IN  Receiver(Wrap(n), WrapRound(n \div Modulus),
                 [s \in DOMAIN numberOf |-> WrapRound(numberOf[s] \div Modulus)])

\* RemotePeer::EnqueueMessage.
EnqueueMessage(tx, message) ==
    [tx EXCEPT !.m_pendingMessages = Append(@, message)]

\* Mutant: acknowledgements are cumulative.
AcknowledgeUpTo(messages, sequence) ==
    SelectSeq(messages, LAMBDA m : IsSequenceNewer(m.m_sequence, sequence))

\* RemotePeer::ProcessAckBits: for each acknowledged sequence the first
\* message that waits for it is done.
Acknowledge(messages, sequence) ==
    LET found == {i \in DOMAIN messages : messages[i].m_sequence = sequence}
    IN  IF found = {} THEN messages ELSE RemoveAt(messages, Min(found))

ProcessAckBits(tx, ackseq, ackbits) ==
    LET after[k \in 0 .. AckBits] ==
            IF k = 0 THEN Acknowledge(tx.m_reliableMessages, ackseq)
            ELSE IF k - 1 \in ackbits THEN Acknowledge(after[k - 1], Wrap(ackseq - k))
            ELSE after[k - 1]
    IN  [tx EXCEPT !.m_reliableMessages = after[AckBits]]

-----------------------------------------------------------------------------
\* Packet::Size without the packet header.
Size(messages) ==
    LET sizeOf[k \in 0 .. Len(messages)] ==
            IF k = 0 THEN 0 ELSE sizeOf[k - 1] + messages[k].size
    IN  sizeOf[Len(messages)]

\* The messages Peer::send puts in a packet: the oldest reliable that waits
\* for an acknowledgement, then pending ones while the packet is not full.
OldestReliable(tx) ==
    IF tx.m_reliableMessages = <<>> THEN <<>> ELSE <<Head(tx.m_reliableMessages)>>

PendingTaken(tx) ==
    LET pending == tx.m_pendingMessages
        sizeWith[k \in 0 .. Len(pending)] ==
            IF k = 0 THEN Size(OldestReliable(tx)) ELSE sizeWith[k - 1] + pending[k].size
        full == {k \in DOMAIN sizeWith : sizeWith[k] >= MaximumPacketSize}
    IN  IF full = {} THEN Len(pending) ELSE Min(full)

PacketMessages(tx) == OldestReliable(tx) \o SubSeq(tx.m_pendingMessages, 1, PendingTaken(tx))

\* A message without a sequence yet, which needs a header.
IsFresh(message) == message.m_sequence = 0
FreshUpTo(messages, k) == Cardinality({j \in 1 .. k : IsFresh(messages[j])})

\* Mutant: one number for all the fresh messages of a packet.
GenerateMessageHeadersSame(messages, sequenceOut) ==
    [i \in DOMAIN messages |->
        IF IsFresh(messages[i]) THEN [messages[i] EXCEPT !.m_sequence = sequenceOut]
                                ELSE messages[i]]

\* Packet::GenerateMessageHeaders: fresh messages get the next sequences.
GenerateMessageHeaders(messages, sequenceOut) ==
    [i \in DOMAIN messages |->
        IF IsFresh(messages[i])
        THEN [messages[i] EXCEPT !.m_sequence =
                Wrap(sequenceOut + FreshUpTo(messages, i - 1))]
        ELSE messages[i]]

\* The packet Peer::send builds, with the acknowledgements of Packet::GeneratePacketHeader.
BuildPacket(tx, rx) ==
    [m_ackseq  |-> rx.m_sequenceIn,
     m_ackbits |-> GetAckBits(rx),
     messages  |-> GenerateMessageHeaders(PacketMessages(tx), tx.m_sequenceOut)]

\* The packets whose messages can reach the other end.  Packet::ToBuffer succeeds
\* if everything fits, or everything but the byte of a last Test message; such a
\* packet is sent, cut off by the other end's buffer and dropped (LostBySize of
\* Wire).
FitsBuffer(packet) == Size(packet.messages) <= BufferSize

\* What Peer::send leaves in the RemotePeer, whether or not the packet went out:
\* the numbering has advanced and the packet's reliables wait at the back of
\* the queue (Packet::BackupReliables, RemotePeer::RequeueMessage).
AfterSend(tx, packet) ==
    LET retransmitted == Len(OldestReliable(tx))
        taken == Len(packet.messages) - retransmitted
        fresh == FreshUpTo(PacketMessages(tx), Len(packet.messages))
        rest(messages, n) == SubSeq(messages, n + 1, Len(messages))
        requeued[k \in 0 .. Len(packet.messages)] ==
            IF k = 0 THEN rest(tx.m_reliableMessages, retransmitted)
            ELSE IF IsReliable(packet.messages[k])
                 THEN Append(requeued[k - 1], packet.messages[k])
            ELSE requeued[k - 1]
    IN  [m_sequenceOut      |-> Wrap(tx.m_sequenceOut + fresh),
         m_pendingMessages  |-> rest(tx.m_pendingMessages, taken),
         m_reliableMessages |-> requeued[Len(packet.messages)]]
=============================================================================
