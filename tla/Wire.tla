-------------------------------- MODULE Wire --------------------------------
(***************************************************************************)
(* A packet on the wire (quicknet_packet.cpp, quicknet_message.cpp,        *)
(* quicknet_messagetypes.cpp) and the loop of Peer::parseBuffer that reads *)
(* it, one turn a step.  Packet and message headers, the fields of the     *)
(* messages, the checksum, the sequence check, unknown messages and those  *)
(* that fail to deserialize.  ReliableLink and Peer take packets for       *)
(* sequences of messages; this module shows what justifies that.           *)
(***************************************************************************)
EXTENDS SequenceNumbers, Stream, Checksum

CONSTANTS
    SendBufferSize,  \* s_bufferSize, in bytes, of m_sendBuffer and m_recvBuffer
    BytesBehind,     \* bound: what may be in memory behind m_sendBuffer
    MessageFields,   \* for each message ID, the sizes of its fields
    Packets,         \* what may be written: the acknowledgement fields, the
                     \* messages, and the reader: its receive state (rx), whether
                     \* it knows the sender (known), the fields of the messages it
                     \* has (reads), the same unless its program is another one,
                     \* and those after which it knows the sender no more (last);
                     \* and the errors that may hit it (bursts), as sequences of
                     \* Booleans
    MaxErrors        \* bound: bursts of errors that hit a packet

VARIABLES
    packet,     \* the packet written
    wire,       \* the bytes on their way, none if the packet was not sent
    errors,     \* bursts that hit it so far
    phase,      \* what happens next
    stream,     \* the stream of parseBuffer
    acks,       \* m_ackseq and m_ackbits as read
    rx,         \* the receive side of the sender's RemotePeer
    processed   \* history: the messages given to processMessage

vars == <<packet, wire, errors, phase, stream, acks, rx, processed>>

PacketHeaderSizes == <<2, 2, 4>>      \* m_checksum, m_ackseq, m_ackbits
MessageHeaderSizes == <<2, 2, 1, 1>>  \* m_size, m_sequence, m_flags, m_messageID

Test == 1    \* MessageIDs::Test
Ordered == 4
Reliable == 2
Unsequenced == 8
HasFlag(flags, flag) == (flags \div flag) % 2 = 1

ASSUME WireAssumption ==
    /\ SendBufferSize \in Nat /\ MaxErrors \in Nat
    /\ BytesBehind # {} /\ BytesBehind \subseteq 0 .. 255
    /\ DOMAIN MessageFields \subseteq 1 .. 255
    /\ \A id \in DOMAIN MessageFields : \A size \in ToSet(MessageFields[id]) : size \in {1, 2, 4, 8}
    /\ \A p \in Packets :
        /\ \A id \in DOMAIN p.reads : \A size \in ToSet(p.reads[id]) : size \in {1, 2, 4, 8}
        /\ \A message \in ToSet(p.messages) :
            /\ message.id \in DOMAIN MessageFields
            /\ [k \in DOMAIN message.values |-> Len(message.values[k])] = MessageFields[message.id]

Init ==
    /\ packet \in Packets
    /\ wire = <<>>
    /\ errors = 0
    /\ phase = "writing"
    /\ stream = NewStream(<<>>)
    /\ acks = <<>>
    /\ rx = packet.rx
    /\ processed = <<>>

-----------------------------------------------------------------------------
\* MessageHeader::ToStream; the size is that of the fields (Size()).
HeaderValues(message) ==
    <<ToBytes(Total(MessageFields[message.id])), ToBytes(message.m_sequence),
      <<message.m_flags>>, <<message.id>>>>

\* MessageTest::DeSerialize does not look whether its byte was read or written.
IgnoresFailure(id) == id = Test

\* Packet::ToStream, with a checksum yet to come: each header and each message
\* is a chain of its own, and the first failure ends it all.
ToStream(p) ==
    LET buffer == NewStream([i \in 1 .. SendBufferSize |-> 0])
        written[k \in 0 .. Len(p.messages)] ==
            IF k = 0 THEN WriteAll(buffer, <<ToBytes(0), p.m_ackseq, p.m_ackbits>>)
            ELSE LET message == p.messages[k]
                     before == written[k - 1]
                     header == WriteAll(before.stream, HeaderValues(message))
                     fields == WriteAll(header.stream, message.values)
                 IN  [ok |-> before.ok /\ header.ok /\ (fields.ok \/ IgnoresFailure(message.id)),
                      stream |-> fields.stream]
    IN  written[Len(p.messages)]

\* Packet::Size.
PacketSize(p) ==
    Total(PacketHeaderSizes)
        + Total([k \in DOMAIN p.messages |->
                    Total(MessageHeaderSizes) + Total(MessageFields[p.messages[k].id])])

\* The bytes the checksum is over: all but itself.
Covered(bytes) == SubSeq(bytes, 3, Len(bytes))

\* Packet::ToBuffer, and the Size() bytes that Peer::send gives the socket.  The
\* size is beyond the buffer if the last message is a Test without room for its
\* byte; then whatever is in memory behind the buffer is checksummed and sent.
WritePacket ==
    /\ phase = "writing"
    /\ LET written == ToStream(packet)
           behind == Max({0, PacketSize(packet) - SendBufferSize})
       IN  \/ /\ written.ok
              /\ \E beyond \in [1 .. behind -> BytesBehind] :
                    LET bytes(s) == SubSeq(s.m_buffer \o beyond, 1, PacketSize(packet))
                        checksum == CRC16(Covered(bytes(written.stream)))
                    IN  wire' = bytes(Write(Rewind(written.stream), ToBytes(checksum)))
              /\ phase' = "travelling"
           \/ /\ ~written.ok
              /\ wire' = <<>>
              /\ phase' = "dropped"
    /\ UNCHANGED <<packet, errors, stream, acks, rx, processed>>

\* A burst of errors on the way, from this bit on, with the highest bit of a
\* byte first.
Flip(bytes, from, burst) ==
    LET bit(i, b) == (bytes[i] \div 2^(7 - b)) % 2
        hit(i, b) == LET at == 8 * (i - 1) + b - from + 1 IN at \in DOMAIN burst /\ burst[at]
        flipped(i, b) == IF hit(i, b) THEN 1 - bit(i, b) ELSE bit(i, b)
    IN  [i \in DOMAIN bytes |->
            Total([b \in 1 .. 8 |-> flipped(i, b - 1) * 2^(8 - b)])]

Corrupt ==
    /\ phase = "travelling"
    /\ errors < MaxErrors
    /\ \E burst \in packet.bursts : \E from \in 0 .. 8 * Len(wire) - Len(burst) :
            wire' = Flip(wire, from, burst)
    /\ errors' = errors + 1
    /\ UNCHANGED <<packet, phase, stream, acks, rx, processed>>

\* PacketHeader::IsChecksumValid.
IsChecksumValid(bytes, checksum) == CRC16(Covered(bytes)) = checksum

\* Mutant: m_recvBuffer is larger than m_sendBuffer.
ReceivedWhole(bytes) == bytes

\* UDPSocket::Recv into m_recvBuffer: what does not fit is cut off, ...
Received(bytes) == SubSeq(bytes, 1, Min({Len(bytes), SendBufferSize}))

\* ... or, in the Windows branch, an error that loses the whole datagram.
RecvFails ==
    /\ phase = "travelling"
    /\ Len(wire) > SendBufferSize
    /\ phase' = "dropped"
    /\ UNCHANGED <<packet, wire, errors, stream, acks, rx, processed>>

\* Peer::parseBuffer before its loop.
ReceivePacket ==
    /\ phase = "travelling"
    /\ LET bytes == Received(wire)
           header == ReadAll(NewStream(bytes), PacketHeaderSizes)
       IN  IF /\ Len(bytes) >= Total(PacketHeaderSizes)
              /\ IsChecksumValid(bytes, ToNumber(header.values[1]))
           THEN /\ phase' = "parsing"
                /\ stream' = header.stream
                /\ acks' = <<header.values[2], header.values[3]>>
           ELSE phase' = "dropped" /\ UNCHANGED <<stream, acks>>
    /\ UNCHANGED <<packet, wire, errors, rx, processed>>

\* The header of the next message; what cannot be read is 0.
NextHeader ==
    LET read == ReadAll(stream, MessageHeaderSizes)
        field(k) == ToNumber(read.values[k])
    IN  [m_size |-> field(1), m_sequence |-> field(2), m_flags |-> field(3), id |-> field(4),
         stream |-> read.stream]

\* GetMessageFromID finds a message.
IsKnown(id) == id \in DOMAIN packet.reads

IsChecked(header) == packet.known /\ ~HasFlag(header.m_flags, Unsequenced)

OrderedOnly(header) == HasFlag(header.m_flags, Ordered) /\ ~HasFlag(header.m_flags, Reliable)

Passes(header) ==
    IsChecked(header) => PassesSequenceCheck(rx, header.m_sequence, OrderedOnly(header))

AfterCheck(header) ==
    IF IsChecked(header) THEN AfterSequenceCheck(rx, header.m_sequence, OrderedOnly(header)) ELSE rx

Leaves(id) == ~packet.known \/ id \in packet.last

\* The loop is at its next message.
Parsing == phase = "parsing" /\ ~Full(stream)

\* The sequence check discards the message: its size is skipped.
SkipOld ==
    /\ Parsing
    /\ ~Passes(NextHeader)
    /\ stream' = Skip(NextHeader.stream, NextHeader.m_size)
    /\ rx' = AfterCheck(NextHeader)
    /\ UNCHANGED <<packet, wire, errors, phase, acks, processed>>

\* There is no such message, but the sequence was recorded.
SkipUnknown ==
    /\ Parsing
    /\ Passes(NextHeader)
    /\ ~IsKnown(NextHeader.id)
    /\ stream' = Skip(NextHeader.stream, NextHeader.m_size)
    /\ rx' = AfterCheck(NextHeader)
    /\ UNCHANGED <<packet, wire, errors, phase, acks, processed>>

\* The message is read and processed.  What an unknown sender sends after it is
\* not, nor what follows a message that made the sender unknown (a
\* DisconnectionRequest).
ProcessMessage ==
    /\ Parsing
    /\ Passes(NextHeader)
    /\ IsKnown(NextHeader.id)
    /\ LET read == ReadAll(NextHeader.stream, packet.reads[NextHeader.id])
       IN  /\ read.ok \/ IgnoresFailure(NextHeader.id)
           /\ stream' = read.stream
           /\ processed' = Append(processed, [id |-> NextHeader.id, m_flags |-> NextHeader.m_flags,
                                              m_sequence |-> NextHeader.m_sequence,
                                              values |-> read.values])
    /\ phase' = IF Leaves(NextHeader.id) THEN "done" ELSE "parsing"
    /\ rx' = AfterCheck(NextHeader)
    /\ UNCHANGED <<packet, wire, errors, acks>>

\* Its fields go beyond the packet: the size is skipped from where reading ended.
SkipFailed ==
    /\ Parsing
    /\ Passes(NextHeader)
    /\ IsKnown(NextHeader.id) /\ ~IgnoresFailure(NextHeader.id)
    /\ LET read == ReadAll(NextHeader.stream, packet.reads[NextHeader.id])
       IN  /\ ~read.ok
           /\ stream' = Skip(read.stream, NextHeader.m_size)
    /\ rx' = AfterCheck(NextHeader)
    /\ UNCHANGED <<packet, wire, errors, phase, acks, processed>>

EndParsing ==
    /\ phase = "parsing"
    /\ Full(stream)
    /\ phase' = "done"
    /\ UNCHANGED <<packet, wire, errors, stream, acks, rx, processed>>

ParseNext == SkipOld \/ SkipUnknown \/ ProcessMessage \/ SkipFailed \/ EndParsing

Next == WritePacket \/ Corrupt \/ RecvFails \/ ReceivePacket \/ ParseNext

\* The functions run, and the loop of parseBuffer is not left before its end:
\* weak fairness of all but the errors.  One of these actions can change
\* something as long as the packet is not at its end and the loop does not turn
\* without reading anything.
AtEnd == phase \in {"done", "dropped"}

Spins == Parsing /\ NextHeader.stream = stream

Fairness == []<>(AtEnd \/ Spins) \/ []<><<WritePacket \/ RecvFails \/ ReceivePacket \/ ParseNext>>_vars

Spec == Init /\ [][Next]_vars /\ Fairness

-----------------------------------------------------------------------------
\* The stream is never read beyond the packet, and what was read has the shape
\* of the reader's messages.
TypeOK ==
    /\ stream.m_index \in 0 .. stream.m_length
    /\ \A i \in DOMAIN wire : wire[i] \in 0 .. 255
    /\ phase \in {"writing", "travelling", "parsing", "done", "dropped"}
    /\ \A message \in ToSet(processed) :
        /\ IsKnown(message.id)
        /\ [k \in DOMAIN message.values |-> Len(message.values[k])] = packet.reads[message.id]

\* What the sequence check and the reader's table make of the first n messages,
\* without a look at bytes.
Agrees(message) ==
    IsKnown(message.id) => packet.reads[message.id] = MessageFields[message.id]

Understood(n) ==
    LET checked(m) == packet.known /\ ~HasFlag(m.m_flags, Unsequenced)
        passes(r, m) == checked(m) => PassesSequenceCheck(r, m.m_sequence, OrderedOnly(m))
        after[k \in 0 .. n] ==
            IF k = 0 THEN [rx |-> packet.rx, left |-> FALSE, processed |-> <<>>]
            ELSE LET m == packet.messages[k]
                     before == after[k - 1]
                     taken == /\ passes(before.rx, m)
                              /\ IsKnown(m.id)
                 IN  IF before.left THEN before ELSE
                     [rx |-> IF checked(m)
                             THEN AfterSequenceCheck(before.rx, m.m_sequence, OrderedOnly(m))
                             ELSE before.rx,
                      left |-> taken /\ Leaves(m.id),
                      processed |-> IF taken THEN Append(before.processed, m) ELSE before.processed]
    IN  after[n]

\* The reader gets the messages and the acknowledgements the sender wrote, each
\* with its fields, whatever it skips in between; up to the first message, if
\* any, of which it has another idea.  What becomes of a packet that is too large
\* is LostBySize.
ParsedAsWritten ==
    LET differing == {k \in DOMAIN packet.messages : ~Agrees(packet.messages[k])}
        agreed == IF differing = {} THEN Len(packet.messages) ELSE Min(differing) - 1
        wanted == Understood(agreed)
    IN  errors = 0 /\ acks # <<>> /\ PacketSize(packet) <= SendBufferSize =>
            /\ acks = <<packet.m_ackseq, packet.m_ackbits>>
            /\ IsPrefix(processed, wanted.processed) \/ IsPrefix(wanted.processed, processed)
            /\ phase = "done" => IsPrefix(wanted.processed, processed)
            /\ phase = "done" /\ differing = {} => processed = wanted.processed /\ rx = wanted.rx

\* The checksum is right for a datagram without the byte that was cut off, which
\* it is for one value of that byte and one packet in 256.
CutUnnoticed ==
    /\ Len(wire) > SendBufferSize
    /\ CRC16(Covered(SubSeq(wire, 1, SendBufferSize))) = CRC16(Covered(wire))

\* A packet is lost for its size exactly if Packet::Size is beyond the buffer,
\* the condition the models of packets use (RemotePeer's FitsBuffer): most of
\* these are not sent, and of one that is sent with a byte too much the receiver,
\* which has a buffer of the same size, takes nothing, acknowledgements included,
\* unless the checksum does not show what was cut off.
LostBySize ==
    errors = 0 /\ phase # "writing" =>
        IF PacketSize(packet) <= SendBufferSize THEN phase # "dropped"
        ELSE CutUnnoticed \/ phase \in {"travelling", "dropped"}

\* No burst of errors of at most 8 bits gets past the checksum: nothing of the
\* packet is taken, not even an acknowledgement (src/README.md:18).
CorruptDropped == errors > 0 => phase \in {"travelling", "dropped"} /\ acks = <<>>

\* parseBuffer comes to an end with every packet of a program whose messages
\* agree with the reader's, the ones it does not know included.
ParsingEnds ==
    (\A message \in ToSet(packet.messages) : Agrees(message)) ~> AtEnd
=============================================================================
