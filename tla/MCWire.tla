------------------------------- MODULE MCWire -------------------------------
(***************************************************************************)
(* Wire for TLC: the messages, the packets and the errors.                 *)
(***************************************************************************)
EXTENDS Wire

\* The system messages, and a message of the application's own.
Fields ==
    << <<1>>,        \* Test
       <<4>>,        \* DiscoveryRequest
       <<4, 1, 1>>,  \* DiscoveryAnswer
       <<4>>,        \* ConnectionRequest
       <<1, 4>>,     \* ConnectionAnswer
       <<4>>,        \* ConnectionSuccess
       <<1, 8>>,     \* KeepAlive
       <<4>>,        \* DisconnectionRequest
       <<2, 1>> >>   \* the application's message
Custom == 9
System == 1
SystemFields == SubSeq(Fields, 1, 8)

\* A message with some bytes in its fields.
Message(id, sequence, flags) ==
    [id |-> id, m_sequence |-> sequence, m_flags |-> flags,
     values |-> [k \in DOMAIN Fields[id] |->
                    [i \in 1 .. Fields[id][k] |-> (41 * sequence + 67 * k + 29 * i) % 256]]]

\* Receivers that received nothing, or messages up to 3 without the second.
Fresh == NewReceiver
Behind == Receiver(3, 0, [s \in {1, 3} |-> 0])

Packet(receiver, reads, messages) ==
    [m_ackseq |-> ToBytes(513), m_ackbits |-> <<7, 0, 1, 128>>, messages |-> messages,
     rx |-> receiver, known |-> TRUE, reads |-> reads, last |-> {8}, bursts |-> {}]

FromUnknown(p) == [p EXCEPT !.known = FALSE]

\* Two readers that do not have all of the messages: one without the
\* application's, and one whose has another field.
NewerFields == Append(SystemFields, <<2, 1, 8>>)

TestPackets ==
    {Packet(receiver, reads, messages) :
        receiver \in {Fresh, Behind},
        reads \in {Fields, SystemFields, NewerFields},
        messages \in {<<Message(Custom, s, f), Message(7, 4, System)>> :
                            s \in 1 .. 3, f \in {0, Ordered, Reliable, Unsequenced}}
                     \cup {<<Message(7, 4, System), Message(Custom, 5, Reliable), Message(Test, 2, System)>>,
                           <<Message(5, 2, System + Reliable), Message(Custom, 4, 0)>>,
                           <<Message(Custom, 1, 0), Message(8, 2, System), Message(Custom, 4, 0)>>,
                           <<Message(Custom, 3, 0), Message(Custom, 2, Ordered), Message(3, 0, System)>>,
                           <<Message(7, 1, System), Message(7, 2, System), Message(6, 3, System)>>,
                           <<Message(7, 1, System), Message(7, 2, System), Message(7, 3, System)>>}}
    \cup {FromUnknown(Packet(Fresh, reads, <<Message(id, 0, System), Message(Test, 0, System)>>)) :
            reads \in {Fields, SystemFields}, id \in {2, 4, Custom}}

\* One wrong bit, two, all bits of a byte, and other bursts of at most 8.
Bursts ==
    {<<TRUE>>, <<TRUE, TRUE>>, <<TRUE, FALSE, TRUE, TRUE>>, <<TRUE, FALSE, FALSE, FALSE, TRUE>>,
     <<TRUE, FALSE, TRUE, TRUE, FALSE, FALSE, TRUE, TRUE>>, [k \in 1 .. 8 |-> TRUE]}

HitPackets ==
    {[Packet(Fresh, Fields, messages) EXCEPT !.bursts = Bursts] :
        messages \in {<<Message(Test, 1, System)>>,
                      <<Message(Custom, 1, Reliable), Message(Custom, 2, 0)>>}}

\* Packets that lack the room for the byte of a Test message, at their end and
\* before another message.  With the second byte behind the buffer the checksum
\* of one of them is right without that byte.
Overfull(sequences, rest) ==
    Packet(Fresh, Fields, <<Message(7, sequences[1], System), Message(Custom, sequences[2], 0),
                            Message(4, sequences[3], System + Reliable),
                            Message(Test, sequences[4], System)>> \o rest)

OverfullPackets ==
    {Overfull(<<1, 2, 3, 4>>, <<>>), Overfull(<<5, 12, 6, 7>>, <<>>),
     Overfull(<<1, 2, 3, 4>>, <<Message(Test, 5, System)>>)}

AnyByte == {0, 187, 255}

AllPackets == TestPackets \cup HitPackets \cup OverfullPackets
=============================================================================
