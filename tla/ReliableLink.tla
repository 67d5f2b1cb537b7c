---------------------------- MODULE ReliableLink ----------------------------
(***************************************************************************)
(* An established connection: a client and a server, each with one         *)
(* RemotePeer for the other, over a network that loses, duplicates and     *)
(* reorders packets.  The application's SendTo, the KeepAlive of           *)
(* Peer::updatePeers, Peer::send with its merging and retransmission, and  *)
(* Peer::parseBuffer with acknowledgements and sequence checks, and the    *)
(* latency faker (quicknet_latencyfaker.cpp) behind it.                    *)
(*                                                                         *)
(* Clocks are abstracted to what they enable: the 50 ms between two sends  *)
(* to "some time later", and the 100 ms without acknowledgements to the    *)
(* flag silent, which time sets and any packet from the other end clears;  *)
(* the fake latency to messages that are held until some time later.  It   *)
(* is set before the connection and not switched afterwards.               *)
(* A socket error, the fake packet loss of either end and a loss in the    *)
(* network are the same event here: the packet does not arrive.            *)
(***************************************************************************)
EXTENDS RemotePeer

CONSTANTS
    Exchanged,      \* messages each end has sent, all received, before we look
    Scripts,        \* what the applications may do: for each end, the messages
                    \* it sends, and the ends with fake latency (delayed)
    MaxLosses,      \* bound: packets that do not arrive
    MaxDuplicates,  \* bound: packets that arrive once more
    MaxSilences,    \* bound: for each end, the times it hears nothing for 100 ms
    Reach,          \* how far a packet may overtake others (1: never)
    Counting        \* whether the history below counts the numbers: runs that
                    \* are to go on for ever do without

Ends == {"client", "server"}
Flags == {"reliable", "ordered", "unsequenced"}

ASSUME LinkAssumption ==
    /\ Exchanged \in Nat
    /\ \A s \in Scripts :
        /\ DOMAIN s = Ends \cup {"delayed"} /\ s.delayed \subseteq Ends
        /\ \A e \in Ends : s[e] \in Seq([flags : SUBSET Flags, size : Nat])
    /\ {MaxLosses, MaxDuplicates, MaxSilences, Reach} \subseteq Nat
    /\ Counting \in BOOLEAN

VARIABLES
    script,      \* what the applications send in this behaviour
    tx,          \* for each end, the send side of its RemotePeer
    rx,          \* for each end, the receive side
    silent,      \* for each end, no acknowledgement came for s_maxWithoutAcks
    net,         \* for each end, the packets on their way to it
    accepted,    \* for each end, how much of its script was passed to SendTo
    held,        \* for each end, m_entries of its latency faker
    processed,   \* history: for each end, what it processed, in order
    numbered,    \* history: for each end, how many messages it has numbered
    zeroed,      \* history: for each end, its messages that were given sequence 0
    faults       \* how often each fault happened so far

vars == <<script, tx, rx, silent, net, accepted, held, processed, numbered, zeroed, faults>>

Other(e) == IF e = "client" THEN "server" ELSE "client"

\* An application message is known by its place in the script of its origin,
\* a KeepAlive (unreliable, not ordered) by 0 and the end that will read the
\* round trip from it, which is what m_serverSent encodes.  History: number
\* is what m_sequence would be if it did not wrap.
GameMessage(e, i) ==
    [origin |-> e, id |-> i, flags |-> script[e][i].flags, size |-> script[e][i].size,
     m_sequence |-> 0, number |-> 0]

KeepAlive(origin) ==
    [origin |-> origin, id |-> 0, flags |-> {}, size |-> 2, m_sequence |-> 0,
     number |-> 0]

Init ==
    /\ script \in Scripts
    /\ tx = [e \in Ends |-> Sender(Wrap(Exchanged + 1))]
    /\ rx = [e \in Ends |-> ReceiverOf(Exchanged)]
    /\ silent = [e \in Ends |-> FALSE]
    /\ net = [e \in Ends |-> <<>>]
    /\ accepted = [e \in Ends |-> 0]
    /\ held = [e \in Ends |-> <<>>]
    /\ processed = [e \in Ends |-> <<>>]
    /\ numbered = [e \in Ends |-> Exchanged]
    /\ zeroed = [e \in Ends |-> {}]
    /\ faults = [losses |-> 0, duplicates |-> 0, silences |-> [e \in Ends |-> 0]]

-----------------------------------------------------------------------------
\* Peer::SendTo by the application.
SendTo(e) ==
    /\ accepted[e] < Len(script[e])
    /\ accepted' = [accepted EXCEPT ![e] = @ + 1]
    /\ tx' = [tx EXCEPT ![e] = EnqueueMessage(@, GameMessage(e, accepted[e] + 1))]
    /\ UNCHANGED <<script, rx, silent, net, held, processed, numbered, zeroed, faults>>

\* s_maxWithoutAcks pass without a packet from the other end.  Whatever was
\* pending went out meanwhile, because packets leave every 50 ms.
Silence(e) ==
    /\ ~silent[e]
    /\ tx[e].m_pendingMessages = <<>>
    /\ silent' = [silent EXCEPT ![e] = TRUE]
    /\ UNCHANGED <<script, tx, rx, net, accepted, held, processed, numbered, zeroed>>

\* Mutant: the KeepAlive never reaches the queue.
SendKeepAliveUnqueued(e) ==
    /\ silent[e]
    /\ silent' = [silent EXCEPT ![e] = FALSE]
    /\ UNCHANGED <<script, tx, rx, net, accepted, held, processed, numbered, zeroed, faults>>

\* Peer::updatePeers answers silence with a KeepAlive.
SendKeepAlive(e) ==
    /\ silent[e]
    /\ tx' = [tx EXCEPT ![e] = EnqueueMessage(@, KeepAlive(e))]
    /\ silent' = [silent EXCEPT ![e] = FALSE]
    /\ UNCHANGED <<script, rx, net, accepted, held, processed, numbered, zeroed, faults>>

\* History: the packet with the numbers of its fresh messages, and of the
\* newest one it acknowledges.
Stamped(e, packet) ==
    LET messages == PacketMessages(tx[e])
        number(i) == numbered[e] + FreshUpTo(messages, i)
    IN  [m_ackseq |-> packet.m_ackseq, m_ackbits |-> packet.m_ackbits, newest |-> Newest(rx[e]),
         messages |-> [i \in DOMAIN messages |->
                        IF IsFresh(messages[i])
                        THEN [packet.messages[i] EXCEPT !.number = number(i)]
                        ELSE packet.messages[i]]]

\* Peer::send for one RemotePeer: only if a message is pending, whatever
\* waits for an acknowledgement.
SendPacket(e, arrives) ==
    LET packet == Stamped(e, BuildPacket(tx[e], rx[e]))
        numberedZero == {m.id : m \in {n \in ToSet(packet.messages) : n.m_sequence = 0}}
    IN  /\ tx[e].m_pendingMessages # <<>>
        /\ tx' = [tx EXCEPT ![e] = AfterSend(@, packet)]
        /\ numbered' = [numbered EXCEPT ![e] =
                            IF Counting THEN @ + FreshUpTo(PacketMessages(tx[e]), Len(packet.messages))
                            ELSE @]
        /\ zeroed' = [zeroed EXCEPT ![e] = @ \cup numberedZero]
        /\ net' = IF FitsBuffer(packet) /\ arrives
                  THEN [net EXCEPT ![Other(e)] = Append(@, packet)] ELSE net
        /\ UNCHANGED <<script, rx, silent, accepted, held, processed>>

Send(e) == SendPacket(e, TRUE) /\ UNCHANGED faults

SendLost(e) ==
    /\ faults.losses < MaxLosses
    /\ SendPacket(e, FALSE)
    /\ faults' = [faults EXCEPT !.losses = @ + 1]

-----------------------------------------------------------------------------
\* Peer::processMessage: a KeepAlive of the other end is answered.
ProcessMessage(e, peer, message) ==
    IF message.id # 0 THEN [peer EXCEPT !.processed = Append(@, message.id)]
    ELSE IF message.origin # e
         THEN [peer EXCEPT !.tx = EnqueueMessage(@, KeepAlive(message.origin))]
    ELSE peer

\* Mutant: the latest message is released first.
AddPendingMessageFirst(entries, message) == <<message>> \o entries

\* NetLatencyFaker::AddPendingMessage.
AddPendingMessage(entries, message) == Append(entries, message)

\* One turn of the loop of Peer::parseBuffer: the sequence check, then
\* Peer::processMessage, which fake latency puts off.
ParseMessage(e, peer, message) ==
    LET checked == ~IsUnsequenced(message)
        passes == \/ ~checked
                  \/ PassesSequenceCheck(peer.rx, message.m_sequence, IsOrderedOnly(message))
        afterCheck ==
            IF checked
            THEN [peer EXCEPT !.rx = AfterSequenceCheck(@, message.m_sequence,
                                                        IsOrderedOnly(message))]
            ELSE peer
    IN  IF ~passes THEN afterCheck
        ELSE IF e \in script.delayed
             THEN [afterCheck EXCEPT !.held = AddPendingMessage(@, message)]
        ELSE ProcessMessage(e, afterCheck, message)

\* Peer::parseBuffer: the acknowledgements first, then every message.
ReceivePacket(e, packet) ==
    LET parsed[k \in 0 .. Len(packet.messages)] ==
            IF k = 0
            THEN [rx |-> rx[e], held |-> held[e], processed |-> processed[e],
                  tx |-> ProcessAckBits(tx[e], packet.m_ackseq, packet.m_ackbits)]
            ELSE ParseMessage(e, parsed[k - 1], packet.messages[k])
        after == parsed[Len(packet.messages)]
    IN  /\ rx' = [rx EXCEPT ![e] = after.rx]
        /\ tx' = [tx EXCEPT ![e] = after.tx]
        /\ held' = [held EXCEPT ![e] = after.held]
        /\ processed' = [processed EXCEPT ![e] = after.processed]
        /\ silent' = [silent EXCEPT ![e] = FALSE]
        /\ UNCHANGED <<script, accepted, numbered, zeroed>>

Arriving(e) == {i \in DOMAIN net[e] : i <= Reach}

Receive(e) ==
    \E i \in Arriving(e) :
        /\ ReceivePacket(e, net[e][i])
        /\ net' = [net EXCEPT ![e] = RemoveAt(@, i)]
        /\ UNCHANGED faults

ReceiveDuplicate(e) ==
    /\ faults.duplicates < MaxDuplicates
    /\ \E i \in Arriving(e) : ReceivePacket(e, net[e][i])
    /\ faults' = [faults EXCEPT !.duplicates = @ + 1]
    /\ UNCHANGED net

\* Peer::updatePeers takes the oldest held message once its time has come
\* (NetLatencyFaker::GetMessageReady looks at no other) and processes it.
ProcessHeld(e) ==
    LET after == ProcessMessage(e, [tx |-> tx[e], processed |-> processed[e]], Head(held[e]))
    IN  /\ held[e] # <<>>
        /\ held' = [held EXCEPT ![e] = Tail(@)]
        /\ tx' = [tx EXCEPT ![e] = after.tx]
        /\ processed' = [processed EXCEPT ![e] = after.processed]
        /\ UNCHANGED <<script, rx, silent, net, accepted, numbered, zeroed, faults>>

-----------------------------------------------------------------------------
\* The application messages among these.
GameIDs(messages) ==
    LET ids[k \in 0 .. Len(messages)] ==
            IF k = 0 THEN <<>>
            ELSE IF messages[k].id # 0 THEN Append(ids[k - 1], messages[k].id)
            ELSE ids[k - 1]
    IN  ids[Len(messages)]

\* What arrived at e: the messages it processed, then those it holds.
Arrived(e) == processed[e] \o GameIDs(held[e])

\* When the i-th message of e arrived at the other end.
Arrivals(e, i) == {k \in DOMAIN Arrived(Other(e)) : Arrived(Other(e))[k] = i}

Queued(e) == ToSet(tx[e].m_pendingMessages \o tx[e].m_reliableMessages)

\* The i-th message of e waits at e, to be sent or to be acknowledged.
Waits(e, i) == \E m \in Queued(e) : m.id = i

Sequenced(e) == {i \in 1 .. accepted[e] : ~IsUnsequenced(GameMessage(e, i))}
Reliables(e) == {i \in 1 .. accepted[e] : IsReliable(GameMessage(e, i))}

Undelivered == \E e \in Ends : \E i \in Reliables(e) : i \notin ToSet(processed[Other(e)])

\* Everything but the passing of time.
Work(e) ==
    \/ SendTo(e) \/ SendKeepAlive(e)
    \/ Send(e) \/ SendLost(e)
    \/ Receive(e) \/ ReceiveDuplicate(e) \/ ProcessHeld(e)

\* Time passes at any moment, however long packets are on their way, but each
\* end falls silent a bounded number of times.
CountedSilence(e) ==
    /\ faults.silences[e] < MaxSilences
    /\ Silence(e)
    /\ faults' = [faults EXCEPT !.silences[e] = @ + 1]

Next == \E e \in Ends : Work(e) \/ CountedSilence(e)

Spec == Init /\ [][Next]_vars

\* For liveness time passes without bound, while a reliable message is still
\* undelivered; packets, with the fake latency, need less than the 100 ms of
\* s_maxWithoutAcks, so at that moment no message is pending, on its way or
\* held.
TimelySilence(e) ==
    /\ \A o \in Ends : tx[o].m_pendingMessages = <<>> /\ net[o] = <<>> /\ held[o] = <<>>
    /\ Undelivered
    /\ Silence(e)
    /\ UNCHANGED faults

TimelyNext == \E e \in Ends : Work(e) \/ TimelySilence(e)

\* The application calls UpdateNetwork for ever, so time goes on, a silent end
\* sends its KeepAlive, a pending message is sent, a packet that arrives is
\* read, and a held message is processed.
Fairness ==
    \A e \in Ends :
        /\ WF_vars(TimelySilence(e))
        /\ WF_vars(SendKeepAlive(e))
        /\ WF_vars(Send(e))
        /\ WF_vars(Receive(e))
        /\ WF_vars(ProcessHeld(e))

FairSpec == Init /\ [][TimelyNext]_vars /\ Fairness

-----------------------------------------------------------------------------
Messages(e) == {GameMessage(e, i) : i \in 1 .. Len(script[e])}
                    \cup {KeepAlive(o) : o \in Ends}

\* A message of e that was given a number.
IsNumbered(e, m) ==
    /\ [m EXCEPT !.m_sequence = 0, !.number = 0] \in Messages(e)
    /\ m.m_sequence \in Sequences16
    /\ m.number \in Exchanged + 1 .. numbered[e]

\* Queues hold messages of their owner, pending ones without a sequence;
\* packets carry messages of the end that sent them.
TypeOK ==
    /\ \A e \in Ends :
        /\ tx[e].m_sequenceOut \in Sequences16
        /\ ToSet(tx[e].m_pendingMessages) \subseteq Messages(e)
        /\ \A m \in ToSet(tx[e].m_reliableMessages) : IsNumbered(e, m) /\ IsReliable(m)
        /\ rx[e].m_sequenceIn \in Sequences16
        /\ \A packet \in ToSet(net[e]) :
                /\ packet.m_ackseq \in Sequences16
                /\ packet.m_ackbits \subseteq 0 .. AckBits - 1
                /\ \A m \in ToSet(packet.messages) : IsNumbered(Other(e), m)
        /\ \A m \in ToSet(held[e]) : IsNumbered(Other(e), m)
        /\ ToSet(processed[e]) \subseteq 1 .. accepted[Other(e)]
    /\ silent \in [Ends -> BOOLEAN]

\* No retransmission and no duplicate of a packet makes the other end take
\* a message twice, if its sequence was never 0, which marks a message that
\* has none yet (quicknet_packet.cpp:122).
ProcessedOnce ==
    \A e \in Ends : \A i \in Sequenced(e) \ zeroed[e] : Cardinality(Arrivals(e, i)) <= 1

\* A reliable message is given up only when the other end has it, processed or
\* held: no acknowledgement, repeated, late or out of order, removes another
\* message.
ReliablesKept ==
    \A e \in Ends : \A i \in Reliables(e) : Waits(e, i) \/ Arrivals(e, i) # {}

\* No two messages wait for an acknowledgement under the same sequence.
SequencesDistinct ==
    \A e \in Ends : \A m, n \in ToSet(tx[e].m_reliableMessages) :
        m.m_sequence = n.m_sequence => m = n

\* Ordered unreliable messages are processed in the order they were sent; one
\* that is also unsequenced skips the check that keeps the order.
IsInOrder(message) == IsOrderedOnly(message) /\ ~IsUnsequenced(message)

OrderedInOrder ==
    \A e \in Ends : \A j, k \in DOMAIN processed[e] :
        LET message(n) == GameMessage(Other(e), processed[e][n])
        IN  j < k /\ IsInOrder(message(j)) /\ IsInOrder(message(k))
                => processed[e][j] < processed[e][k]

\* The link implements the channel the applications are promised: arrived
\* messages are in the inbox, processed ones read, and a reliable message is
\* outstanding as long as a queue of its sender has it.
Channel == INSTANCE ReliableChannel WITH
    offered     <- [e \in Ends |-> script[e]],
    outstanding <- [e \in Ends |-> {i \in Reliables(e) : Waits(e, i)}],
    inbox       <- [e \in Ends |-> Arrived(e)],
    read        <- [e \in Ends |-> Len(processed[e])],
    renumbered  <- zeroed

ImplementsReliableChannel == Channel!Spec

\* The assumption of the comment at quicknet_remotepeer.cpp:199 on the network:
\* the numbers of e that are in use, by messages on their way or waiting, by
\* acknowledgements and by the next message, are less than half a range from
\* the newest one the other end received.  It holds of the instances below, and
\* the round counter tells all numbers apart.
InUse(e) ==
    LET carried == UNION {ToSet(packet.messages) : packet \in ToSet(net[Other(e)])}
        acked(packet) == {packet.newest} \cup {packet.newest - 1 - i : i \in packet.m_ackbits}
    IN  {numbered[e]}
            \cup {m.number : m \in carried \cup ToSet(tx[e].m_reliableMessages)}
            \cup UNION {acked(packet) : packet \in ToSet(net[e])}

NumbersInWindow ==
    \A e \in Ends :
        LET newest == Newest(rx[Other(e)])
        IN  /\ numbered[e] < Rounds * Modulus
            /\ \A n \in InUse(e) : newest - Half < n /\ n < newest + Half

MessageIDs == UNION {DOMAIN s[e] : s \in Scripts, e \in Ends}

\* Every reliable message the application sends is processed by the other end,
\* although only KeepAlives may remain to carry it (quicknet_peer.cpp:957).
ReliablesArrive ==
    \A e \in Ends, i \in MessageIDs :
        i \in Reliables(e) ~> i \in ToSet(processed[Other(e)])
=============================================================================
