----------------------------- MODULE RoundTrip ------------------------------
(***************************************************************************)
(* Time in an established connection: when a RemotePeer is sent to, when   *)
(* it gets a KeepAlive, when it has timed out, when the latency faker      *)
(* releases a message (quicknet_latencyfaker.cpp), and the round trip that *)
(* KeepAlives and acknowledgements measure (RemotePeer::UpdateRTT).        *)
(*                                                                         *)
(* ReliableLink leaves the clocks out; here they count, for two ends whose *)
(* applications call UpdateNetwork once in every frame, unless they stall. *)
(* One call is one step, and its several readings of the clock are one.    *)
(* A peer that has timed out ends the behaviour: what follows is in Peer.  *)
(***************************************************************************)
EXTENDS RemotePeer, Clock

CONSTANTS
    ConnectionTimeout,  \* s_connectionTimeout, 10000 ms
    MaxWithoutAcks,     \* s_maxWithoutAcks, 100 ms
    SendTime,           \* m_sendTime, 50 ms
    FrameTime,          \* real time between two frames
    MinDelay, MaxDelay, \* real time a packet needs
    Scenarios,          \* for each end, when its clock was first read (first),
                        \* its fake latency (latency) and how many reliable
                        \* messages its application sends (messages); as
                        \* bounds, frames, losses and stalls; how many of
                        \* the last two it has to endure (endures)
    MaxFrames           \* bound: frames of any behaviour

Ends == {"client", "server"}
Other(e) == IF e = "client" THEN "server" ELSE "client"
Start == 0

ASSUME RoundTripAssumption ==
    /\ {ConnectionTimeout, MaxWithoutAcks, SendTime, MinDelay, MaxDelay, MaxFrames} \subseteq Nat
    /\ FrameTime \in Nat \ {0}
    /\ MinDelay <= MaxDelay
    /\ \A s \in Scenarios :
        /\ DOMAIN s = {"first", "latency", "messages", "frames", "losses", "stalls", "endures"}
        /\ {s.frames, s.losses, s.stalls, s.endures} \subseteq Nat
        /\ \A e \in Ends :
            /\ s.first[e] \in Int /\ s.first[e] <= Start
            /\ {s.messages[e], s.latency[e]} \subseteq Nat

\* The product that the Windows branch divides fits a LONGLONG: with a counter
\* of 10 MHz, for 29 years.
ASSUME ClockLastsAssumption ==
    \A s \in Scenarios, e \in Ends :
        2 * ((MaxFrames * FrameTime - s.first[e]) * Multiplier) < Word

VARIABLES
    now,       \* real time
    scenario,  \* what this behaviour is given, and what is left of it
    remote,    \* for each end, its RemotePeer for the other
    net,       \* for each end, the packets on their way to it, with the real
               \* time they left
    waiting,   \* the ends that have yet to call UpdateNetwork in this frame
    disturbed  \* history: how many packets were lost and frames stalled

vars == <<now, scenario, remote, net, waiting, disturbed>>

Reading(e) == Elapsed(now, scenario.first[e])

\* A KeepAlive carries who will measure with it, and that end's timestamp.
KeepAlive(e, timeStamp) ==
    [id |-> "KeepAlive", flags |-> {}, size |-> 1, m_sequence |-> 0,
     measures |-> e, m_timeStamp |-> timeStamp]

GameMessage(e) ==
    [id |-> "Game", flags |-> {"reliable"}, size |-> 1, m_sequence |-> 0,
     measures |-> e, m_timeStamp |-> 0]

\* RemotePeer::RemotePeer at this reading; held are the entries of the latency
\* faker.  History: heard, when a message was processed last, in real time;
\* samples, the round trips measured and what with; doubtful, a reliable
\* message went out a second time.
NewRemotePeer(reading) ==
    [tx |-> Sender(1), rx |-> NewReceiver, m_seqtrackSent |-> <<>>,
     m_ping |-> 0, m_rtt |-> 0,
     m_lastAckTime |-> reading, m_lastMessageTime |-> reading, m_lastSend |-> 0,
     held |-> <<>>, timedOut |-> FALSE, heard |-> Start, samples |-> {}, doubtful |-> FALSE]

Init ==
    /\ now = Start
    /\ scenario \in Scenarios
    /\ remote = [e \in Ends |-> NewRemotePeer(Elapsed(Start, scenario.first[e]))]
    /\ net = [e \in Ends |-> <<>>]
    /\ waiting = Ends
    /\ disturbed = 0

-----------------------------------------------------------------------------
\* Mutant: the weights are not a hundred together.
SmoothedTooLittle(rtt, milliseconds) ==
    IF rtt = 0 THEN milliseconds ELSE ((rtt * 80 + milliseconds * 10) % HalfWord) \div 100

\* The average of RemotePeer::UpdateRTT, in uint32_t.
Smoothed(rtt, milliseconds) ==
    IF rtt = 0 THEN milliseconds ELSE ((rtt * 90 + milliseconds * 10) % HalfWord) \div 100

UpdateRTT(p, milliseconds, source) ==
    [p EXCEPT !.m_ping = milliseconds \div 2,
              !.m_rtt = Smoothed(@, milliseconds),
              !.samples = @ \cup {[milliseconds |-> milliseconds, source |-> source]}]

\* Mutant: the send time is kept when its message is acknowledged.
ForgetNothing(sent, sequence) == sent

\* m_seqtrackSent without this sequence.
Forget(sent, sequence) == [s \in DOMAIN sent \ {sequence} |-> sent[s]]

\* Mutant: until the last message, not until now.
TimeUntilMessage(p, sequence, reading) ==
    Since32(p.m_lastMessageTime, p.m_seqtrackSent[sequence])

TimeSinceSent(p, sequence, reading) == Since32(reading, p.m_seqtrackSent[sequence])

\* RemotePeer::ProcessAckBits for one sequence: if a message waits for it, that
\* message is timed and done.
ProcessAck(p, sequence, reading) ==
    LET waits == \E m \in ToSet(p.tx.m_reliableMessages) : m.m_sequence = sequence
        timed == IF sequence \in DOMAIN p.m_seqtrackSent
                 THEN UpdateRTT(p, TimeSinceSent(p, sequence, reading), "Ack")
                 ELSE p
    IN  IF waits
        THEN [timed EXCEPT !.tx.m_reliableMessages = Acknowledge(@, sequence),
                           !.m_seqtrackSent = Forget(@, sequence)]
        ELSE p

ProcessAcks(p, packet, reading) ==
    LET after[k \in 0 .. AckBits] ==
            IF k = 0 THEN ProcessAck(p, packet.m_ackseq, reading)
            ELSE IF k - 1 \in packet.m_ackbits
                 THEN ProcessAck(after[k - 1], Wrap(packet.m_ackseq - k), reading)
            ELSE after[k - 1]
    IN  [after[AckBits] EXCEPT !.m_lastAckTime = reading]

\* Mutant: the answer carries the time of the end that answers.
AnswerStamped(message, reading) == KeepAlive(message.measures, reading)

\* The answer to a KeepAlive returns its timestamp.
Answer(message, reading) == KeepAlive(message.measures, message.m_timeStamp)

\* Mutant: a KeepAlive does not count as a message.
ProcessMessageGameOnly(e, p, message, reading) ==
    IF message.id # "KeepAlive" THEN [p EXCEPT !.m_lastMessageTime = reading, !.heard = now]
    ELSE IF message.measures = e
         THEN UpdateRTT(p, Since32(reading, message.m_timeStamp), "KeepAlive")
    ELSE [p EXCEPT !.tx = EnqueueMessage(@, Answer(message, reading))]

\* Peer::processMessage.
ProcessMessage(e, p, message, reading) ==
    LET q == [p EXCEPT !.m_lastMessageTime = reading, !.heard = now]
    IN  IF message.id # "KeepAlive" THEN q
        ELSE IF message.measures = e
             THEN UpdateRTT(q, Since32(reading, message.m_timeStamp), "KeepAlive")
        ELSE [q EXCEPT !.tx = EnqueueMessage(@, Answer(message, reading))]

\* NetLatencyFaker::AddPendingMessage.
AddPendingMessage(p, message, reading) ==
    [p EXCEPT !.held = Append(@, [message |-> message, m_timeStamp |-> reading])]

\* One turn of the loop of Peer::parseBuffer, and the whole of it.
ParseMessage(e, p, message, reading) ==
    LET sequence == message.m_sequence
        checked == [p EXCEPT !.rx = AfterSequenceCheck(@, sequence, IsOrderedOnly(message))]
    IN  IF ~PassesSequenceCheck(p.rx, sequence, IsOrderedOnly(message)) THEN checked
        ELSE IF scenario.latency[e] > 0 THEN AddPendingMessage(checked, message, reading)
        ELSE ProcessMessage(e, checked, message, reading)

ParseBuffer(e, p, packet, reading) ==
    LET parsed[k \in 0 .. Len(packet.messages)] ==
            IF k = 0 THEN ProcessAcks(p, packet, reading)
            ELSE ParseMessage(e, parsed[k - 1], packet.messages[k], reading)
    IN  parsed[Len(packet.messages)]

-----------------------------------------------------------------------------
\* Mutant: the comparison is the wrong way round.
ShouldArriveBefore(entry, latency, reading) ==
    latency = 0 \/ Since32(reading, entry.m_timeStamp) <= latency

\* NetLatencyFaker::shouldArrive; GetMessageReady looks at the first entry only.
ShouldArrive(entry, latency, reading) ==
    latency = 0 \/ Since32(reading, entry.m_timeStamp) >= latency

ProcessHeld(e, p, reading) ==
    LET ready(k) == \A i \in 1 .. k : ShouldArrive(p.held[i], scenario.latency[e], reading)
        released == Max({k \in 0 .. Len(p.held) : ready(k)})
        processed[k \in 0 .. released] ==
            IF k = 0 THEN [p EXCEPT !.held = SubSeq(@, released + 1, Len(@))]
            ELSE ProcessMessage(e, processed[k - 1], p.held[k].message, reading)
    IN  processed[released]

\* The timers of Peer::updatePeers for the one peer.
UpdatePeer(e, p, reading) ==
    IF Since(reading, p.m_lastMessageTime) > ConnectionTimeout
    THEN [p EXCEPT !.timedOut = TRUE]
    ELSE IF Since(reading, p.m_lastAckTime) > MaxWithoutAcks
    THEN [p EXCEPT !.tx = EnqueueMessage(@, KeepAlive(e, reading)), !.m_lastAckTime = reading]
    ELSE p

\* Peer::send, not before SendTime has passed since the last time.
IsDue(p, reading) ==
    /\ ~p.timedOut
    /\ Since(reading, p.m_lastSend) >= SendTime
    /\ p.tx.m_pendingMessages # <<>>

\* The reliable messages that went out are timed from now on.
AfterPacket(p, packet, reading) ==
    LET reliable == {m.m_sequence : m \in {n \in ToSet(packet.messages) : IsReliable(n)}}
        sent == p.m_seqtrackSent
    IN  [p EXCEPT !.tx = AfterSend(@, packet),
                  !.m_seqtrackSent = [s \in DOMAIN sent \cup reliable |->
                                        IF s \in reliable THEN reading ELSE sent[s]],
                  !.m_lastSend = reading,
                  !.doubtful = @ \/ p.tx.m_reliableMessages # <<>>]

\* The application's SendTo, before its call of UpdateNetwork.
SendTo(e) ==
    /\ ~\E o \in Ends : remote[o].timedOut
    /\ e \in waiting
    /\ scenario.messages[e] > 0
    /\ remote' = [remote EXCEPT ![e].tx = EnqueueMessage(@, GameMessage(e))]
    /\ scenario' = [scenario EXCEPT !.messages[e] = @ - 1]
    /\ UNCHANGED <<now, net, waiting, disturbed>>

\* Packets that have had the time to arrive, and those that must have.
Deliverable(e) == {i \in DOMAIN net[e] : now - net[e][i].left >= MinDelay}
Overdue(e) == {i \in DOMAIN net[e] : now - net[e][i].left >= MaxDelay}

\* One turn of Peer::receive for each of the packets that arrive.
Receive(e, arriving, reading) ==
    LET received[k \in 0 .. Len(net[e])] ==
            IF k = 0 THEN remote[e]
            ELSE IF k \in arriving THEN ParseBuffer(e, received[k - 1], net[e][k].packet, reading)
            ELSE received[k - 1]
    IN  received[Len(net[e])]

StillOnTheirWay(queue, arriving) ==
    LET rest[k \in 0 .. Len(queue)] ==
            IF k = 0 THEN <<>>
            ELSE IF k \in arriving THEN rest[k - 1]
            ELSE Append(rest[k - 1], queue[k])
    IN  rest[Len(queue)]

\* Peer::UpdateNetwork: receive, updatePeers, send.
UpdateNetwork(e) ==
    /\ ~\E o \in Ends : remote[o].timedOut
    /\ e \in waiting
    /\ \E arriving \in SUBSET Deliverable(e) :
        LET reading == Reading(e)
            received == Receive(e, arriving, reading)
            updated == UpdatePeer(e, ProcessHeld(e, received, reading), reading)
            packet == BuildPacket(updated.tx, updated.rx)
            rest == [net EXCEPT ![e] = StillOnTheirWay(@, arriving)]
        IN  /\ Overdue(e) \subseteq arriving
            /\ IF IsDue(updated, reading)
               THEN /\ remote' = [remote EXCEPT ![e] = AfterPacket(updated, packet, reading)]
                    /\ net' = [rest EXCEPT ![Other(e)] =
                                    Append(@, [packet |-> packet, left |-> now])]
               ELSE /\ remote' = [remote EXCEPT ![e] = updated]
                    /\ net' = rest
    /\ waiting' = waiting \ {e}
    /\ UNCHANGED <<now, scenario, disturbed>>

\* The network loses a packet.
Lose(e) ==
    /\ ~\E o \in Ends : remote[o].timedOut
    /\ scenario.losses > 0
    /\ \E i \in DOMAIN net[e] : net' = [net EXCEPT ![e] = RemoveAt(@, i)]
    /\ scenario' = [scenario EXCEPT !.losses = @ - 1]
    /\ disturbed' = disturbed + 1
    /\ UNCHANGED <<now, remote, waiting>>

\* The application of an end does not get to its call in this frame.
Stall(e) ==
    /\ ~\E o \in Ends : remote[o].timedOut
    /\ e \in waiting
    /\ scenario.stalls > 0
    /\ waiting' = waiting \ {e}
    /\ scenario' = [scenario EXCEPT !.stalls = @ - 1]
    /\ disturbed' = disturbed + 1
    /\ UNCHANGED <<now, remote, net>>

\* The next frame.
Tick ==
    /\ waiting = {}
    /\ now < scenario.frames * FrameTime /\ now < MaxFrames * FrameTime
    /\ now' = now + FrameTime
    /\ waiting' = Ends
    /\ UNCHANGED <<scenario, remote, net, disturbed>>

Next ==
    \/ Tick
    \/ \E e \in Ends : SendTo(e) \/ UpdateNetwork(e) \/ Lose(e) \/ Stall(e)

Spec == Init /\ [][Next]_vars

-----------------------------------------------------------------------------
\* Times are earlier readings of the clock of the end they belong to, those in
\* KeepAlives, wherever these are, too.
KeepAlives ==
    LET messages(e) == ToSet(remote[e].tx.m_pendingMessages)
                            \cup {entry.message : entry \in ToSet(remote[e].held)}
                            \cup UNION {ToSet(sent.packet.messages) : sent \in ToSet(net[e])}
    IN  {m \in UNION {messages(e) : e \in Ends} : m.id = "KeepAlive"}

TypeOK ==
    /\ \A e \in Ends :
        LET p == remote[e]
        IN  /\ {p.m_lastAckTime, p.m_lastMessageTime, p.m_lastSend} \subseteq 0 .. Reading(e)
            /\ p.m_seqtrackSent \in [DOMAIN p.m_seqtrackSent -> 0 .. Reading(e)]
            /\ {entry.m_timeStamp : entry \in ToSet(p.held)} \subseteq 0 .. Reading(e)
            /\ {p.m_ping, p.m_rtt} \subseteq 0 .. HalfWord - 1
    /\ \A m \in KeepAlives : m.m_timeStamp \in 0 .. Reading(m.measures)

\* The send times are those of the messages that wait for an acknowledgement:
\* none is left behind by an acknowledged message, for the next one with its
\* sequence to be measured by, and none is missing.
SentTracked ==
    \A e \in Ends :
        DOMAIN remote[e].m_seqtrackSent = {m.m_sequence : m \in ToSet(remote[e].tx.m_reliableMessages)}

\* A message that waits for an acknowledgement has a sequence of its own, and
\* not the 0 that stands for none and would be replaced when it goes out again.
Apart(messages) ==
    \A i, j \in DOMAIN messages : messages[i].m_sequence = messages[j].m_sequence => i = j

Own(messages) == Apart(messages) /\ \A m \in ToSet(messages) : ~IsFresh(m)

SequencesOwn == \A e \in Ends : Own(remote[e].tx.m_reliableMessages)

\* The average stays among the round trips it was made of.
AverageAmongSamples ==
    \A e \in Ends :
        LET measured == {sample.milliseconds : sample \in remote[e].samples}
        IN  measured # {} => remote[e].m_rtt \in Min(measured) .. Max(measured)

Units(time) == (time * Multiplier) \div NanosPerSecond

\* A clock counts whole units: what it shows of a time may be one less, or more.
Way == Units(2 * MinDelay)

\* A round trip that a KeepAlive measures is as long as the way there and back
\* with the fake latency of both ends, and not longer than the connection:
\* however often its answer is put off, no other reading gets into it.
KeepAlivesReal ==
    \A e \in Ends : \A sample \in remote[e].samples :
        sample.source = "KeepAlive" =>
            sample.milliseconds \in
                Way + scenario.latency["client"] + scenario.latency["server"] - 1 .. Units(now) + 1

\* One that an acknowledgement measures includes the network only, and that
\* only as long as no reliable message went out twice.
AcksReal ==
    \A e \in Ends : \A sample \in remote[e].samples :
        sample.source = "Ack" =>
            sample.milliseconds \in (IF remote[e].doubtful THEN 0 ELSE Way) .. Units(now) + 1

\* A connection is given up only after s_connectionTimeout without a message
\* (quicknet_peer.cpp:49, "how much time without receiving
\* reliables/keepalives before dropping").
TimedOutInTime ==
    \A e \in Ends :
        remote[e].timedOut => Units(now - remote[e].heard) + 1 > ConnectionTimeout

\* KeepAlives keep a connection, whatever the applications send and however long
\* messages are held; between ends that send nothing else they keep it also when
\* one of them is lost and a frame skipped.
StaysConnected ==
    disturbed <= scenario.endures => \A e \in Ends : ~remote[e].timedOut
=============================================================================
