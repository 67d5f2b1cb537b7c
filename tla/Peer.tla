-------------------------------- MODULE Peer --------------------------------
(***************************************************************************)
(* The life of connections (quicknet_peer.cpp): servers and their clients, *)
(* discovery, the handshake of ConnectionRequest, ConnectionAnswer with    *)
(* the challenge, its answer and ConnectionSuccess, timeouts and           *)
(* disconnection, the addresses and IDs under which a Peer keeps its       *)
(* RemotePeers, the players it has announced to its application, and the   *)
(* messages its latency faker holds.                                       *)
(*                                                                         *)
(* The methods of Peer are operators from a Peer to a Peer; the packets    *)
(* they send collect in its field out.  One call of UpdateNetwork, or of   *)
(* the application, is one step: a Peer is single-threaded, and what other *)
(* Peers do meanwhile shows only in the packets that arrive.  Game         *)
(* messages are left out (ReliableLink has them).                          *)
(***************************************************************************)
EXTENDS RemotePeer

CONSTANTS
    Servers,           \* the addresses of the servers
    Clients,           \* the addresses of the clients
    DisconnectAmount,  \* how often a DisconnectionRequest is sent, 5 in the code
    Budgets,           \* bounds: the budgets a behaviour may start with
    Batch,             \* bound: packets one receive finds
    Reach              \* how far a packet may overtake others (1: never)

Addresses == Clients \cup Servers

ASSUME PeerAssumption ==
    /\ Servers \cap Clients = {} /\ IsFiniteSet(Servers)
    /\ \A b \in Budgets :
        /\ b.slots \in Nat /\ b.slots < 255
        /\ b.delayed \subseteq Addresses
    /\ DisconnectAmount \in Nat \ {0}
    /\ {Batch, Reach} \subseteq Nat

VARIABLES
    peer,    \* for each address, its Peer
    net,     \* for each address, the packets on their way to it
    budget   \* the m_maxPeers of the servers (slots), the Peers with fake
             \* latency (delayed), and as bounds what may still happen: for
             \* each address, the calls its application may make first, second
             \* and so on; probes; packets lost and duplicated; peers that hear
             \* nothing for s_connectionTimeout and for s_maxWithoutAcks

vars == <<peer, net, budget>>

NoID == 255       \* 0xFF
ServerID == 0     \* s_serverPeerID

States == {"Disconnected", "Searching", "Connecting", "Connected", "ServerMode"}

-----------------------------------------------------------------------------
\* The messages of the protocol; arg stands for the fields that are read.
SystemMessage(id, flags, arg) ==
    [id |-> id, flags |-> flags, arg |-> arg, size |-> 1, m_sequence |-> 0]

\* Mutant: the last message of the handshake is not reliable.
ConnectionSuccessUnreliable == SystemMessage("ConnectionSuccess", {}, 0)

DiscoveryRequest == SystemMessage("DiscoveryRequest", {"unsequenced"}, 0)
DiscoveryAnswer(freeSlots) == SystemMessage("DiscoveryAnswer", {"unsequenced"}, freeSlots)
ConnectionRequest == SystemMessage("ConnectionRequest", {"reliable"}, 0)
ConnectionAnswer(assignedID) == SystemMessage("ConnectionAnswer", {"reliable"}, assignedID)
ConnectionSuccess == SystemMessage("ConnectionSuccess", {"reliable"}, 0)
DisconnectionRequest == SystemMessage("DisconnectionRequest", {}, 0)

\* arg is what m_serverSent says: 1 if the round trip is the server's.
KeepAlive(serverSent) == SystemMessage("KeepAlive", {}, serverSent)

\* RemotePeer::RemotePeer.  The temporary one for an unknown address is
\* Disconnected and in no list.
NewRemotePeer(address, state, assignedID) ==
    [m_address |-> address, m_state |-> state, m_assignedID |-> assignedID,
     tx |-> Sender(1), rx |-> NewReceiver]

UnknownPeer(address) == NewRemotePeer(address, "Disconnected", NoID)

\* A Peer, with the entries its latency faker holds.  Two fields are history:
\* granted, the IDs it took from a ConnectionAnswer, and players, the IDs it
\* announced with OnConnection and not with OnDisconnection since.
NewPeer(state, maxPeers) ==
    [m_state |-> state, m_assignedID |-> NoID, m_peers |-> <<>>, m_addressIDs |-> <<>>,
     m_maxPeers |-> maxPeers, held |-> <<>>, out |-> <<>>, granted |-> {}, players |-> {}]

IsServer(p) == p.m_state = "ServerMode"

Init ==
    /\ budget \in Budgets
    /\ peer = [a \in Addresses |-> IF a \in Servers THEN NewPeer("ServerMode", budget.slots)
                                                   ELSE NewPeer("Disconnected", 1)]
    /\ net = [a \in Addresses |-> <<>>]

-----------------------------------------------------------------------------
\* Peer::sendMessage: a packet of its own, outside the numbering and without
\* acknowledgements.
DirectPacket(message) == [m_ackseq |-> 0, m_ackbits |-> {}, messages |-> <<message>>]

SendPackets(p, packets) == [p EXCEPT !.out = @ \o packets]

SendMessage(p, address, message) ==
    SendPackets(p, <<[to |-> address, packet |-> DirectPacket(message)]>>)

\* Peer::SendTo.
SendTo(p, id, message) ==
    IF id \in DOMAIN p.m_peers
    THEN [p EXCEPT !.m_peers[id].tx = EnqueueMessage(@, message)] ELSE p

\* Mutants: the ID of the server is given away too; a slot whose peer is marked
\* for removal counts as free.
FreePeerIDsFromZero(p) == (0 .. p.m_maxPeers) \ DOMAIN p.m_peers

FreePeerIDsEager(p) ==
    {id \in 1 .. p.m_maxPeers :
        id \in DOMAIN p.m_peers => p.m_peers[id].m_state = "Disconnected"}

\* Peer::findFreePeerID takes the smallest of these.
FreePeerIDs(p) == (1 .. p.m_maxPeers) \ DOMAIN p.m_peers

\* A map with this entry.
Put(map, key, value) ==
    [k \in DOMAIN map \cup {key} |-> IF k = key THEN value ELSE map[k]]

\* Peer::AddPeer of a server and of a client.
InsertPeer(p, remote) ==
    [p EXCEPT !.m_peers = Put(@, remote.m_assignedID, remote),
              !.m_addressIDs = Put(@, remote.m_address, remote.m_assignedID)]

AddClient(p, address) ==
    InsertPeer(p, NewRemotePeer(address, "Connecting", Min(FreePeerIDs(p))))

AddServer(p, address) == InsertPeer(p, NewRemotePeer(address, "ServerMode", ServerID))

\* Peer::ConnectTo, without a look at the state.
ConnectTo(p, address) ==
    SendMessage(AddServer([p EXCEPT !.m_state = "Connecting"], address),
                address, ConnectionRequest)

\* The callbacks to the application.
OnConnection(p, id) == [p EXCEPT !.players = @ \cup {id}]
OnDisconnection(p, id) == [p EXCEPT !.players = @ \ {id}]

\* Peer::DisconnectPeer without its callback: the peer is told and marked,
\* updatePeers removes it.
TellAndMark(p, id, amount) ==
    IF id \notin DOMAIN p.m_peers THEN p
    ELSE LET request == [to |-> p.m_peers[id].m_address,
                         packet |-> DirectPacket(DisconnectionRequest)]
         IN  SendPackets([p EXCEPT !.m_peers[id].m_state = "Disconnected"],
                         [i \in 1 .. amount |-> request])

\* Mutant: only the handler of a DisconnectionRequest calls the application.
DisconnectPeerSilently(p, id, amount) == TellAndMark(p, id, amount)

\* Peer::DisconnectPeer.
DisconnectPeer(p, id, amount) ==
    IF id \in DOMAIN p.m_peers THEN OnDisconnection(TellAndMark(p, id, amount), id) ELSE p

\* A loop over peers: the step is done for each of these IDs, of which m_maxPeers
\* is the last one.
ForEach(ids, step(_, _), p) ==
    LET after[k \in 0 .. p.m_maxPeers + 1] ==
            IF k = 0 THEN p
            ELSE IF k - 1 \in ids THEN step(after[k - 1], k - 1)
            ELSE after[k - 1]
    IN  after[p.m_maxPeers + 1]

DisconnectPeers(p, ids) ==
    ForEach(ids, LAMBDA q, id : DisconnectPeer(q, id, DisconnectAmount), p)

\* Peer::DisconnectAll.
DisconnectAll(p) ==
    LET marked == DisconnectPeers(p, DOMAIN p.m_peers)
    IN  IF IsServer(p) THEN marked
        ELSE [marked EXCEPT !.m_state = "Disconnected", !.m_assignedID = NoID]

\* Peer::FindServers and Peer::SetServerMode.
FindServers(p) ==
    IF IsServer(p) THEN p
    ELSE [(IF p.m_state = "Disconnected" THEN p ELSE DisconnectAll(p))
            EXCEPT !.m_state = "Searching"]

SetServerMode(p, enable) ==
    [(IF p.m_state = "Disconnected" THEN p ELSE DisconnectAll(p))
        EXCEPT !.m_state = IF enable THEN "ServerMode" ELSE "Disconnected"]

-----------------------------------------------------------------------------
\* Peer::addressToPeer, and the RemotePeer found or the temporary one.
AddressToPeer(p, address) ==
    IF address \in DOMAIN p.m_addressIDs /\ p.m_addressIDs[address] \in DOMAIN p.m_peers
    THEN p.m_addressIDs[address] ELSE NoID

RemoteOf(p, id, address) ==
    IF id \in DOMAIN p.m_peers THEN p.m_peers[id] ELSE UnknownPeer(address)

\* Peer::processMessage, one operator per message that has an effect.  The
\* message came from this address, known as id or unknown (NoID).
ProcessDiscoveryRequest(p, address) ==
    IF IsServer(p)
    THEN SendMessage(p, address, DiscoveryAnswer(p.m_maxPeers - Cardinality(DOMAIN p.m_peers)))
    ELSE p

ProcessDiscoveryAnswer(p, address, freeSlots) ==
    IF ~IsServer(p) /\ freeSlots > 0 THEN ConnectTo(p, address) ELSE p

\* Mutant: a client for which there is no slot is not told.
ProcessConnectionRequestUnanswered(p, id, address) ==
    IF ~IsServer(p) \/ id # NoID \/ FreePeerIDs(p) = {} THEN p
    ELSE SendTo(AddClient(p, address), Min(FreePeerIDs(p)),
                ConnectionAnswer(Min(FreePeerIDs(p))))

ProcessConnectionRequest(p, id, address) ==
    IF ~IsServer(p) \/ id # NoID THEN p
    ELSE IF FreePeerIDs(p) = {} THEN SendMessage(p, address, ConnectionAnswer(NoID))
    ELSE SendTo(AddClient(p, address), Min(FreePeerIDs(p)),
                ConnectionAnswer(Min(FreePeerIDs(p))))

\* The challenge is the same in every handshake, so an answer can only be
\* wrong in the ID.
ChallengeAnswered(p, id, assignedID) == assignedID = p.m_peers[id].m_assignedID

ServerProcessConnectionAnswer(p, id, assignedID) ==
    IF id = NoID \/ p.m_peers[id].m_state # "Connecting" THEN p
    ELSE IF ChallengeAnswered(p, id, assignedID)
         THEN LET connected == [p EXCEPT !.m_peers[id].m_state = "Connected"]
              IN  OnConnection(SendTo(connected, id, ConnectionSuccess), id)
         ELSE DisconnectPeer(p, id, 1)

ClientProcessConnectionAnswer(p, assignedID) ==
    IF p.m_state # "Connecting" THEN p
    ELSE IF assignedID = NoID THEN DisconnectAll(p)
    ELSE SendTo([p EXCEPT !.m_assignedID = assignedID, !.granted = @ \cup {assignedID}],
                ServerID, ConnectionAnswer(assignedID))

\* No look at the state of the client.
ProcessConnectionSuccess(p) ==
    IF IsServer(p) THEN p
    ELSE OnConnection([p EXCEPT !.m_state = "Connected"], p.m_assignedID)

\* The answer of a KeepAlive is flagged as the other end's.
ProcessKeepAlive(p, id, serverSent) ==
    IF IsServer(p) <=> serverSent = 1 THEN p
    ELSE SendTo(p, id, KeepAlive(serverSent))

ProcessDisconnectionRequest(p, id, address) ==
    IF ~IsServer(p) THEN DisconnectAll(OnDisconnection(p, p.m_assignedID))
    ELSE IF RemoteOf(p, id, address).m_state = "Disconnected" THEN p
    ELSE DisconnectPeer(OnDisconnection(p, id), id, 0)

ProcessMessage(p, id, address, message) ==
    CASE message.id = "DiscoveryRequest"     -> ProcessDiscoveryRequest(p, address)
      [] message.id = "DiscoveryAnswer"      -> ProcessDiscoveryAnswer(p, address, message.arg)
      [] message.id = "ConnectionRequest"    -> ProcessConnectionRequest(p, id, address)
      [] message.id = "ConnectionAnswer"     ->
            IF IsServer(p) THEN ServerProcessConnectionAnswer(p, id, message.arg)
                           ELSE ClientProcessConnectionAnswer(p, message.arg)
      [] message.id = "ConnectionSuccess"    -> ProcessConnectionSuccess(p)
      [] message.id = "KeepAlive"            -> ProcessKeepAlive(p, id, message.arg)
      [] message.id = "DisconnectionRequest" -> ProcessDisconnectionRequest(p, id, address)

-----------------------------------------------------------------------------
\* A message is processed for the peer it came from, or for none (NoID).  The
\* clocks of the peers that sent something start again: m_lastMessageTime with
\* every message processed (heard), m_lastAckTime with every packet (acked);
\* both start with a new RemotePeer, too.
Process(s, id, address, message) ==
    LET q == ProcessMessage(s.p, id, address, message)
        current == AddressToPeer(q, address)
    IN  [s EXCEPT !.p = q, !.heard = @ \cup {id, current},
                  !.acked = IF id = NoID THEN @ \cup {current} ELSE @]

\* Peer::parseBuffer.  A peer marked Disconnected, or unknown, is read without
\* a sequence check, and reading stops at its first message.  With fake latency
\* the message is held with the address it came from, and reading goes on.
ParseMessage(s, id, address, message, delayed) ==
    LET remote == RemoteOf(s.p, id, address)
        checked == remote.m_state # "Disconnected" /\ ~IsUnsequenced(message)
        sequence == message.m_sequence
        ordered == IsOrderedOnly(message)
        p == IF checked
             THEN [s.p EXCEPT !.m_peers[id].rx = AfterSequenceCheck(@, sequence, ordered)]
             ELSE s.p
        processed == Process([s EXCEPT !.p = p], id, address, message)
    IN  IF s.done THEN s
        ELSE IF checked /\ ~PassesSequenceCheck(remote.rx, sequence, ordered)
             THEN [s EXCEPT !.p = p]
        ELSE IF delayed
             THEN [s EXCEPT !.p = [p EXCEPT !.held =
                                       Append(@, [from |-> address, message |-> message])]]
        ELSE [processed EXCEPT !.done =
                  RemoteOf(processed.p, id, address).m_state = "Disconnected"]

ParseBuffer(s, address, packet, delayed) ==
    LET id == AddressToPeer(s.p, address)
        acknowledged ==
            IF id = NoID THEN s.p
            ELSE [s.p EXCEPT !.m_peers[id].tx =
                    ProcessAckBits(@, packet.m_ackseq, packet.m_ackbits)]
        parsed[k \in 0 .. Len(packet.messages)] ==
            IF k = 0
            THEN [p |-> acknowledged, heard |-> s.heard, acked |-> s.acked \cup {id},
                  done |-> FALSE]
            ELSE ParseMessage(parsed[k - 1], id, address, packet.messages[k], delayed)
    IN  parsed[Len(packet.messages)]

\* Peer::receive: every packet that is there.
ReceiveAll(p, arrived, delayed) ==
    LET received[k \in 0 .. Len(arrived)] ==
            IF k = 0 THEN [p |-> p, heard |-> {}, acked |-> {}, done |-> FALSE]
            ELSE ParseBuffer(received[k - 1], arrived[k].from, arrived[k].packet, delayed)
    IN  received[Len(arrived)]

\* Mutant: an entry keeps a peer instead of an address, here the only one.
ProcessOldestOfAny(s) ==
    LET entry == Head(s.p.held)
        id == IF s.p.m_peers = <<>> THEN NoID ELSE Min(DOMAIN s.p.m_peers)
    IN  Process([s EXCEPT !.p.held = Tail(@)], id, entry.from, entry.message)

\* Peer::updatePeers first processes the oldest of the held messages, for
\* whichever peer has the address by now.
ProcessOldest(s) ==
    LET entry == Head(s.p.held)
    IN  Process([s EXCEPT !.p.held = Tail(@)], AddressToPeer(s.p, entry.from),
                entry.from, entry.message)

ProcessHeld(s, amount) ==
    LET processed[k \in 0 .. amount] == IF k = 0 THEN s ELSE ProcessOldest(processed[k - 1])
    IN  processed[amount]

\* Then peers that timed out are disconnected, those marked are removed, the
\* silent ones of the others get a KeepAlive.
RemovePeers(p, ids) ==
    [p EXCEPT !.m_peers = Restrict(@, DOMAIN @ \ ids),
              !.m_addressIDs = Restrict(@, DOMAIN @ \ {p.m_peers[id].m_address : id \in ids})]

UpdatePeers(p, timedOut, silent) ==
    LET marked == DisconnectPeers(p, timedOut)
        gone == {id \in DOMAIN p.m_peers : marked.m_peers[id].m_state = "Disconnected"}
        kept == RemovePeers(marked, gone)
        keepAlive == KeepAlive(IF IsServer(p) THEN 1 ELSE 0)
    IN  ForEach(silent \ gone, LAMBDA q, id : SendTo(q, id, keepAlive), kept)

\* Peer::send, for the peers whose 50 ms have passed (due).
SendOne(p, id) ==
    LET remote == p.m_peers[id]
        packet == BuildPacket(remote.tx, remote.rx)
        sent == [p EXCEPT !.m_peers[id].tx = AfterSend(@, packet)]
    IN  IF remote.tx.m_pendingMessages = <<>> THEN p
        ELSE IF FitsBuffer(packet)
             THEN SendPackets(sent, <<[to |-> remote.m_address, packet |-> packet]>>)
             ELSE sent

Send(p, due) == ForEach(due, SendOne, p)

-----------------------------------------------------------------------------
\* What a Peer sends goes into the network, the rest into the Peer.
Deliver(queues, a, packets) ==
    LET delivered[k \in 0 .. Len(packets)] ==
            IF k = 0 THEN queues
            ELSE [delivered[k - 1] EXCEPT ![packets[k].to] =
                    Append(@, [from |-> a, packet |-> packets[k].packet])]
    IN  delivered[Len(packets)]

Become(a, p, queues) ==
    /\ peer' = [peer EXCEPT ![a] = [p EXCEPT !.out = <<>>]]
    /\ net' = IF p.out = <<>> THEN queues ELSE Deliver(queues, a, p.out)

\* The packets one receive finds: some of the first ones, in any order.
Arrivals(a) ==
    {order \in UNION {[1 .. k -> 1 .. Reach] : k \in 0 .. Batch} :
        IsInjective(order) /\ \A i \in DOMAIN order : order[i] \in DOMAIN net[a]}

StillOnTheirWay(a, order) ==
    LET left[k \in 0 .. Len(net[a])] ==
            IF k = 0 THEN <<>>
            ELSE IF k \in Range(order) THEN left[k - 1]
            ELSE Append(left[k - 1], net[a][k])
    IN  left[Len(net[a])]

\* The probe of a Peer that searches is broadcast.
Probe(p) ==
    SendPackets(p, SetToSeq({[to |-> server, packet |-> DirectPacket(DiscoveryRequest)] :
                             server \in Servers}))

\* The parts of Peer::UpdateNetwork: the probe and receive, the held messages,
\* and the sending that ends it, which a Peer that searches leaves out.
Receive(a, order, probe) ==
    LET arrived == [i \in DOMAIN order |-> net[a][order[i]]]
    IN  ReceiveAll(IF probe THEN Probe(peer[a]) ELSE peer[a], arrived, a \in budget.delayed)

\* The peers a packet can go to.
Sendable(p) == {id \in DOMAIN p.m_peers : p.m_peers[id].tx.m_pendingMessages # <<>>}

Finish(a, updated, order, due) ==
    Become(a, Send(updated, due), [net EXCEPT ![a] = StillOnTheirWay(a, order)])

\* Peer::UpdateNetwork of a Peer that is not Disconnected.  The clocks decide
\* whether it probes, how many held messages are ready, which peers that were
\* not heard timed out or are silent, and to which a packet is due.
UpdateNetwork(a) ==
    /\ peer[a].m_state # "Disconnected"
    /\ \E order \in Arrivals(a), probe \in BOOLEAN :
        /\ probe => peer[a].m_state = "Searching" /\ budget.probes > 0
        /\ LET received == Receive(a, order, probe)
           IN  \E ready \in 0 .. Len(received.p.held) :
                LET processed == ProcessHeld(received, ready)
                    ids == DOMAIN peer[a].m_peers
                IN  \E timedOut \in SUBSET (ids \ processed.heard),
                       silent \in SUBSET (ids \ processed.acked) :
                    /\ Cardinality(timedOut) <= budget.timeouts
                    /\ Cardinality(silent) <= budget.silences
                    /\ LET updated == UpdatePeers(processed.p, timedOut, silent)
                       IN  \E due \in SUBSET Sendable(updated) :
                            /\ peer[a].m_state = "Searching" => due = {}
                            /\ Finish(a, updated, order, due)
                    /\ budget' = [budget EXCEPT !.timeouts = @ - Cardinality(timedOut),
                                                !.silences = @ - Cardinality(silent),
                                                !.probes = @ - IF probe THEN 1 ELSE 0]

\* The application calls a method of its Peer.
Call(a, method, p) ==
    /\ budget.calls[a] # <<>>
    /\ method \in Head(budget.calls[a])
    /\ Become(a, p, net)
    /\ budget' = [budget EXCEPT !.calls[a] = Tail(@)]

CallFindServers(c) == Call(c, "FindServers", FindServers(peer[c]))
CallConnectTo(c) == \E server \in Servers : Call(c, "ConnectTo", ConnectTo(peer[c], server))
CallDisconnectAll(a) == Call(a, "DisconnectAll", DisconnectAll(peer[a]))
CallSetServerMode(server) ==
    \E enable \in BOOLEAN : Call(server, "SetServerMode", SetServerMode(peer[server], enable))

\* The network loses and duplicates packets.
Lose(a) ==
    /\ budget.losses > 0
    /\ \E i \in DOMAIN net[a] : net' = [net EXCEPT ![a] = RemoveAt(@, i)]
    /\ budget' = [budget EXCEPT !.losses = @ - 1]
    /\ UNCHANGED peer

Duplicate(a) ==
    /\ budget.duplicates > 0
    /\ \E i \in DOMAIN net[a] : net' = [net EXCEPT ![a] = Append(@, @[i])]
    /\ budget' = [budget EXCEPT !.duplicates = @ - 1]
    /\ UNCHANGED peer

Next ==
    \/ \E a \in Addresses : UpdateNetwork(a) \/ CallDisconnectAll(a) \/ Lose(a) \/ Duplicate(a)
    \/ \E c \in Clients : CallFindServers(c) \/ CallConnectTo(c)
    \/ \E server \in Servers : CallSetServerMode(server)

Spec == Init /\ [][Next]_vars

-----------------------------------------------------------------------------
\* For liveness: a call of UpdateNetwork that finds what has arrived and comes
\* when everything is due.
FullUpdate(a) ==
    LET order == [i \in 1 .. Min({Batch, Len(net[a])}) |-> i]
        probe == peer[a].m_state = "Searching" /\ budget.probes > 0
        received == Receive(a, order, probe)
        updated == UpdatePeers(ProcessHeld(received, Len(received.p.held)).p, {}, {})
    IN  /\ peer[a].m_state # "Disconnected"
        /\ Finish(a, updated, order,
                  IF peer[a].m_state = "Searching" THEN {} ELSE Sendable(updated))
        /\ budget' = [budget EXCEPT !.probes = @ - IF probe THEN 1 ELSE 0]

\* The server has given the client a slot and waits for its answer.
Accepted(server, c) ==
    \E id \in DOMAIN peer[server].m_peers :
        /\ peer[server].m_peers[id].m_address = c
        /\ peer[server].m_peers[id].m_state = "Connecting"

\* No message is pending, on its way or held, and this end of a handshake waits
\* for the other.
AllQuiet ==
    \A b \in Addresses : Sendable(peer[b]) = {} /\ net[b] = <<>> /\ peer[b].held = <<>>

InHandshake(a) ==
    IF a \in Servers THEN \E c \in Clients : Accepted(a, c)
                     ELSE peer[a].m_state = "Connecting"

\* s_maxWithoutAcks pass, which is longer than a message is pending, on its way
\* or held; of interest is only the time an end of a handshake waits.
TimelySilence(a) ==
    /\ AllQuiet
    /\ InHandshake(a)
    /\ Finish(a, UpdatePeers(peer[a], {}, DOMAIN peer[a].m_peers), <<>>, {})
    /\ UNCHANGED budget

\* A packet with a numbered message is lost.  A ConnectionRequest and a refusal
\* have no number: they are sent once, and only the timeout helps if they are
\* lost.
LoseNumbered(a) ==
    /\ budget.losses > 0
    /\ \E i \in DOMAIN net[a] :
        /\ Head(net[a][i].packet.messages).m_sequence # 0
        /\ net' = [net EXCEPT ![a] = RemoveAt(@, i)]
    /\ budget' = [budget EXCEPT !.losses = @ - 1]
    /\ UNCHANGED peer

FairNext ==
    \/ \E a \in Addresses :
        UpdateNetwork(a) \/ FullUpdate(a) \/ TimelySilence(a) \/ LoseNumbered(a)
    \/ \E c \in Clients : CallFindServers(c) \/ CallConnectTo(c)

\* The calls of UpdateNetwork that change something: these conditions imply that
\* FullUpdate(a) and TimelySilence(a) are enabled with a step that is no stutter.
HasWork(a) ==
    /\ peer[a].m_state # "Disconnected"
    /\ \/ net[a] # <<>> \/ peer[a].held # <<>>
       \/ peer[a].m_state # "Searching" /\ Sendable(peer[a]) # {}
       \/ peer[a].m_state = "Searching" /\ budget.probes > 0
       \/ \E id \in DOMAIN peer[a].m_peers : peer[a].m_peers[id].m_state = "Disconnected"

IsSilent(a) ==
    /\ AllQuiet
    /\ InHandshake(a)
    /\ peer[a].m_peers # <<>>

\* Every application calls UpdateNetwork for ever, and its clock goes on: weak
\* fairness of FullUpdate and strong fairness of TimelySilence, because what
\* other peers do meanwhile does not end the silence of one, only our waiting
\* for a quiet moment.  The conditions above stand in for ENABLED, which TLC
\* takes very long to evaluate for these actions.
Fairness ==
    \A a \in Addresses :
        /\ []<>~HasWork(a) \/ []<><<FullUpdate(a)>>_vars
        /\ <>[]~IsSilent(a) \/ []<><<TimelySilence(a)>>_vars

FairSpec == Init /\ [][FairNext]_vars /\ Fairness

-----------------------------------------------------------------------------
\* A Peer between two calls: its lists have their types, a server knows
\* clients by IDs from 1 to m_maxPeers and a client knows only its server.
TypeOK ==
    \A a \in Addresses :
        LET p == peer[a]
        IN  /\ p.m_state \in States
            /\ p.m_assignedID \in 0 .. NoID
            /\ p.out = <<>>
            /\ \A entry \in ToSet(p.held) : entry.from \in Addresses
            /\ \A id \in DOMAIN p.m_peers :
                /\ p.m_peers[id].m_state \in States
                /\ p.m_peers[id].m_assignedID = id
                /\ id \in IF a \in Servers THEN 1 .. p.m_maxPeers ELSE {ServerID}

\* The two lists of a Peer mirror each other through every handshake,
\* disconnection and timeout: no address leads to another peer or to none, and
\* no two peers have the same address.
AddressBook ==
    \A a \in Addresses :
        LET p == peer[a]
        IN  /\ \A id \in DOMAIN p.m_peers : AddressToPeer(p, p.m_peers[id].m_address) = id
            /\ \A address \in DOMAIN p.m_addressIDs : AddressToPeer(p, address) # NoID

\* The server takes the client for connected under this ID.
ConnectedAs(server, c, id) ==
    LET p == peer[server]
    IN  /\ id \in DOMAIN p.m_peers
        /\ p.m_peers[id].m_address = c
        /\ p.m_peers[id].m_state = "Connected"

\* What the application of a server was told and what the server knows never
\* part: the players announced and not since reported gone are the connected
\* peers, through timeouts, removals and the reuse of their IDs.
PlayersKnown ==
    \A server \in Servers :
        peer[server].players =
            {id \in DOMAIN peer[server].m_peers : peer[server].m_peers[id].m_state = "Connected"}

\* The server takes a client for connected only under an ID that client
\* was told, whatever packets of earlier connections still arrive or are held
\* by a latency faker.
ConnectedWasGranted ==
    \A server \in Servers, c \in Clients, id \in 1 .. budget.slots :
        ConnectedAs(server, c, id) => id \in peer[c].granted

\* A client that is Connected plays under the ID the server has it connected
\* under, if it has one: m_assignedID "will be our player ID"
\* (quicknet_messagetypes.h:104).
SameID ==
    \A server \in Servers, c \in Clients, id \in 1 .. budget.slots :
        ConnectedAs(server, c, id) /\ peer[c].m_state = "Connected" =>
            peer[c].m_assignedID \in {id, NoID}

\* A slot of the server is not given to another client, and the connection in
\* it goes from Connecting over Connected to Disconnected only, until
\* updatePeers has removed it.
Later(state) ==
    IF state = "Connecting" THEN {"Connecting", "Connected", "Disconnected"}
    ELSE IF state = "Connected" THEN {"Connected", "Disconnected"}
    ELSE {"Disconnected"}

SlotsKept ==
    [][\A server \in Servers :
        \A id \in DOMAIN peer[server].m_peers \cap DOMAIN peer'[server].m_peers :
            LET before == peer[server].m_peers[id]
                after == peer'[server].m_peers[id]
            IN  /\ after.m_address = before.m_address
                /\ after.m_state \in Later(before.m_state)]_vars

\* A handshake that the server has begun is completed at both ends, under the
\* ID the server assigned, although packets of it are lost.
BothConnected(server, c) ==
    \E id \in 1 .. budget.slots :
        /\ ConnectedAs(server, c, id)
        /\ peer[c].m_state = "Connected"
        /\ peer[c].m_assignedID = id

HandshakeCompletes ==
    \A server \in Servers, c \in Clients : Accepted(server, c) ~> BothConnected(server, c)

\* A client does not wait for ever: it gets its connection, or is told that
\* there is none.
ConnectingEnds ==
    \A c \in Clients :
        peer[c].m_state = "Connecting" ~>
            \/ \E server \in Servers : BothConnected(server, c)
            \/ peer[c].m_state = "Disconnected"

\* "clients only allow 1 connection" (quicknet_peer.h:51): no two servers have
\* the same client connected.
OneConnection ==
    \A c \in Clients :
        Cardinality({server \in Servers :
                        \E id \in 1 .. budget.slots : ConnectedAs(server, c, id)}) <= 1
=============================================================================
