----------------------------- MODULE PeerProofs -----------------------------
(***************************************************************************)
(* What Peer keeps in every run, for any servers, clients, slots and       *)
(* budgets: the types, the lists and slots of a server, the players its    *)
(* application was told of, and that a client is connected only under an   *)
(* ID it was told.                                                         *)
(*                                                                         *)
(* First what the methods of a Peer keep, one lemma per operator of Peer:  *)
(* a Peer that is Sound before a call is Sound after it, and every         *)
(* RemotePeer it knew is still there, under the same address, with a state *)
(* that may follow the one it had.  Only updatePeers takes a RemotePeer    *)
(* away.  Then the parts of UpdateNetwork, each a loop over these methods, *)
(* the network, and the theorems.                                          *)
(***************************************************************************)
EXTENDS Peer, RemotePeerProofs, FiniteSetTheorems

MessageIDs ==
    {"DiscoveryRequest", "DiscoveryAnswer", "ConnectionRequest", "ConnectionAnswer",
     "ConnectionSuccess", "KeepAlive", "DisconnectionRequest"}

Messages ==
    [id : MessageIDs, flags : SUBSET {"reliable", "unsequenced"}, arg : 0 .. NoID,
     size : {1}, m_sequence : Sequences16]

\* The messages a Peer sends: only a server answers a discovery, and a client
\* answers a challenge only with an ID it was granted.
Sent(a, granted) ==
    {m \in Messages :
        /\ m.id = "DiscoveryAnswer" => a \in Servers
        /\ m.id = "ConnectionAnswer" /\ a \in Clients => m.arg \in granted}

\* The messages a latency faker may hold, where G says what each Peer was granted.
HeldMessages(G) ==
    {entry \in [from : Addresses, message : Messages] :
        entry.message \in Sent(entry.from, G[entry.from])}

Grants == [Addresses -> SUBSET (0 .. NoID)]

\* The RemotePeers and the Peers whose messages are from M, with entries from H.
Remotes(M) ==
    [m_address : Addresses, m_state : States, m_assignedID : 0 .. NoID,
     tx : Senders(M), rx : Receivers]

Directed(M) == [to : Addresses, packet : Packets(M)]

Peers(M, H) ==
    [m_state : States, m_assignedID : 0 .. NoID,
     m_peers : PartialFunctions(0 .. NoID, Remotes(M)),
     m_addressIDs : PartialFunctions(Addresses, 0 .. NoID),
     m_maxPeers : 0 .. NoID - 1, held : Seq(H), out : Seq(Directed(M)),
     granted : SUBSET (0 .. NoID), players : SUBSET (0 .. NoID)]

\* The two lists of a server mirror each other.
ListsMirror(p) ==
    /\ \A id \in DOMAIN p.m_peers :
        /\ p.m_peers[id].m_address \in DOMAIN p.m_addressIDs
        /\ p.m_addressIDs[p.m_peers[id].m_address] = id
    /\ \A address \in DOMAIN p.m_addressIDs :
        /\ p.m_addressIDs[address] \in DOMAIN p.m_peers
        /\ p.m_peers[p.m_addressIDs[address]].m_address = address

\* The RemotePeers of a server are in its slots, and the clients among those
\* that are connected were granted their IDs.
SlotsSound(p, G) ==
    \A id \in DOMAIN p.m_peers :
        /\ id \in 1 .. p.m_maxPeers
        /\ p.m_peers[id].m_assignedID = id
        /\ p.m_peers[id].m_state \in {"Connecting", "Connected", "Disconnected"}
        /\ p.m_peers[id].m_state = "Connected" /\ p.m_peers[id].m_address \in Clients
            => id \in G[p.m_peers[id].m_address]

\* The players of a server are the peers that are connected.
PlayersSound(p) ==
    \A id \in 0 .. NoID :
        id \in p.players <=> id \in DOMAIN p.m_peers /\ p.m_peers[id].m_state = "Connected"

ServerSound(p, G) ==
    /\ p.m_state \in {"ServerMode", "Disconnected"}
    /\ ListsMirror(p)
    /\ SlotsSound(p, G)
    /\ PlayersSound(p)

\* The only RemotePeer of a client is a server.  An address of it outlives the
\* RemotePeer only if there is another server.
OnlyOneServer == \A s, t \in Servers : s = t

ClientSound(p) ==
    /\ p.m_state # "ServerMode"
    /\ \A id \in DOMAIN p.m_peers :
        /\ id = ServerID
        /\ p.m_peers[id].m_assignedID = ServerID
        /\ p.m_peers[id].m_address \in Servers
        /\ p.m_peers[id].m_address \in DOMAIN p.m_addressIDs
    /\ \A address \in DOMAIN p.m_addressIDs :
        /\ address \in Servers
        /\ p.m_addressIDs[address] = ServerID
        /\ OnlyOneServer => ServerID \in DOMAIN p.m_peers

\* What holds of the Peer at an address all the time, within a call too.
Sound(a, p, G) ==
    /\ p \in Peers(Sent(a, p.granted), HeldMessages(G))
    /\ a \in Servers => ServerSound(p, G)
    /\ a \in Clients => ClientSound(p)

\* What a method does with the RemotePeers.
Keeps(a, p, q) ==
    /\ DOMAIN p.m_peers \subseteq DOMAIN q.m_peers
    /\ p.granted \subseteq q.granted
    /\ IsServer(p) <=> IsServer(q)
    /\ a \in Servers =>
        \A id \in DOMAIN p.m_peers :
            /\ q.m_peers[id].m_address = p.m_peers[id].m_address
            /\ q.m_peers[id].m_state \in Later(p.m_peers[id].m_state)

\* The method of a Sound Peer that runs.
Runs(a, p, G) == Sound(a, p, G) /\ (a \in Servers => IsServer(p))

\* A method ends in a Sound Peer; no entry of the latency faker is lost in it.
Reaches(a, p, q, G) ==
    /\ Sound(a, q, G)
    /\ Keeps(a, p, q)
    /\ DOMAIN p.held \subseteq DOMAIN q.held

-----------------------------------------------------------------------------
LEMMA KeepsTransitive ==
    ASSUME NEW a, NEW p, NEW q, NEW r, Keeps(a, p, q), Keeps(a, q, r)
    PROVE  Keeps(a, p, r)
BY DEF Keeps, Later

\* One call after another.
LEMMA ReachesTransitive ==
    ASSUME NEW a, NEW p, NEW q, NEW r, NEW G, Reaches(a, p, q, G), Reaches(a, q, r, G)
    PROVE  Reaches(a, p, r, G)
BY KeepsTransitive DEF Reaches

LEMMA ReachesItself == ASSUME NEW a, NEW p, NEW G, Sound(a, p, G) PROVE Reaches(a, p, p, G)
BY DEF Reaches, Keeps, Later, Sound, ServerSound, SlotsSound

LEMMA StillRuns ==
    ASSUME NEW a, NEW p, NEW q, NEW G, Runs(a, p, G), Reaches(a, p, q, G)
    PROVE  Runs(a, q, G)
BY DEF Runs, Reaches, Keeps

LEMMA SentRenumbered == ASSUME NEW a, NEW g PROVE Renumbered(Sent(a, g))
BY DEF Renumbered, Sent, Messages

LEMMA SentMonotone == ASSUME NEW a, NEW g, NEW h, g \subseteq h PROVE Sent(a, g) \subseteq Sent(a, h)
BY DEF Sent

LEMMA RemotesMonotone ==
    ASSUME NEW M, NEW N, M \subseteq N PROVE Remotes(M) \subseteq Remotes(N)
BY SendersMonotone DEF Remotes

LEMMA PeersMonotone ==
    ASSUME NEW M, NEW N, M \subseteq N, NEW H, NEW I, H \subseteq I
    PROVE  Peers(M, H) \subseteq Peers(N, I)
<1> SUFFICES ASSUME NEW p \in Peers(M, H) PROVE p \in Peers(N, I)
  OBVIOUS
<1>1. p.m_peers \in PartialFunctions(0 .. NoID, Remotes(N))
  <2>1. p.m_peers \in PartialFunctions(0 .. NoID, Remotes(M))
    BY DEF Peers
  <2> QED
    BY <2>1, RemotesMonotone, PartialFunctionsType
<1>2. p.out \in Seq(Directed(N))
  <2>1. Directed(M) \subseteq Directed(N)
    BY PacketsMonotone DEF Directed
  <2> QED
    BY <2>1, SeqMonotonic DEF Peers
<1>3. p.held \in Seq(I)
  BY SeqMonotonic DEF Peers
<1> QED
  BY <1>1, <1>2, <1>3 DEF Peers

-----------------------------------------------------------------------------
\* A Peer that differs only in what it sends, receives and holds.
SameLists(p, q) ==
    /\ q.m_state = p.m_state
    /\ q.m_addressIDs = p.m_addressIDs
    /\ q.m_maxPeers = p.m_maxPeers
    /\ q.granted = p.granted
    /\ q.players = p.players
    /\ DOMAIN q.m_peers = DOMAIN p.m_peers
    /\ \A id \in DOMAIN p.m_peers :
        /\ q.m_peers[id].m_address = p.m_peers[id].m_address
        /\ q.m_peers[id].m_state = p.m_peers[id].m_state
        /\ q.m_peers[id].m_assignedID = p.m_peers[id].m_assignedID

\* And that holds no less.
SameBooks(p, q) == SameLists(p, q) /\ DOMAIN p.held \subseteq DOMAIN q.held

LEMMA SameListsKeep ==
    ASSUME NEW a, NEW p, NEW q, NEW G, Sound(a, p, G), SameLists(p, q),
           q \in Peers(Sent(a, p.granted), HeldMessages(G))
    PROVE  Sound(a, q, G) /\ Keeps(a, p, q)
<1>1. q.granted = p.granted
  BY DEF SameLists
<1>2. ASSUME a \in Servers PROVE ServerSound(q, G)
  <2>1. ServerSound(p, G)
    BY <1>2 DEF Sound
  <2>2. ListsMirror(q)
    BY <2>1 DEF ServerSound, SameLists, ListsMirror
  <2>3. SlotsSound(q, G)
    BY <2>1 DEF ServerSound, SameLists, SlotsSound
  <2>4. PlayersSound(q)
    BY <2>1 DEF ServerSound, SameLists, PlayersSound
  <2> QED
    BY <2>1, <2>2, <2>3, <2>4 DEF ServerSound, SameLists
<1>3. ASSUME a \in Clients PROVE ClientSound(q)
  <2>1. ClientSound(p)
    BY <1>3 DEF Sound
  <2> QED
    BY <2>1 DEF ClientSound, SameLists
<1>4. Keeps(a, p, q)
  BY DEF Keeps, SameLists, Later, IsServer, Sound, ServerSound, SlotsSound
<1> QED
  BY <1>1, <1>2, <1>3, <1>4 DEF Sound

LEMMA SameBooksReach ==
    ASSUME NEW a, NEW p, NEW q, NEW G, Sound(a, p, G), SameBooks(p, q),
           q \in Peers(Sent(a, p.granted), HeldMessages(G))
    PROVE  Reaches(a, p, q, G)
BY SameListsKeep DEF SameBooks, Reaches

\* The types of the parts of a Peer.
LEMMA PeersOf ==
    ASSUME NEW M, NEW H, NEW p \in Peers(M, H)
    PROVE  /\ DOMAIN p.m_peers \subseteq 0 .. NoID
           /\ p.m_peers \in [DOMAIN p.m_peers -> Remotes(M)]
           /\ DOMAIN p.m_addressIDs \subseteq Addresses
           /\ p.m_addressIDs \in [DOMAIN p.m_addressIDs -> 0 .. NoID]
BY PartialFunctionsType DEF Peers

\* Another RemotePeer in a slot.
LEMMA SetRemoteType ==
    ASSUME NEW M, NEW H, NEW p \in Peers(M, H), NEW id \in DOMAIN p.m_peers,
           NEW remote \in Remotes(M)
    PROVE  LET q == [p EXCEPT !.m_peers[id] = remote]
           IN  /\ q \in Peers(M, H)
               /\ q = [p EXCEPT !.m_peers = [p.m_peers EXCEPT ![id] = remote]]
               /\ q.m_peers = [p.m_peers EXCEPT ![id] = remote]
<1> DEFINE f == [p.m_peers EXCEPT ![id] = remote]
           q == [p EXCEPT !.m_peers[id] = remote]
<1>1. f \in [DOMAIN p.m_peers -> Remotes(M)] /\ DOMAIN f = DOMAIN p.m_peers
  BY PeersOf
<1>2. f \in PartialFunctions(0 .. NoID, Remotes(M))
  BY <1>1, PeersOf, PartialFunctionsType
<1>3. q = [p EXCEPT !.m_peers = f]
  OBVIOUS
<1> HIDE DEF f
<1>4. [p EXCEPT !.m_peers = f] \in Peers(M, H) /\ [p EXCEPT !.m_peers = f].m_peers = f
  BY <1>2 DEF Peers
<1> QED
  BY <1>3, <1>4 DEF f

\* Another send or receive side.
LEMMA SetSenderType ==
    ASSUME NEW M, NEW H, NEW p \in Peers(M, H), NEW id \in DOMAIN p.m_peers,
           NEW tx \in Senders(M), NEW q, q = [p EXCEPT !.m_peers[id].tx = tx]
    PROVE  q \in Peers(M, H) /\ SameBooks(p, q)
<1> DEFINE remote == [p.m_peers[id] EXCEPT !.tx = tx]
<1>1. p.m_peers[id] \in Remotes(M)
  BY PeersOf
<1>2. /\ remote \in Remotes(M) /\ remote.m_address = p.m_peers[id].m_address
      /\ remote.m_state = p.m_peers[id].m_state
      /\ remote.m_assignedID = p.m_peers[id].m_assignedID
  BY <1>1 DEF Remotes
<1> DEFINE changed == [p EXCEPT !.m_peers[id] = remote]
<1>3. q = changed
  OBVIOUS
<1> HIDE DEF remote
<1>4. changed \in Peers(M, H) /\ changed.m_peers = [p.m_peers EXCEPT ![id] = remote]
  BY <1>2, SetRemoteType
<1>5. /\ changed.m_state = p.m_state /\ changed.m_addressIDs = p.m_addressIDs
      /\ changed.m_maxPeers = p.m_maxPeers /\ changed.granted = p.granted
      /\ changed.held = p.held
      /\ changed.players = p.players
  BY DEF Peers
<1> HIDE DEF changed
<1> QED
  BY <1>2, <1>3, <1>4, <1>5 DEF SameBooks, SameLists

LEMMA SetSenderReaches ==
    ASSUME NEW a, NEW p, NEW G, Sound(a, p, G), NEW id \in DOMAIN p.m_peers,
           NEW tx \in Senders(Sent(a, p.granted)), NEW q, q = [p EXCEPT !.m_peers[id].tx = tx]
    PROVE  Reaches(a, p, q, G) /\ SameBooks(p, q)
<1>1. p \in Peers(Sent(a, p.granted), HeldMessages(G))
  BY DEF Sound
<1>2. q \in Peers(Sent(a, p.granted), HeldMessages(G)) /\ SameBooks(p, q)
  BY <1>1, SetSenderType
<1> QED
  BY <1>2, SameBooksReach

LEMMA SetReceiverReaches ==
    ASSUME NEW a, NEW p, NEW G, Sound(a, p, G), NEW id \in DOMAIN p.m_peers, NEW rx \in Receivers
    PROVE  /\ Reaches(a, p, [p EXCEPT !.m_peers[id].rx = rx], G)
           /\ SameBooks(p, [p EXCEPT !.m_peers[id].rx = rx])
<1> DEFINE M == Sent(a, p.granted)
           H == HeldMessages(G)
           remote == [p.m_peers[id] EXCEPT !.rx = rx]
           q == [p EXCEPT !.m_peers[id] = remote]
<1>1. p \in Peers(M, H)
  BY DEF Sound
<1> HIDE DEF M, H
<1>2. p.m_peers[id] \in Remotes(M)
  BY <1>1, PeersOf
<1>3. /\ remote \in Remotes(M) /\ remote.m_address = p.m_peers[id].m_address
      /\ remote.m_state = p.m_peers[id].m_state
      /\ remote.m_assignedID = p.m_peers[id].m_assignedID
  BY <1>2 DEF Remotes
<1>4. [p EXCEPT !.m_peers[id].rx = rx] = q
  OBVIOUS
<1> HIDE DEF remote
<1>5. q \in Peers(M, H) /\ q.m_peers = [p.m_peers EXCEPT ![id] = remote]
  BY <1>1, <1>3, SetRemoteType
<1>6. /\ q.m_state = p.m_state /\ q.m_addressIDs = p.m_addressIDs /\ q.m_maxPeers = p.m_maxPeers
      /\ q.granted = p.granted /\ q.held = p.held /\ q.players = p.players
  BY <1>1 DEF Peers
<1> HIDE DEF q
<1>7. SameBooks(p, q)
  BY <1>3, <1>5, <1>6 DEF SameBooks, SameLists
<1> QED
  BY <1>4, <1>5, <1>7, SameBooksReach DEF M, H

\* Packets out, and other entries in the latency faker.
LEMMA SendPacketsReaches ==
    ASSUME NEW a, NEW p, NEW G, Sound(a, p, G),
           NEW packets \in Seq(Directed(Sent(a, p.granted)))
    PROVE  Reaches(a, p, SendPackets(p, packets), G) /\ SameBooks(p, SendPackets(p, packets))
<1> DEFINE q == SendPackets(p, packets)
           M == Sent(a, p.granted)
           H == HeldMessages(G)
<1>1. p \in Peers(M, H)
  BY DEF Sound
<1>2. p.out \o packets \in Seq(Directed(M))
  BY <1>1, ConcatProperties DEF Peers
<1> HIDE DEF M, H
<1>3. q \in Peers(M, H) /\ SameBooks(p, q)
  BY <1>1, <1>2 DEF SendPackets, Peers, SameBooks, SameLists
<1> QED
  BY <1>3, SameBooksReach DEF M, H

LEMMA HoldReaches ==
    ASSUME NEW a, NEW p, NEW G, Sound(a, p, G), NEW held \in Seq(HeldMessages(G)),
           DOMAIN p.held \subseteq DOMAIN held
    PROVE  /\ Reaches(a, p, [p EXCEPT !.held = held], G)
           /\ SameBooks(p, [p EXCEPT !.held = held])
<1> DEFINE q == [p EXCEPT !.held = held]
           M == Sent(a, p.granted)
           H == HeldMessages(G)
<1>1. p \in Peers(M, H)
  BY DEF Sound
<1> HIDE DEF M
<1>2. q \in Peers(M, H) /\ SameBooks(p, q)
  <2> HIDE DEF H
  <2> QED
    BY <1>1 DEF Peers, SameBooks, SameLists, H
<1> QED
  BY <1>2, SameBooksReach DEF M

-----------------------------------------------------------------------------
\* Every message of the protocol may be sent, two of them only by some.
LEMMA MessagesSent ==
    ASSUME NEW a, NEW g
    PROVE  /\ {DiscoveryRequest, ConnectionRequest, ConnectionSuccess, DisconnectionRequest}
                \subseteq Sent(a, g)
           /\ \A n \in 0 .. NoID :
                /\ KeepAlive(n) \in Sent(a, g)
                /\ a \in Servers => DiscoveryAnswer(n) \in Sent(a, g)
                /\ a \in Servers \/ n \in g => ConnectionAnswer(n) \in Sent(a, g)
<1>1. 0 \in Sequences16 /\ 0 \in 0 .. NoID
  BY SequenceAssumption DEF Sequences16, Modulus, NoID
<1>2. ASSUME NEW id \in MessageIDs, NEW flags \in SUBSET {"reliable", "unsequenced"},
             NEW arg \in 0 .. NoID
      PROVE  /\ SystemMessage(id, flags, arg) \in Messages
             /\ SystemMessage(id, flags, arg).id = id
             /\ SystemMessage(id, flags, arg).arg = arg
  BY <1>1 DEF SystemMessage, Messages
<1>3. \A s \in Servers : s \notin Clients
  BY PeerAssumption
<1> QED
  BY <1>1, <1>2, <1>3
     DEF Sent, MessageIDs, DiscoveryRequest, ConnectionRequest, ConnectionSuccess,
         DisconnectionRequest, KeepAlive, DiscoveryAnswer, ConnectionAnswer

LEMMA DirectPacketType == ASSUME NEW M, NEW m \in M PROVE DirectPacket(m) \in Packets(M)
<1>1. 0 \in Sequences16
  BY SequenceAssumption DEF Sequences16, Modulus
<1>2. <<m>> \in Seq(M)
  OBVIOUS
<1> QED
  BY <1>1, <1>2 DEF DirectPacket, Packets

LEMMA SendMessageReaches ==
    ASSUME NEW a, NEW p, NEW G, Sound(a, p, G), NEW address \in Addresses,
           NEW m \in Sent(a, p.granted)
    PROVE  Reaches(a, p, SendMessage(p, address, m), G)
<1> DEFINE packet == [to |-> address, packet |-> DirectPacket(m)]
<1>1. packet \in Directed(Sent(a, p.granted))
  BY DirectPacketType DEF Directed
<1> HIDE DEF packet
<1>2. <<packet>> \in Seq(Directed(Sent(a, p.granted)))
  BY <1>1
<1> QED
  BY <1>2, SendPacketsReaches DEF SendMessage, packet

LEMMA SendToType ==
    ASSUME NEW M, NEW H, NEW p \in Peers(M, H), NEW id, NEW m \in M,
           NEW q, q = SendTo(p, id, m)
    PROVE  q \in Peers(M, H) /\ SameBooks(p, q)
<1>1. CASE id \notin DOMAIN p.m_peers
  BY <1>1 DEF SendTo, SameBooks, SameLists
<1>2. CASE id \in DOMAIN p.m_peers
  <2> DEFINE tx == EnqueueMessage(p.m_peers[id].tx, m)
  <2>1. p.m_peers[id].tx \in Senders(M)
    <3>1. p.m_peers[id] \in Remotes(M)
      BY <1>2, PeersOf
    <3> QED
      BY <3>1 DEF Remotes
  <2>2. tx \in Senders(M)
    BY <2>1, EnqueueMessageType
  <2>3. q = [p EXCEPT !.m_peers[id].tx = tx]
    BY <1>2 DEF SendTo
  <2> HIDE DEF tx
  <2> QED
    BY <1>2, <2>2, <2>3, SetSenderType
<1> QED
  BY <1>1, <1>2

LEMMA SendToReaches ==
    ASSUME NEW a, NEW p, NEW G, Sound(a, p, G), NEW id, NEW m \in Sent(a, p.granted),
           NEW q, q = SendTo(p, id, m)
    PROVE  Reaches(a, p, q, G) /\ SameBooks(p, q)
<1>1. p \in Peers(Sent(a, p.granted), HeldMessages(G))
  BY DEF Sound
<1>2. q \in Peers(Sent(a, p.granted), HeldMessages(G)) /\ SameBooks(p, q)
  BY <1>1, SendToType
<1> QED
  BY <1>2, SameBooksReach

-----------------------------------------------------------------------------
\* The state of one RemotePeer changes, and the players with it.
LEMMA MarkReaches ==
    ASSUME NEW a, NEW p, NEW q, NEW G, Sound(a, p, G), NEW id \in DOMAIN p.m_peers,
           q \in Peers(Sent(a, p.granted), HeldMessages(G)),
           q.m_state = p.m_state, q.m_addressIDs = p.m_addressIDs,
           q.m_maxPeers = p.m_maxPeers, q.granted = p.granted,
           DOMAIN p.held \subseteq DOMAIN q.held,
           DOMAIN q.m_peers = DOMAIN p.m_peers,
           \A i \in DOMAIN p.m_peers :
            /\ q.m_peers[i].m_address = p.m_peers[i].m_address
            /\ q.m_peers[i].m_assignedID = p.m_peers[i].m_assignedID
            /\ i # id => q.m_peers[i].m_state = p.m_peers[i].m_state,
           a \in Servers =>
            /\ q.m_peers[id].m_state \in {"Connected", "Disconnected"}
            /\ q.m_peers[id].m_state \in Later(p.m_peers[id].m_state)
            /\ \A i \in 0 .. NoID :
                i \in q.players <=> IF i = id THEN q.m_peers[id].m_state = "Connected"
                                              ELSE i \in p.players
            /\ q.m_peers[id].m_state = "Connected" /\ p.m_peers[id].m_address \in Clients
                => id \in G[p.m_peers[id].m_address]
    PROVE  Reaches(a, p, q, G)
<1>1. ASSUME a \in Servers PROVE ServerSound(q, G)
  <2>1. ServerSound(p, G)
    BY <1>1 DEF Sound
  <2>2. ListsMirror(q)
    BY <2>1 DEF ServerSound, ListsMirror
  <2>3. SlotsSound(q, G)
    BY <1>1, <2>1 DEF ServerSound, SlotsSound
  <2>4. PlayersSound(q)
    BY <1>1, <2>1 DEF ServerSound, PlayersSound
  <2> QED
    BY <2>1, <2>2, <2>3, <2>4 DEF ServerSound
<1>2. ASSUME a \in Clients PROVE ClientSound(q)
  BY <1>2 DEF Sound, ClientSound
<1>3. Keeps(a, p, q)
  <2>1. ASSUME a \in Servers, NEW i \in DOMAIN p.m_peers
        PROVE  q.m_peers[i].m_state \in Later(p.m_peers[i].m_state)
    BY <2>1 DEF Later, Sound, ServerSound, SlotsSound
  <2> QED
    BY <2>1 DEF Keeps, IsServer
<1> QED
  BY <1>1, <1>2, <1>3 DEF Reaches, Sound

\* The type of a RemotePeer in another state.
LEMMA SetStateType ==
    ASSUME NEW M, NEW H, NEW p \in Peers(M, H), NEW id \in DOMAIN p.m_peers,
           NEW state \in States, NEW changed, changed = [p EXCEPT !.m_peers[id].m_state = state]
    PROVE  /\ changed \in Peers(M, H)
           /\ DOMAIN changed.m_peers = DOMAIN p.m_peers
           /\ changed.m_peers[id].m_state = state
           /\ \A i \in DOMAIN p.m_peers :
                /\ changed.m_peers[i].m_address = p.m_peers[i].m_address
                /\ changed.m_peers[i].m_assignedID = p.m_peers[i].m_assignedID
                /\ i # id => changed.m_peers[i].m_state = p.m_peers[i].m_state
           /\ changed.m_state = p.m_state /\ changed.m_addressIDs = p.m_addressIDs
           /\ changed.m_maxPeers = p.m_maxPeers /\ changed.granted = p.granted
           /\ changed.held = p.held
           /\ changed.players = p.players
<1> DEFINE remote == [p.m_peers[id] EXCEPT !.m_state = state]
           q == [p EXCEPT !.m_peers[id] = remote]
<1>1. p.m_peers[id] \in Remotes(M)
  BY PeersOf
<1>2. /\ remote \in Remotes(M) /\ remote.m_address = p.m_peers[id].m_address
      /\ remote.m_state = state /\ remote.m_assignedID = p.m_peers[id].m_assignedID
  BY <1>1 DEF Remotes
<1>3. [p EXCEPT !.m_peers[id].m_state = state] = q
  OBVIOUS
<1> HIDE DEF remote
<1>4. /\ q \in Peers(M, H) /\ q.m_peers = [p.m_peers EXCEPT ![id] = remote]
      /\ q = [p EXCEPT !.m_peers = [p.m_peers EXCEPT ![id] = remote]]
  BY <1>2, SetRemoteType
<1>5. /\ q.m_state = p.m_state /\ q.m_addressIDs = p.m_addressIDs /\ q.m_maxPeers = p.m_maxPeers
      /\ q.granted = p.granted /\ q.held = p.held /\ q.players = p.players
  BY DEF Peers
<1> HIDE DEF q
<1> QED
  BY <1>2, <1>3, <1>4, <1>5

\* A RemotePeer that is told and marked.
LEMMA TellAndMarkType ==
    ASSUME NEW M, DisconnectionRequest \in M, NEW H, NEW p \in Peers(M, H),
           NEW id \in DOMAIN p.m_peers, NEW amount \in Nat,
           NEW told, told = TellAndMark(p, id, amount)
    PROVE  /\ told \in Peers(M, H)
           /\ DOMAIN told.m_peers = DOMAIN p.m_peers
           /\ told.m_peers[id].m_state = "Disconnected"
           /\ \A i \in DOMAIN p.m_peers :
                /\ told.m_peers[i].m_address = p.m_peers[i].m_address
                /\ told.m_peers[i].m_assignedID = p.m_peers[i].m_assignedID
                /\ i # id => told.m_peers[i].m_state = p.m_peers[i].m_state
           /\ told.m_state = p.m_state /\ told.m_addressIDs = p.m_addressIDs
           /\ told.m_maxPeers = p.m_maxPeers /\ told.granted = p.granted /\ told.held = p.held
           /\ told.players = p.players
<1> DEFINE request == [to |-> p.m_peers[id].m_address,
                       packet |-> DirectPacket(DisconnectionRequest)]
           requests == [i \in 1 .. amount |-> request]
           marked == [p EXCEPT !.m_peers[id].m_state = "Disconnected"]
<1>1. told = SendPackets(marked, requests)
  BY DEF TellAndMark
<1>2. requests \in Seq(Directed(M))
  <2>1. p.m_peers[id].m_address \in Addresses
    BY PeersOf DEF Remotes
  <2>2. request \in Directed(M)
    BY <2>1, DirectPacketType DEF Directed
  <2> HIDE DEF request
  <2> QED
    BY <2>2
<1>3. "Disconnected" \in States
  BY DEF States
<1> HIDE DEF requests
<1>4. /\ marked \in Peers(M, H)
      /\ DOMAIN marked.m_peers = DOMAIN p.m_peers
      /\ marked.m_peers[id].m_state = "Disconnected"
      /\ \A i \in DOMAIN p.m_peers :
          /\ marked.m_peers[i].m_address = p.m_peers[i].m_address
          /\ marked.m_peers[i].m_assignedID = p.m_peers[i].m_assignedID
          /\ i # id => marked.m_peers[i].m_state = p.m_peers[i].m_state
      /\ marked.m_state = p.m_state /\ marked.m_addressIDs = p.m_addressIDs
      /\ marked.m_maxPeers = p.m_maxPeers /\ marked.granted = p.granted /\ marked.held = p.held
      /\ marked.players = p.players
  BY <1>3, SetStateType
<1> HIDE DEF marked
<1>5. marked.out \o requests \in Seq(Directed(M))
  BY <1>2, <1>4, ConcatProperties DEF Peers
<1>6. /\ told \in Peers(M, H) /\ told.m_peers = marked.m_peers
      /\ told.m_state = p.m_state /\ told.m_addressIDs = p.m_addressIDs
      /\ told.m_maxPeers = p.m_maxPeers /\ told.granted = p.granted /\ told.held = p.held
      /\ told.players = p.players
  BY <1>1, <1>4, <1>5 DEF SendPackets, Peers
<1> QED
  BY <1>4, <1>6

\* A RemotePeer that is disconnected is no player any more; it may have been
\* taken off the players before.
LEMMA DisconnectPeerReaches ==
    ASSUME NEW a, NEW p, NEW G, Sound(a, p, G), NEW id, NEW amount \in Nat,
           NEW q \in Peers(Sent(a, p.granted), HeldMessages(G)), q.m_peers = p.m_peers,
           q.m_state = p.m_state, q.m_addressIDs = p.m_addressIDs,
           q.m_maxPeers = p.m_maxPeers, q.granted = p.granted, q.held = p.held,
           q.players \ {id} = p.players \ {id}, id \in DOMAIN p.m_peers \/ q = p
    PROVE  Reaches(a, p, DisconnectPeer(q, id, amount), G)
<1> DEFINE M == Sent(a, p.granted)
           H == HeldMessages(G)
<1>1. p \in Peers(M, H)
  BY DEF Sound
<1>2. CASE id \notin DOMAIN p.m_peers
  BY <1>2, ReachesItself DEF DisconnectPeer
<1>3. CASE id \in DOMAIN p.m_peers
  <2> DEFINE told == TellAndMark(q, id, amount)
             gone == OnDisconnection(told, id)
  <2>2. DisconnectPeer(q, id, amount) = gone
    BY <1>3 DEF DisconnectPeer
  <2>3. DisconnectionRequest \in M
    BY MessagesSent
  <2>4. q \in Peers(M, H) /\ id \in DOMAIN q.m_peers
    BY <1>3
  <2> HIDE DEF M, H
  <2>5. /\ told \in Peers(M, H)
        /\ DOMAIN told.m_peers = DOMAIN q.m_peers
        /\ told.m_peers[id].m_state = "Disconnected"
        /\ \A i \in DOMAIN q.m_peers :
            /\ told.m_peers[i].m_address = q.m_peers[i].m_address
            /\ told.m_peers[i].m_assignedID = q.m_peers[i].m_assignedID
            /\ i # id => told.m_peers[i].m_state = q.m_peers[i].m_state
        /\ told.m_state = q.m_state /\ told.m_addressIDs = q.m_addressIDs
        /\ told.m_maxPeers = q.m_maxPeers /\ told.granted = q.granted /\ told.held = q.held
        /\ told.players = q.players
    <3>1. told = TellAndMark(q, id, amount)
      OBVIOUS
    <3> HIDE DEF told
    <3> QED
      BY <2>3, <2>4, <3>1, TellAndMarkType
  <2> HIDE DEF told
  <2>6. /\ gone \in Peers(M, H) /\ gone.m_peers = told.m_peers
        /\ gone.m_state = p.m_state /\ gone.m_addressIDs = p.m_addressIDs
        /\ gone.m_maxPeers = p.m_maxPeers /\ gone.granted = p.granted /\ gone.held = p.held
        /\ gone.players = p.players \ {id}
    BY <2>5 DEF OnDisconnection, Peers
  <2> HIDE DEF gone
  <2>7. \A i \in 0 .. NoID : i \in gone.players <=> IF i = id THEN FALSE ELSE i \in p.players
    BY <2>6
  <2>8. a \in Servers => "Disconnected" \in Later(p.m_peers[id].m_state)
    BY DEF Later
  <2> QED
    BY <1>3, <2>2, <2>5, <2>6, <2>7, <2>8, MarkReaches DEF M, H
<1> QED
  BY <1>2, <1>3

LEMMA DisconnectReaches ==
    ASSUME NEW a, NEW p, NEW G, Sound(a, p, G), NEW id, NEW amount \in Nat
    PROVE  Reaches(a, p, DisconnectPeer(p, id, amount), G)
<1>1. p \in Peers(Sent(a, p.granted), HeldMessages(G))
  BY DEF Sound
<1> QED
  BY <1>1, DisconnectPeerReaches

\* The loop of DisconnectPeers.
DisconnectNext(p, k, x) ==
    IF k - 1 \in x.ids THEN DisconnectPeer(p, k - 1, DisconnectAmount) ELSE p

ReachedFrom(p, k, x) == Reaches(x.a, x.p, p, x.G)

Disconnecting == INSTANCE Loops WITH Step <- DisconnectNext, Holds <- ReachedFrom

LEMMA DisconnectPeersReaches ==
    ASSUME NEW a, NEW p, NEW G, Sound(a, p, G), NEW ids
    PROVE  Reaches(a, p, DisconnectPeers(p, ids), G)
<1> DEFINE x == [a |-> a, p |-> p, G |-> G, ids |-> ids]
           N == p.m_maxPeers + 1
           IsAfter(f) == f = [k \in 0 .. p.m_maxPeers + 1 |->
                IF k = 0 THEN p
                ELSE IF k - 1 \in ids THEN DisconnectPeer(f[k - 1], k - 1, DisconnectAmount)
                ELSE f[k - 1]]
           after == CHOOSE f : IsAfter(f)
<1>1. N \in Nat
  <2>1. p.m_maxPeers \in 0 .. NoID - 1
    BY DEF Sound, Peers
  <2> QED
    BY <2>1
<1>2. PICK r : Disconnecting!IsLoop(r, N, p, x)
  BY <1>1, Disconnecting!LoopExists
<1>3. IsAfter(r)
  BY <1>2 DEF Disconnecting!IsLoop, DisconnectNext
<1>4. IsAfter(after)
  BY <1>3
<1>5. Disconnecting!IsLoop(after, N, p, x)
  BY <1>4 DEF Disconnecting!IsLoop, DisconnectNext
<1>6. DisconnectPeers(p, ids) = after[N]
  BY DEF DisconnectPeers, ForEach
<1> HIDE DEF after
<1>7. ReachedFrom(p, 0, x)
  BY ReachesItself DEF ReachedFrom
<1>8. \A k \in 1 .. N : \A s : ReachedFrom(s, k - 1, x) => ReachedFrom(DisconnectNext(s, k, x), k, x)
  <2> SUFFICES ASSUME NEW k \in 1 .. N, NEW s, Reaches(a, p, s, G)
               PROVE  Reaches(a, p, DisconnectNext(s, k, x), G)
    BY DEF ReachedFrom
  <2>1. DisconnectAmount \in Nat
    BY PeerAssumption
  <2>2. Reaches(a, s, DisconnectPeer(s, k - 1, DisconnectAmount), G)
    BY <2>1, DisconnectReaches DEF Reaches
  <2> QED
    BY <2>2, ReachesTransitive DEF DisconnectNext
<1>9. \A k \in 0 .. N : ReachedFrom(after[k], k, x)
  <2> HIDE DEF x, N
  <2> QED
    BY <1>1, <1>5, <1>7, <1>8, Disconnecting!LoopInvariant
<1> QED
  BY <1>1, <1>6, <1>9 DEF ReachedFrom

\* What a call does with the RemotePeers, removals included.
Evolves(a, p, q) ==
    /\ p.granted \subseteq q.granted
    /\ a \in Servers =>
        \A id \in DOMAIN p.m_peers \cap DOMAIN q.m_peers :
            /\ q.m_peers[id].m_address = p.m_peers[id].m_address
            /\ q.m_peers[id].m_state \in Later(p.m_peers[id].m_state)

LEMMA ReachesEvolves ==
    ASSUME NEW a, NEW p, NEW q, NEW G, Reaches(a, p, q, G) PROVE Evolves(a, p, q)
BY DEF Reaches, Keeps, Evolves

LEMMA EvolvesAfterReaches ==
    ASSUME NEW a, NEW p, NEW q, NEW r, NEW G, Reaches(a, p, q, G), Evolves(a, q, r)
    PROVE  Evolves(a, p, r)
BY DEF Reaches, Keeps, Evolves, Later

\* The Peer's own state changes.
LEMMA OwnStateReaches ==
    ASSUME NEW a \in Addresses, NEW p, NEW q, NEW G, Sound(a, p, G),
           q \in Peers(Sent(a, p.granted), HeldMessages(G)),
           q.m_peers = p.m_peers, q.m_addressIDs = p.m_addressIDs,
           q.m_maxPeers = p.m_maxPeers, q.granted = p.granted, q.held = p.held,
           a \in Servers => q.players = p.players,
           a \in Servers => q.m_state \in {"ServerMode", "Disconnected"},
           a \in Clients => q.m_state # "ServerMode"
    PROVE  /\ Sound(a, q, G)
           /\ Evolves(a, p, q)
           /\ (IsServer(p) <=> IsServer(q)) => Reaches(a, p, q, G)
<1>1. ASSUME a \in Servers PROVE ServerSound(q, G)
  BY <1>1 DEF Sound, ServerSound, ListsMirror, SlotsSound, PlayersSound
<1>2. ASSUME a \in Clients PROVE ClientSound(q)
  BY <1>2 DEF Sound, ClientSound
<1>3. ASSUME a \in Servers, NEW id \in DOMAIN p.m_peers
      PROVE  q.m_peers[id].m_state \in Later(p.m_peers[id].m_state)
  BY <1>3 DEF Sound, ServerSound, SlotsSound, Later
<1> QED
  BY <1>1, <1>2, <1>3 DEF Sound, Evolves, Reaches, Keeps

LEMMA DisconnectAllReaches ==
    ASSUME NEW a \in Addresses, NEW p, NEW G, Sound(a, p, G)
    PROVE  Reaches(a, p, DisconnectAll(p), G)
<1> DEFINE marked == DisconnectPeers(p, DOMAIN p.m_peers)
           q == [marked EXCEPT !.m_state = "Disconnected", !.m_assignedID = NoID]
<1>1. Reaches(a, p, marked, G)
  BY DisconnectPeersReaches
<1>2. CASE IsServer(p)
  BY <1>1, <1>2 DEF DisconnectAll
<1>3. CASE ~IsServer(p)
  <2>1. DisconnectAll(p) = q
    BY <1>3 DEF DisconnectAll
  <2> HIDE DEF marked
  <2>2. Sound(a, marked, G) /\ ~IsServer(marked)
    BY <1>1, <1>3 DEF Reaches, Keeps
  <2>3. marked \in Peers(Sent(a, marked.granted), HeldMessages(G))
    BY <2>2 DEF Sound
  <2> DEFINE M == Sent(a, marked.granted)
             H == HeldMessages(G)
  <2> HIDE DEF M, H
  <2>4. /\ q \in Peers(M, H)
        /\ q.m_peers = marked.m_peers /\ q.m_addressIDs = marked.m_addressIDs
        /\ q.m_maxPeers = marked.m_maxPeers /\ q.granted = marked.granted
        /\ q.held = marked.held
        /\ q.players = marked.players /\ q.m_state = "Disconnected"
    <3>1. "Disconnected" \in States /\ NoID \in 0 .. NoID /\ marked \in Peers(M, H)
      BY <2>3 DEF States, NoID, M, H
    <3> QED
      BY <3>1 DEF Peers
  <2> HIDE DEF q
  <2>5. ~IsServer(q)
    BY <2>4 DEF IsServer
  <2>6. Reaches(a, marked, q, G)
    BY <2>2, <2>4, <2>5, OwnStateReaches DEF M, H
  <2> QED
    BY <1>1, <2>1, <2>6, ReachesTransitive
<1> QED
  BY <1>2, <1>3

-----------------------------------------------------------------------------
\* A map with one more entry.
LEMMA PutType ==
    ASSUME NEW S, NEW T, NEW f \in PartialFunctions(S, T), NEW key \in S, NEW value \in T
    PROVE  Put(f, key, value) \in PartialFunctions(S, T)
<1> DEFINE g == Put(f, key, value)
<1>1. DOMAIN f \subseteq S /\ f \in [DOMAIN f -> T]
  BY PartialFunctionsType
<1>2. g = [k \in DOMAIN f \cup {key} |-> IF k = key THEN value ELSE f[k]]
  BY DEF Put
<1> HIDE DEF g
<1>3. g \in [DOMAIN f \cup {key} -> T]
  BY <1>1, <1>2
<1>4. DOMAIN f \cup {key} \in SUBSET S
  BY <1>1
<1>5. g \in PartialFunctions(S, T)
  BY <1>3, <1>4 DEF PartialFunctions
<1> QED
  BY <1>5 DEF g

LEMMA NewRemotePeerType ==
    ASSUME NEW M, NEW address \in Addresses, NEW state \in States, NEW assignedID \in 0 .. NoID,
           NEW remote, remote = NewRemotePeer(address, state, assignedID)
    PROVE  /\ remote \in Remotes(M) /\ remote.m_address = address
           /\ remote.m_state = state /\ remote.m_assignedID = assignedID
BY SenderType, NewReceiverType DEF NewRemotePeer, Remotes

LEMMA InsertPeerType ==
    ASSUME NEW M, NEW H, NEW p \in Peers(M, H), NEW remote \in Remotes(M),
           NEW id, id = remote.m_assignedID,
           NEW q, q = InsertPeer(p, remote)
    PROVE  /\ q \in Peers(M, H)
           /\ DOMAIN q.m_peers = DOMAIN p.m_peers \cup {id}
           /\ q.m_peers[id] = remote
           /\ \A i \in DOMAIN p.m_peers : i # id => q.m_peers[i] = p.m_peers[i]
           /\ DOMAIN q.m_addressIDs = DOMAIN p.m_addressIDs \cup {remote.m_address}
           /\ q.m_addressIDs[remote.m_address] = id
           /\ \A i \in DOMAIN p.m_addressIDs :
                i # remote.m_address => q.m_addressIDs[i] = p.m_addressIDs[i]
           /\ q.m_state = p.m_state /\ q.m_maxPeers = p.m_maxPeers
           /\ q.granted = p.granted /\ q.held = p.held /\ q.players = p.players
<1> DEFINE peers == Put(p.m_peers, id, remote)
           addressIDs == Put(p.m_addressIDs, remote.m_address, id)
<1>1. /\ p.m_peers \in PartialFunctions(0 .. NoID, Remotes(M))
      /\ p.m_addressIDs \in PartialFunctions(Addresses, 0 .. NoID)
      /\ id \in 0 .. NoID /\ remote.m_address \in Addresses
  BY DEF Peers, Remotes
<1>2. /\ peers \in PartialFunctions(0 .. NoID, Remotes(M))
      /\ addressIDs \in PartialFunctions(Addresses, 0 .. NoID)
  BY <1>1, PutType
<1>3. /\ DOMAIN peers = DOMAIN p.m_peers \cup {id}
      /\ peers[id] = remote
      /\ \A i \in DOMAIN p.m_peers : i # id => peers[i] = p.m_peers[i]
      /\ DOMAIN addressIDs = DOMAIN p.m_addressIDs \cup {remote.m_address}
      /\ addressIDs[remote.m_address] = id
      /\ \A i \in DOMAIN p.m_addressIDs :
            i # remote.m_address => addressIDs[i] = p.m_addressIDs[i]
  BY DEF Put
<1>4. q = [p EXCEPT !.m_peers = peers, !.m_addressIDs = addressIDs]
  BY DEF InsertPeer
<1> HIDE DEF peers, addressIDs
<1>5. /\ q \in Peers(M, H) /\ q.m_peers = peers /\ q.m_addressIDs = addressIDs
      /\ q.m_state = p.m_state /\ q.m_maxPeers = p.m_maxPeers
      /\ q.granted = p.granted /\ q.held = p.held /\ q.players = p.players
  BY <1>2, <1>3, <1>4 DEF Peers
<1> QED
  BY <1>2, <1>3, <1>5

\* A client that knows its server again, or for the first time.
LEMMA AddServerReaches ==
    ASSUME NEW a \in Clients, NEW p, NEW G, Sound(a, p, G), NEW address \in Servers
    PROVE  Reaches(a, p, AddServer(p, address), G)
<1> DEFINE remote == NewRemotePeer(address, "ServerMode", ServerID)
           q == InsertPeer(p, remote)
           M == Sent(a, p.granted)
           H == HeldMessages(G)
<1>1. address \in Addresses /\ a \notin Servers
  BY PeerAssumption DEF Addresses
<1>2. "ServerMode" \in States /\ ServerID \in 0 .. NoID
  BY DEF States, ServerID, NoID
<1>3. /\ remote \in Remotes(M) /\ remote.m_address = address
      /\ remote.m_state = "ServerMode" /\ remote.m_assignedID = ServerID
  BY <1>1, <1>2, NewRemotePeerType
<1>4. p \in Peers(M, H)
  BY DEF Sound
<1>5. AddServer(p, address) = q
  BY DEF AddServer
<1> HIDE DEF remote
<1> HIDE DEF M, H
<1>6. /\ q \in Peers(M, H)
      /\ DOMAIN q.m_peers = DOMAIN p.m_peers \cup {ServerID}
      /\ q.m_peers[ServerID] = remote
      /\ \A i \in DOMAIN p.m_peers : i # ServerID => q.m_peers[i] = p.m_peers[i]
      /\ DOMAIN q.m_addressIDs = DOMAIN p.m_addressIDs \cup {address}
      /\ q.m_addressIDs[address] = ServerID
      /\ \A i \in DOMAIN p.m_addressIDs : i # address => q.m_addressIDs[i] = p.m_addressIDs[i]
      /\ q.m_state = p.m_state /\ q.granted = p.granted /\ q.held = p.held
  BY <1>3, <1>4, InsertPeerType
<1> HIDE DEF q
<1>7. ClientSound(p)
  BY DEF Sound
<1>8. ClientSound(q)
  BY <1>3, <1>6, <1>7 DEF ClientSound
<1>9. Keeps(a, p, q)
  BY <1>1, <1>6 DEF Keeps, IsServer
<1> QED
  BY <1>1, <1>5, <1>6, <1>8, <1>9 DEF Reaches, Sound, M, H

\* A slot that is free, and the address of nobody.
LEMMA AddClientReaches ==
    ASSUME NEW a \in Servers, NEW p, NEW G, Sound(a, p, G), NEW address \in Addresses,
           AddressToPeer(p, address) = NoID, FreePeerIDs(p) # {}
    PROVE  /\ Min(FreePeerIDs(p)) \in 1 .. p.m_maxPeers
           /\ Min(FreePeerIDs(p)) \in 0 .. NoID
           /\ Reaches(a, p, AddClient(p, address), G)
           /\ AddClient(p, address).granted = p.granted
<1> DEFINE id == Min(FreePeerIDs(p))
           remote == NewRemotePeer(address, "Connecting", id)
           q == InsertPeer(p, remote)
           M == Sent(a, p.granted)
           H == HeldMessages(G)
<1>1. p \in Peers(M, H) /\ ServerSound(p, G) /\ a \notin Clients
  BY PeerAssumption DEF Sound
<1>2. p.m_maxPeers \in 0 .. NoID - 1
  BY <1>1 DEF Peers
<1>3. id \in 1 .. p.m_maxPeers /\ id \notin DOMAIN p.m_peers
  <2>1. FreePeerIDs(p) \in SUBSET Nat
    BY DEF FreePeerIDs
  <2>2. Min(FreePeerIDs(p)) \in FreePeerIDs(p)
    BY <2>1, MinOfNats
  <2> QED
    BY <2>2 DEF FreePeerIDs
<1>4. AddClient(p, address) = q
  BY DEF AddClient
<1> HIDE DEF id
<1>5. id \in 0 .. NoID /\ "Connecting" \in States
  BY <1>2, <1>3 DEF States, NoID
<1>6. /\ remote \in Remotes(M) /\ remote.m_address = address
      /\ remote.m_state = "Connecting" /\ remote.m_assignedID = id
  BY <1>5, NewRemotePeerType
<1> HIDE DEF remote
<1> HIDE DEF M, H
<1>7. /\ q \in Peers(M, H)
      /\ DOMAIN q.m_peers = DOMAIN p.m_peers \cup {id}
      /\ q.m_peers[id] = remote
      /\ \A i \in DOMAIN p.m_peers : i # id => q.m_peers[i] = p.m_peers[i]
      /\ DOMAIN q.m_addressIDs = DOMAIN p.m_addressIDs \cup {address}
      /\ q.m_addressIDs[address] = id
      /\ \A i \in DOMAIN p.m_addressIDs : i # address => q.m_addressIDs[i] = p.m_addressIDs[i]
      /\ q.m_state = p.m_state /\ q.m_maxPeers = p.m_maxPeers
      /\ q.granted = p.granted /\ q.held = p.held /\ q.players = p.players
  BY <1>1, <1>6, InsertPeerType
<1> HIDE DEF q
<1>8. \A i \in DOMAIN p.m_peers : i # id
  BY <1>3
<1>9. address \notin DOMAIN p.m_addressIDs
  <2>1. \A i \in DOMAIN p.m_peers : i # NoID
    BY <1>1, <1>2 DEF ServerSound, SlotsSound, NoID
  <2> QED
    BY <1>1, <2>1 DEF ServerSound, ListsMirror, AddressToPeer
<1>10. ListsMirror(q)
  BY <1>1, <1>6, <1>7, <1>8, <1>9 DEF ServerSound, ListsMirror
<1>11. SlotsSound(q, G)
  BY <1>1, <1>3, <1>6, <1>7, <1>8 DEF ServerSound, SlotsSound
<1>12. PlayersSound(q)
  BY <1>1, <1>3, <1>6, <1>7, <1>8 DEF ServerSound, PlayersSound
<1>13. Keeps(a, p, q)
  BY <1>1, <1>7, <1>8 DEF Keeps, IsServer, Later, ServerSound, SlotsSound
<1>14. ServerSound(q, G)
  BY <1>1, <1>7, <1>10, <1>11, <1>12 DEF ServerSound
<1> QED
  BY <1>1, <1>3, <1>4, <1>5, <1>7, <1>13, <1>14 DEF Reaches, Sound, M, H, id

-----------------------------------------------------------------------------
\* Whom a message came from: the RemotePeer with the address, or nobody.
Knows(a, p, id, address) ==
    IF id = NoID THEN AddressToPeer(p, address) = NoID
    ELSE /\ id \in DOMAIN p.m_peers
         /\ a \in Servers => p.m_peers[id].m_address = address

LEMMA EitherKind ==
    ASSUME NEW a \in Addresses, NEW p, NEW G, Runs(a, p, G)
    PROVE  /\ a \in Servers <=> IsServer(p)
           /\ a \in Clients <=> ~IsServer(p)
BY PeerAssumption DEF Addresses, Runs, Sound, ClientSound, IsServer

LEMMA NoIDUnused ==
    ASSUME NEW a \in Addresses, NEW p, NEW G, Sound(a, p, G)
    PROVE  NoID \notin DOMAIN p.m_peers
<1>1. p.m_maxPeers \in 0 .. NoID - 1
  BY DEF Sound, Peers
<1> QED
  BY <1>1 DEF Sound, ServerSound, SlotsSound, ClientSound, Addresses, ServerID, NoID

LEMMA ProcessDiscoveryRequestReaches ==
    ASSUME NEW a \in Addresses, NEW p, NEW G, Runs(a, p, G), NEW address \in Addresses
    PROVE  Reaches(a, p, ProcessDiscoveryRequest(p, address), G)
<1>1. Sound(a, p, G)
  BY DEF Runs
<1>2. CASE IsServer(p)
  <2> DEFINE n == p.m_maxPeers - Cardinality(DOMAIN p.m_peers)
  <2>1. a \in Servers
    BY <1>2, EitherKind
  <2>2. p.m_maxPeers \in 0 .. NoID - 1
    BY <1>1 DEF Sound, Peers
  <2>3. DOMAIN p.m_peers \subseteq 1 .. p.m_maxPeers
    BY <1>1, <2>1 DEF Sound, ServerSound, SlotsSound
  <2>4. IsFiniteSet(1 .. p.m_maxPeers) /\ Cardinality(1 .. p.m_maxPeers) = p.m_maxPeers
    BY <2>2, FS_Interval
  <2>5. Cardinality(DOMAIN p.m_peers) \in 0 .. p.m_maxPeers
    BY <2>2, <2>3, <2>4, FS_Subset, FS_CardinalityType
  <2>6. n \in 0 .. NoID
    <3> DEFINE known == Cardinality(DOMAIN p.m_peers)
               slots == p.m_maxPeers
    <3>1. known \in 0 .. slots /\ slots \in 0 .. NoID - 1
      BY <2>2, <2>5
    <3> HIDE DEF known, slots
    <3>2. slots - known \in 0 .. NoID
      BY <3>1 DEF NoID
    <3> QED
      BY <3>2 DEF known, slots
  <2>7. DiscoveryAnswer(n) \in Sent(a, p.granted)
    BY <2>1, <2>6, MessagesSent
  <2> HIDE DEF n
  <2>8. ProcessDiscoveryRequest(p, address) = SendMessage(p, address, DiscoveryAnswer(n))
    BY <1>2 DEF ProcessDiscoveryRequest, n
  <2> QED
    BY <1>1, <2>7, <2>8, SendMessageReaches
<1>3. CASE ~IsServer(p)
  BY <1>1, <1>3, ReachesItself DEF ProcessDiscoveryRequest
<1> QED
  BY <1>2, <1>3

LEMMA ConnectToReaches ==
    ASSUME NEW a \in Clients, NEW p, NEW G, Sound(a, p, G), NEW address \in Servers
    PROVE  Reaches(a, p, ConnectTo(p, address), G)
<1> DEFINE M == Sent(a, p.granted)
           H == HeldMessages(G)
           connecting == [p EXCEPT !.m_state = "Connecting"]
           added == AddServer(connecting, address)
<1>1. a \in Addresses /\ a \notin Servers /\ address \in Addresses
  BY PeerAssumption DEF Addresses
<1>2. p \in Peers(M, H)
  BY DEF Sound
<1> HIDE DEF M, H
<1>3. /\ connecting \in Peers(M, H) /\ connecting.m_peers = p.m_peers
      /\ connecting.m_addressIDs = p.m_addressIDs /\ connecting.m_maxPeers = p.m_maxPeers
      /\ connecting.granted = p.granted /\ connecting.held = p.held
      /\ connecting.players = p.players
      /\ connecting.m_state = "Connecting"
  BY <1>2 DEF Peers, States
<1>4. ConnectTo(p, address) = SendMessage(added, address, ConnectionRequest)
  BY DEF ConnectTo
<1> HIDE DEF connecting
<1>5. Reaches(a, p, connecting, G)
  <2>1. ~IsServer(p) /\ ~IsServer(connecting)
    BY <1>3 DEF Sound, ClientSound, IsServer
  <2> QED
    BY <1>1, <1>3, <2>1, OwnStateReaches DEF M, H
<1>6. Reaches(a, connecting, added, G)
  BY <1>5, AddServerReaches DEF Reaches
<1> HIDE DEF added
<1>7. Reaches(a, added, SendMessage(added, address, ConnectionRequest), G)
  BY <1>1, <1>6, SendMessageReaches, MessagesSent DEF Reaches
<1> QED
  BY <1>4, <1>5, <1>6, <1>7, ReachesTransitive

LEMMA ProcessConnectionRequestReaches ==
    ASSUME NEW a \in Addresses, NEW p, NEW G, Runs(a, p, G), NEW address \in Addresses,
           NEW id, Knows(a, p, id, address)
    PROVE  Reaches(a, p, ProcessConnectionRequest(p, id, address), G)
<1>1. Sound(a, p, G)
  BY DEF Runs
<1>2. CASE ~IsServer(p) \/ id # NoID
  BY <1>1, <1>2, ReachesItself DEF ProcessConnectionRequest
<1>3. CASE IsServer(p) /\ id = NoID /\ FreePeerIDs(p) = {}
  <2>1. a \in Servers /\ NoID \in 0 .. NoID
    BY <1>3, EitherKind DEF NoID
  <2>2. ConnectionAnswer(NoID) \in Sent(a, p.granted)
    BY <2>1, MessagesSent
  <2> QED
    BY <1>1, <1>3, <2>2, SendMessageReaches DEF ProcessConnectionRequest
<1>4. CASE IsServer(p) /\ id = NoID /\ FreePeerIDs(p) # {}
  <2> DEFINE free == Min(FreePeerIDs(p))
             q == AddClient(p, address)
             r == SendTo(q, free, ConnectionAnswer(free))
  <2>1. a \in Servers
    BY <1>4, EitherKind
  <2>2. AddressToPeer(p, address) = NoID
    BY <1>4 DEF Knows
  <2>3. free \in 0 .. NoID /\ Reaches(a, p, q, G)
    BY <1>1, <1>4, <2>1, <2>2, AddClientReaches
  <2>4. ProcessConnectionRequest(p, id, address) = r
    BY <1>4 DEF ProcessConnectionRequest
  <2> HIDE DEF free, q
  <2>5. ConnectionAnswer(free) \in Sent(a, q.granted)
    BY <2>1, <2>3, MessagesSent
  <2>6. Reaches(a, q, r, G)
    BY <2>3, <2>5, SendToReaches DEF Reaches
  <2> QED
    BY <2>3, <2>4, <2>6, ReachesTransitive
<1> QED
  BY <1>2, <1>3, <1>4

\* A client is connected under the ID it answers with, which it was granted.
LEMMA ServerProcessConnectionAnswerReaches ==
    ASSUME NEW a \in Servers, NEW p, NEW G, Sound(a, p, G), NEW address \in Addresses,
           NEW id, Knows(a, p, id, address), NEW assignedID,
           address \in Clients => assignedID \in G[address]
    PROVE  Reaches(a, p, ServerProcessConnectionAnswer(p, id, assignedID), G)
<1>1. CASE id = NoID \/ p.m_peers[id].m_state # "Connecting"
  BY <1>1, ReachesItself DEF ServerProcessConnectionAnswer
<1>2. CASE id # NoID /\ p.m_peers[id].m_state = "Connecting"
  <2>1. id \in DOMAIN p.m_peers /\ p.m_peers[id].m_address = address
    BY <1>2 DEF Knows
  <2>2. CASE ~ChallengeAnswered(p, id, assignedID)
    BY <1>2, <2>2, DisconnectReaches DEF ServerProcessConnectionAnswer
  <2>3. CASE ChallengeAnswered(p, id, assignedID)
    <3> DEFINE M == Sent(a, p.granted)
               H == HeldMessages(G)
               connected == [p EXCEPT !.m_peers[id].m_state = "Connected"]
               told == SendTo(connected, id, ConnectionSuccess)
               q == OnConnection(told, id)
    <3>1. p \in Peers(M, H) /\ ConnectionSuccess \in M /\ "Connected" \in States
      BY MessagesSent DEF Sound, States
    <3>2. ServerProcessConnectionAnswer(p, id, assignedID) = q
      BY <1>2, <2>3 DEF ServerProcessConnectionAnswer
    <3>3. id \in 0 .. NoID
      BY <2>1, <3>1, PeersOf
    <3>4. address \in Clients => id \in G[address]
      <4>1. p.m_peers[id].m_assignedID = id
        BY <2>1 DEF Sound, ServerSound, SlotsSound
      <4> QED
        BY <2>3, <4>1 DEF ChallengeAnswered
    <3> HIDE DEF M, H
    <3>5. connected = [p EXCEPT !.m_peers[id].m_state = "Connected"]
      OBVIOUS
    <3> HIDE DEF connected
    <3>6. /\ connected \in Peers(M, H)
          /\ DOMAIN connected.m_peers = DOMAIN p.m_peers
          /\ connected.m_peers[id].m_state = "Connected"
          /\ \A i \in DOMAIN p.m_peers :
               /\ connected.m_peers[i].m_address = p.m_peers[i].m_address
               /\ connected.m_peers[i].m_assignedID = p.m_peers[i].m_assignedID
               /\ i # id => connected.m_peers[i].m_state = p.m_peers[i].m_state
          /\ connected.m_state = p.m_state /\ connected.m_addressIDs = p.m_addressIDs
          /\ connected.m_maxPeers = p.m_maxPeers /\ connected.granted = p.granted
          /\ connected.held = p.held
          /\ connected.players = p.players
      BY <2>1, <3>1, <3>5, SetStateType
    <3>7. told \in Peers(M, H) /\ SameBooks(connected, told)
      BY <3>1, <3>6, SendToType
    <3> HIDE DEF told
    <3>8. /\ q \in Peers(M, H) /\ q.m_peers = told.m_peers /\ q.m_state = told.m_state
          /\ q.m_addressIDs = told.m_addressIDs /\ q.m_maxPeers = told.m_maxPeers
          /\ q.granted = told.granted /\ q.held = told.held
          /\ q.players = told.players \cup {id}
      BY <3>3, <3>7 DEF OnConnection, Peers
    <3> HIDE DEF q
    <3>9. /\ q.m_state = p.m_state /\ q.m_addressIDs = p.m_addressIDs
          /\ q.m_maxPeers = p.m_maxPeers /\ q.granted = p.granted
          /\ DOMAIN p.held \subseteq DOMAIN q.held
          /\ q.players = p.players \cup {id}
          /\ DOMAIN q.m_peers = DOMAIN p.m_peers
          /\ q.m_peers[id].m_state = "Connected"
          /\ \A i \in DOMAIN p.m_peers :
               /\ q.m_peers[i].m_address = p.m_peers[i].m_address
               /\ q.m_peers[i].m_assignedID = p.m_peers[i].m_assignedID
               /\ i # id => q.m_peers[i].m_state = p.m_peers[i].m_state
      BY <2>1, <3>6, <3>7, <3>8 DEF SameBooks, SameLists
    <3>10. "Connected" \in Later(p.m_peers[id].m_state)
      BY <1>2 DEF Later
    <3>11. \A i \in 0 .. NoID : i \in q.players <=> IF i = id THEN TRUE ELSE i \in p.players
      BY <3>9
    <3>12. q \in Peers(Sent(a, p.granted), HeldMessages(G))
      BY <3>8 DEF M, H
    <3>13. Reaches(a, p, q, G)
      BY <2>1, <3>4, <3>9, <3>10, <3>11, <3>12, MarkReaches
    <3> QED
      BY <3>2, <3>13
  <2> QED
    BY <2>2, <2>3
<1> QED
  BY <1>1, <1>2

LEMMA ClientProcessConnectionAnswerReaches ==
    ASSUME NEW a \in Clients, NEW p, NEW G, Sound(a, p, G), NEW assignedID \in 0 .. NoID
    PROVE  Reaches(a, p, ClientProcessConnectionAnswer(p, assignedID), G)
<1>0. a \in Addresses /\ a \notin Servers
  BY PeerAssumption DEF Addresses
<1>1. CASE p.m_state # "Connecting"
  BY <1>1, ReachesItself DEF ClientProcessConnectionAnswer
<1>2. CASE p.m_state = "Connecting" /\ assignedID = NoID
  BY <1>0, <1>2, DisconnectAllReaches DEF ClientProcessConnectionAnswer
<1>3. CASE p.m_state = "Connecting" /\ assignedID # NoID
  <2> DEFINE granted == p.granted \cup {assignedID}
             M == Sent(a, granted)
             H == HeldMessages(G)
             q == [p EXCEPT !.m_assignedID = assignedID, !.granted = granted]
             r == SendTo(q, ServerID, ConnectionAnswer(assignedID))
  <2>1. ClientProcessConnectionAnswer(p, assignedID) = r
    BY <1>3 DEF ClientProcessConnectionAnswer
  <2>2. p \in Peers(M, H)
    <3>1. p \in Peers(Sent(a, p.granted), H)
      BY DEF Sound
    <3>2. Sent(a, p.granted) \subseteq M
      BY SentMonotone
    <3> QED
      BY <3>1, <3>2, PeersMonotone
  <2> HIDE DEF M, H
  <2>3. /\ q \in Peers(M, H) /\ q.m_peers = p.m_peers /\ q.m_addressIDs = p.m_addressIDs
        /\ q.m_state = p.m_state /\ q.granted = granted /\ q.held = p.held
    BY <2>2 DEF Peers
  <2> HIDE DEF q
  <2>4. ClientSound(q)
    BY <2>3 DEF Sound, ClientSound
  <2>5. Keeps(a, p, q)
    BY <1>0, <2>3 DEF Keeps, IsServer
  <2>6. Reaches(a, p, q, G)
    BY <1>0, <2>3, <2>4, <2>5 DEF Reaches, Sound, M, H
  <2>7. ConnectionAnswer(assignedID) \in Sent(a, q.granted)
    BY <2>3, MessagesSent
  <2>8. Reaches(a, q, r, G)
    BY <2>6, <2>7, SendToReaches DEF Reaches
  <2> QED
    BY <2>1, <2>6, <2>8, ReachesTransitive
<1> QED
  BY <1>1, <1>2, <1>3

LEMMA ProcessDiscoveryAnswerReaches ==
    ASSUME NEW a \in Addresses, NEW p, NEW G, Runs(a, p, G), NEW address \in Servers,
           NEW freeSlots
    PROVE  Reaches(a, p, ProcessDiscoveryAnswer(p, address, freeSlots), G)
<1>1. Sound(a, p, G)
  BY DEF Runs
<1>2. CASE ~IsServer(p) /\ freeSlots > 0
  BY <1>1, <1>2, EitherKind, ConnectToReaches DEF ProcessDiscoveryAnswer
<1>3. CASE ~(~IsServer(p) /\ freeSlots > 0)
  BY <1>1, <1>3, ReachesItself DEF ProcessDiscoveryAnswer
<1> QED
  BY <1>2, <1>3

LEMMA ProcessConnectionSuccessReaches ==
    ASSUME NEW a \in Addresses, NEW p, NEW G, Runs(a, p, G)
    PROVE  Reaches(a, p, ProcessConnectionSuccess(p), G)
<1>1. Sound(a, p, G)
  BY DEF Runs
<1>2. CASE IsServer(p)
  BY <1>1, <1>2, ReachesItself DEF ProcessConnectionSuccess
<1>3. CASE ~IsServer(p)
  <2> DEFINE M == Sent(a, p.granted)
             H == HeldMessages(G)
             q == ProcessConnectionSuccess(p)
  <2>1. q = [p EXCEPT !.m_state = "Connected", !.players = @ \cup {p.m_assignedID}]
    BY <1>3, <1>1 DEF ProcessConnectionSuccess, OnConnection, Sound, Peers
  <2>2. p \in Peers(M, H) /\ "Connected" \in States
    BY <1>1 DEF Sound, States
  <2> HIDE DEF M, H
  <2>3. /\ q \in Peers(M, H) /\ q.m_peers = p.m_peers /\ q.m_addressIDs = p.m_addressIDs
        /\ q.m_maxPeers = p.m_maxPeers /\ q.granted = p.granted /\ q.held = p.held
        /\ q.m_state = "Connected"
    <3> DEFINE players == p.players \cup {p.m_assignedID}
    <3>1. q = [p EXCEPT !.m_state = "Connected", !.players = players]
      BY <2>1
    <3>2. players \in SUBSET (0 .. NoID)
      BY <2>2 DEF Peers
    <3> HIDE DEF players, q
    <3> QED
      BY <2>2, <3>1, <3>2 DEF Peers
  <2> HIDE DEF q
  <2>4. ~IsServer(q) /\ a \notin Servers
    BY <1>3, <2>3, EitherKind DEF IsServer
  <2>5. Reaches(a, p, q, G)
    BY <1>1, <1>3, <2>3, <2>4, OwnStateReaches DEF M, H
  <2> QED
    BY <2>5 DEF q
<1> QED
  BY <1>2, <1>3

LEMMA ProcessKeepAliveReaches ==
    ASSUME NEW a \in Addresses, NEW p, NEW G, Runs(a, p, G), NEW id,
           NEW serverSent \in 0 .. NoID
    PROVE  Reaches(a, p, ProcessKeepAlive(p, id, serverSent), G)
<1> DEFINE q == SendTo(p, id, KeepAlive(serverSent))
<1>1. Sound(a, p, G)
  BY DEF Runs
<1>2. Reaches(a, p, q, G)
  <2>1. KeepAlive(serverSent) \in Sent(a, p.granted)
    BY MessagesSent
  <2>2. q = SendTo(p, id, KeepAlive(serverSent))
    OBVIOUS
  <2> HIDE DEF q
  <2> QED
    BY <1>1, <2>1, <2>2, SendToReaches
<1> QED
  BY <1>1, <1>2, ReachesItself DEF ProcessKeepAlive

LEMMA ProcessDisconnectionRequestReaches ==
    ASSUME NEW a \in Addresses, NEW p, NEW G, Runs(a, p, G), NEW address, NEW id,
           Knows(a, p, id, address)
    PROVE  Reaches(a, p, ProcessDisconnectionRequest(p, id, address), G)
<1> DEFINE M == Sent(a, p.granted)
           H == HeldMessages(G)
           gone == IF IsServer(p) THEN id ELSE p.m_assignedID
           q == OnDisconnection(p, gone)
<1>1. Sound(a, p, G)
  BY DEF Runs
<1>2. p \in Peers(M, H)
  BY <1>1 DEF Sound
<1> HIDE DEF M, H
<1>3. /\ q \in Peers(M, H) /\ q.m_peers = p.m_peers /\ q.m_addressIDs = p.m_addressIDs
      /\ q.m_maxPeers = p.m_maxPeers /\ q.granted = p.granted /\ q.held = p.held
      /\ q.m_state = p.m_state
      /\ q.players = p.players \ {gone}
  <2> HIDE DEF gone
  <2> QED
    BY <1>2 DEF OnDisconnection, Peers
<1>4. CASE ~IsServer(p)
  <2>1. ProcessDisconnectionRequest(p, id, address) = DisconnectAll(q)
    BY <1>4 DEF ProcessDisconnectionRequest
  <2>2. a \notin Servers
    BY <1>4, EitherKind
  <2> HIDE DEF q
  <2>3. Reaches(a, p, q, G)
    BY <1>1, <1>3, <1>4, <2>2, OwnStateReaches DEF IsServer, M, H
  <2>4. Reaches(a, q, DisconnectAll(q), G)
    BY <2>3, DisconnectAllReaches DEF Reaches
  <2> QED
    BY <2>1, <2>3, <2>4, ReachesTransitive
<1>5. CASE IsServer(p) /\ RemoteOf(p, id, address).m_state = "Disconnected"
  BY <1>1, <1>5, ReachesItself DEF ProcessDisconnectionRequest
<1>6. CASE IsServer(p) /\ RemoteOf(p, id, address).m_state # "Disconnected"
  <2>1. id \in DOMAIN p.m_peers
    BY <1>6 DEF RemoteOf, UnknownPeer, NewRemotePeer
  <2>2. ProcessDisconnectionRequest(p, id, address) = DisconnectPeer(q, id, 0)
    BY <1>6 DEF ProcessDisconnectionRequest
  <2>3. q.players \ {id} = p.players \ {id}
    BY <1>3, <1>6
  <2>4. q \in Peers(Sent(a, p.granted), HeldMessages(G))
    BY <1>3 DEF M, H
  <2> HIDE DEF q
  <2> QED
    BY <1>1, <1>3, <2>1, <2>2, <2>3, <2>4, DisconnectPeerReaches
<1> QED
  BY <1>4, <1>5, <1>6

\* Every handler of a message that was sent and is processed for whom it came
\* from.
LEMMA ProcessMessageReaches ==
    ASSUME NEW a \in Addresses, NEW p, NEW G \in Grants, Runs(a, p, G),
           NEW address \in Addresses, NEW message \in Sent(address, G[address]),
           NEW id, Knows(a, p, id, address)
    PROVE  Reaches(a, p, ProcessMessage(p, id, address, message), G)
<1>1. /\ Sound(a, p, G) /\ message.id \in MessageIDs /\ message.arg \in 0 .. NoID
  BY DEF Runs, Sent, Messages
<1>2. CASE message.id = "DiscoveryRequest"
  BY <1>2, ProcessDiscoveryRequestReaches DEF ProcessMessage
<1>3. CASE message.id = "DiscoveryAnswer"
  <2>1. address \in Servers
    BY <1>3 DEF Sent
  <2> QED
    BY <1>3, <2>1, ProcessDiscoveryAnswerReaches DEF ProcessMessage
<1>4. CASE message.id = "ConnectionRequest"
  BY <1>4, ProcessConnectionRequestReaches DEF ProcessMessage
<1>5. CASE message.id = "ConnectionAnswer" /\ IsServer(p)
  <2>1. address \in Clients => message.arg \in G[address]
    BY <1>5 DEF Sent
  <2> QED
    BY <1>1, <1>5, <2>1, EitherKind, ServerProcessConnectionAnswerReaches DEF ProcessMessage
<1>6. CASE message.id = "ConnectionAnswer" /\ ~IsServer(p)
  BY <1>1, <1>6, EitherKind, ClientProcessConnectionAnswerReaches DEF ProcessMessage
<1>7. CASE message.id = "ConnectionSuccess"
  BY <1>7, ProcessConnectionSuccessReaches DEF ProcessMessage
<1>8. CASE message.id = "KeepAlive"
  BY <1>1, <1>8, ProcessKeepAliveReaches DEF ProcessMessage
<1>9. CASE message.id = "DisconnectionRequest"
  BY <1>9, ProcessDisconnectionRequestReaches DEF ProcessMessage
<1> QED
  BY <1>1, <1>2, <1>3, <1>4, <1>5, <1>6, <1>7, <1>8, <1>9 DEF MessageIDs

-----------------------------------------------------------------------------
\* The packets on their way, where G says what each Peer was granted.
Wires(G) ==
    {wire \in [from : Addresses, packet : Packets(Messages)] :
        wire.packet \in Packets(Sent(wire.from, G[wire.from]))}

\* The record that goes through receive and the held messages.
IsProgress(s) == s = [p |-> s.p, heard |-> s.heard, acked |-> s.acked, done |-> s.done]

-----------------------------------------------------------------------------
\* While the books stay the same, messages of this packet come from the same
\* peer; after any message they come from the same peer if there was one.
LEMMA KnowsSame ==
    ASSUME NEW a, NEW p, NEW q, SameBooks(p, q), NEW id, NEW address, Knows(a, p, id, address)
    PROVE  Knows(a, q, id, address)
BY DEF Knows, SameBooks, SameLists, AddressToPeer

LEMMA KnowsKept ==
    ASSUME NEW a, NEW p, NEW q, Keeps(a, p, q), NEW id, NEW address, Knows(a, p, id, address),
           id # NoID
    PROVE  Knows(a, q, id, address)
BY DEF Knows, Keeps

LEMMA ProcessReaches ==
    ASSUME NEW a \in Addresses, NEW s, IsProgress(s), NEW G \in Grants, Runs(a, s.p, G),
           NEW address \in Addresses, NEW message \in Sent(address, G[address]),
           NEW id, Knows(a, s.p, id, address)
    PROVE  LET t == Process(s, id, address, message)
           IN  IsProgress(t) /\ Reaches(a, s.p, t.p, G)
<1> DEFINE q == ProcessMessage(s.p, id, address, message)
           current == AddressToPeer(q, address)
           heard == s.heard \cup {id, current}
           acked == IF id = NoID THEN s.acked \cup {current} ELSE s.acked
           t == [s EXCEPT !.p = q, !.heard = heard, !.acked = acked]
<1>1. Process(s, id, address, message) = t
  BY DEF Process
<1>2. Reaches(a, s.p, q, G)
  BY ProcessMessageReaches
<1> HIDE DEF q, heard, acked
<1>3. t.p = q /\ IsProgress(t)
  <2> DEFINE s1 == [s EXCEPT !.p = q]
             s2 == [s1 EXCEPT !.heard = heard]
             s3 == [s2 EXCEPT !.acked = acked]
  <2>1. t = s3
    OBVIOUS
  <2>2. s1.p = q /\ IsProgress(s1)
    BY DEF IsProgress
  <2> HIDE DEF s1
  <2>3. s2.p = q /\ IsProgress(s2)
    BY <2>2 DEF IsProgress
  <2> HIDE DEF s2
  <2>4. s3.p = q /\ IsProgress(s3)
    BY <2>3 DEF IsProgress
  <2> QED
    BY <2>1, <2>4
<1> QED
  BY <1>1, <1>2, <1>3

\* Reading one message of a packet.
Read(a, s, id, address) == s.done \/ Knows(a, s.p, id, address)

LEMMA ParseMessageReaches ==
    ASSUME NEW a \in Addresses, NEW s, IsProgress(s), NEW G \in Grants, Runs(a, s.p, G),
           NEW address \in Addresses, NEW message \in Sent(address, G[address]),
           NEW id, Read(a, s, id, address), NEW delayed
    PROVE  LET t == ParseMessage(s, id, address, message, delayed)
           IN  IsProgress(t) /\ Reaches(a, s.p, t.p, G) /\ Read(a, t, id, address)
<1> DEFINE remote == RemoteOf(s.p, id, address)
           checked == remote.m_state # "Disconnected" /\ ~IsUnsequenced(message)
           sequence == message.m_sequence
           ordered == IsOrderedOnly(message)
           rx == AfterSequenceCheck(s.p.m_peers[id].rx, sequence, ordered)
           seen == [s.p EXCEPT !.m_peers[id].rx = rx]
           p == IF checked THEN seen ELSE s.p
           entry == [from |-> address, message |-> message]
           held == [p EXCEPT !.held = Append(@, entry)]
           processed == Process([s EXCEPT !.p = p], id, address, message)
           t == ParseMessage(s, id, address, message, delayed)
<1>1. t = IF s.done THEN s
          ELSE IF checked /\ ~PassesSequenceCheck(remote.rx, sequence, ordered)
               THEN [s EXCEPT !.p = p]
          ELSE IF delayed THEN [s EXCEPT !.p = held]
          ELSE [processed EXCEPT !.done =
                    RemoteOf(processed.p, id, address).m_state = "Disconnected"]
  BY DEF ParseMessage
<1>2. Sound(a, s.p, G)
  BY DEF Runs
<1>3. CASE s.done
  BY <1>1, <1>2, <1>3, ReachesItself
<1>4. CASE ~s.done
  <2>1. Knows(a, s.p, id, address)
    BY <1>4 DEF Read
  <2>2. Reaches(a, s.p, p, G) /\ SameBooks(s.p, p)
    <3>1. CASE ~checked
      BY <3>1, <1>2, ReachesItself DEF SameBooks, SameLists
    <3>2. CASE checked
      <4>1. id \in DOMAIN s.p.m_peers
        BY <3>2 DEF RemoteOf, UnknownPeer, NewRemotePeer
      <4>2. s.p.m_peers[id].rx \in Receivers
        <5>1. s.p \in Peers(Sent(a, s.p.granted), HeldMessages(G))
          BY <1>2 DEF Sound
        <5> QED
          BY <4>1, <5>1, PeersOf DEF Remotes
      <4>3. sequence \in Sequences16
        BY DEF Sent, Messages
      <4>4. rx \in Receivers
        BY <4>2, <4>3, AfterSequenceCheckType
      <4> HIDE DEF rx
      <4> QED
        BY <1>2, <3>2, <4>1, <4>4, SetReceiverReaches
    <3> QED
      BY <3>1, <3>2
  <2> HIDE DEF p
  <2>3. Runs(a, p, G) /\ Knows(a, p, id, address)
    BY <2>1, <2>2, StillRuns, KnowsSame
  <2>4. CASE checked /\ ~PassesSequenceCheck(remote.rx, sequence, ordered)
    <3>1. t = [s EXCEPT !.p = p]
      BY <1>1, <1>4, <2>4
    <3>2. t.p = p /\ IsProgress(t)
      BY <3>1 DEF IsProgress
    <3> QED
      BY <2>2, <2>3, <3>2 DEF Read
  <2>5. CASE delayed /\ ~(checked /\ ~PassesSequenceCheck(remote.rx, sequence, ordered))
    <3>1. t = [s EXCEPT !.p = held]
      BY <1>1, <1>4, <2>5
    <3> HIDE DEF held
    <3>2. t.p = held /\ IsProgress(t)
      BY <3>1 DEF IsProgress
    <3>3. entry \in HeldMessages(G)
      BY DEF HeldMessages, Sent
    <3> HIDE DEF entry
    <3>4. p.held \in Seq(HeldMessages(G))
      BY <2>2 DEF Reaches, Sound, Peers
    <3>5. /\ Append(p.held, entry) \in Seq(HeldMessages(G))
          /\ DOMAIN p.held \subseteq DOMAIN Append(p.held, entry)
      <4> DEFINE H == HeldMessages(G)
      <4>1. p.held \in Seq(H) /\ entry \in H
        BY <3>3, <3>4
      <4> HIDE DEF H
      <4>2. /\ Append(p.held, entry) \in Seq(H)
            /\ Len(Append(p.held, entry)) = Len(p.held) + 1
        BY <4>1, AppendProperties
      <4>3. DOMAIN p.held = 1 .. Len(p.held)
        BY <4>1, LenProperties
      <4>4. DOMAIN Append(p.held, entry) = 1 .. Len(Append(p.held, entry))
        BY <4>2, LenProperties
      <4>5. Len(p.held) \in Nat
        BY <4>1, LenProperties
      <4> QED
        BY <4>2, <4>3, <4>4, <4>5 DEF H
    <3>6. Reaches(a, p, held, G) /\ SameBooks(p, held)
      BY <2>2, <3>5, HoldReaches DEF Reaches, held
    <3>7. Reaches(a, s.p, held, G) /\ Knows(a, held, id, address)
      BY <2>2, <2>3, <3>6, ReachesTransitive, KnowsSame
    <3> QED
      BY <3>2, <3>7 DEF Read
  <2>6. CASE ~delayed /\ ~(checked /\ ~PassesSequenceCheck(remote.rx, sequence, ordered))
    <3> DEFINE before == [s EXCEPT !.p = p]
    <3>1. before.p = p /\ IsProgress(before)
      BY DEF IsProgress
    <3>2. processed = Process(before, id, address, message)
      OBVIOUS
    <3>3. t = [processed EXCEPT !.done =
                  RemoteOf(processed.p, id, address).m_state = "Disconnected"]
      BY <1>1, <1>4, <2>6
    <3> HIDE DEF before, processed
    <3>4. IsProgress(processed) /\ Reaches(a, p, processed.p, G)
      BY <2>3, <3>1, <3>2, ProcessReaches
    <3>5. t.p = processed.p /\ IsProgress(t)
      BY <3>3, <3>4 DEF IsProgress
    <3>6. Reaches(a, s.p, t.p, G)
      BY <2>2, <3>4, <3>5, ReachesTransitive
    <3>7. Read(a, t, id, address)
      <4>1. CASE id # NoID
        BY <2>3, <3>4, <3>5, <4>1, KnowsKept DEF Read, Reaches
      <4>2. CASE id = NoID
        <5>1. id \notin DOMAIN t.p.m_peers
          BY <3>6, <4>2, NoIDUnused DEF Reaches
        <5>2. RemoteOf(t.p, id, address).m_state = "Disconnected"
          BY <5>1 DEF RemoteOf, UnknownPeer, NewRemotePeer
        <5>3. t.done = (RemoteOf(t.p, id, address).m_state = "Disconnected")
          BY <3>3, <3>4, <3>5 DEF IsProgress
        <5> QED
          BY <5>2, <5>3 DEF Read
      <4> QED
        BY <4>1, <4>2
    <3> QED
      BY <3>5, <3>6, <3>7
  <2> QED
    BY <2>4, <2>5, <2>6
<1> QED
  BY <1>3, <1>4

\* The loop over the messages of a packet.
ParseNext(s, k, x) == ParseMessage(s, x.id, x.address, x.messages[k], x.delayed)

ParsedFrom(s, k, x) ==
    IsProgress(s) /\ Reaches(x.a, x.p, s.p, x.G) /\ Read(x.a, s, x.id, x.address)

Parsing == INSTANCE Loops WITH Step <- ParseNext, Holds <- ParsedFrom

LEMMA ParseBufferReaches ==
    ASSUME NEW a \in Addresses, NEW s, IsProgress(s), NEW G \in Grants, Runs(a, s.p, G),
           NEW address \in Addresses, NEW packet \in Packets(Sent(address, G[address])),
           NEW delayed
    PROVE  LET t == ParseBuffer(s, address, packet, delayed)
           IN  IsProgress(t) /\ Reaches(a, s.p, t.p, G)
<1> DEFINE id == AddressToPeer(s.p, address)
           messages == packet.messages
           tx == ProcessAckBits(s.p.m_peers[id].tx, packet.m_ackseq, packet.m_ackbits)
           acknowledged == IF id = NoID THEN s.p ELSE [s.p EXCEPT !.m_peers[id].tx = tx]
           first == [p |-> acknowledged, heard |-> s.heard, acked |-> s.acked \cup {id},
                     done |-> FALSE]
           N == Len(messages)
           x == [a |-> a, p |-> s.p, G |-> G, id |-> id, address |-> address,
                 messages |-> messages, delayed |-> delayed]
           IsParsed(f) == f = [k \in 0 .. Len(messages) |->
                IF k = 0 THEN first
                ELSE ParseMessage(f[k - 1], id, address, messages[k], delayed)]
           parsed == CHOOSE f : IsParsed(f)
<1>1. Sound(a, s.p, G)
  BY DEF Runs
<1>2. messages \in Seq(Sent(address, G[address])) /\ N \in Nat
  BY LenProperties DEF Packets
<1>3. ParseBuffer(s, address, packet, delayed) = parsed[N]
  BY DEF ParseBuffer
<1>4. Knows(a, s.p, id, address)
  <2>1. CASE id = NoID
    BY <2>1 DEF Knows
  <2>2. CASE id # NoID
    <3>1. /\ address \in DOMAIN s.p.m_addressIDs /\ id = s.p.m_addressIDs[address]
          /\ id \in DOMAIN s.p.m_peers
      BY <2>2 DEF AddressToPeer
    <3>2. a \in Servers => s.p.m_peers[id].m_address = address
      BY <1>1, <3>1 DEF Sound, ServerSound, ListsMirror
    <3> QED
      BY <2>2, <3>1, <3>2 DEF Knows
  <2> QED
    BY <2>1, <2>2
<1>5. Reaches(a, s.p, acknowledged, G) /\ SameBooks(s.p, acknowledged)
  <2>1. CASE id = NoID
    BY <1>1, <2>1, ReachesItself DEF SameBooks, SameLists
  <2>2. CASE id # NoID
    <3>1. id \in DOMAIN s.p.m_peers
      BY <1>4, <2>2 DEF Knows
    <3>2. s.p.m_peers[id].tx \in Senders(Sent(a, s.p.granted))
      <4>1. s.p \in Peers(Sent(a, s.p.granted), HeldMessages(G))
        BY <1>1 DEF Sound
      <4> QED
        BY <3>1, <4>1, PeersOf DEF Remotes
    <3>3. tx \in Senders(Sent(a, s.p.granted))
      BY <3>2, ProcessAckBitsType
    <3>4. acknowledged = [s.p EXCEPT !.m_peers[id].tx = tx]
      BY <2>2
    <3> HIDE DEF tx, acknowledged, id
    <3> QED
      BY <1>1, <3>1, <3>3, <3>4, SetSenderReaches
  <2> QED
    BY <2>1, <2>2
<1> HIDE DEF id, acknowledged
<1>6. ParsedFrom(first, 0, x)
  <2>1. first.p = acknowledged /\ IsProgress(first)
    BY DEF IsProgress
  <2> HIDE DEF first
  <2>2. Read(a, first, id, address)
    BY <1>4, <1>5, <2>1, KnowsSame DEF Read
  <2> QED
    BY <1>5, <2>1, <2>2 DEF ParsedFrom
<1> HIDE DEF first, messages
<1>7. PICK r : Parsing!IsLoop(r, N, first, x)
  BY <1>2, Parsing!LoopExists
<1>8. IsParsed(r)
  BY <1>7 DEF Parsing!IsLoop, ParseNext
<1>9. IsParsed(parsed)
  BY <1>8
<1>10. Parsing!IsLoop(parsed, N, first, x)
  BY <1>9 DEF Parsing!IsLoop, ParseNext
<1> HIDE DEF parsed
<1>11. \A k \in 1 .. N : \A t : ParsedFrom(t, k - 1, x) => ParsedFrom(ParseNext(t, k, x), k, x)
  <2> SUFFICES ASSUME NEW k \in 1 .. N, NEW t, IsProgress(t), Reaches(a, s.p, t.p, G),
                      Read(a, t, id, address)
               PROVE  ParsedFrom(ParseNext(t, k, x), k, x)
    BY DEF ParsedFrom
  <2> DEFINE u == ParseMessage(t, id, address, messages[k], delayed)
  <2>1. messages[k] \in Sent(address, G[address])
    BY <1>2, ElementOfSeq
  <2>2. Runs(a, t.p, G)
    BY StillRuns
  <2>3. IsProgress(u) /\ Reaches(a, t.p, u.p, G) /\ Read(a, u, id, address)
    BY <2>1, <2>2, ParseMessageReaches
  <2>4. ParseNext(t, k, x) = u
    BY DEF ParseNext
  <2> HIDE DEF u
  <2>5. Reaches(a, s.p, u.p, G)
    BY <2>3, ReachesTransitive
  <2> QED
    BY <2>3, <2>4, <2>5 DEF ParsedFrom
<1>12. ParsedFrom(parsed[N], N, x)
  <2> HIDE DEF x
  <2>1. \A k \in 0 .. N : ParsedFrom(parsed[k], k, x)
    <3> HIDE DEF N
    <3> QED
      BY <1>2, <1>6, <1>10, <1>11, Parsing!LoopInvariant
  <2> QED
    BY <1>2, <2>1
<1> QED
  BY <1>3, <1>12 DEF ParsedFrom

\* The loop over the packets that one receive finds.
ReceiveNext(s, k, x) == ParseBuffer(s, x.arrived[k].from, x.arrived[k].packet, x.delayed)

ReceivedFrom(s, k, x) == IsProgress(s) /\ Reaches(x.a, x.p, s.p, x.G)

Receiving == INSTANCE Loops WITH Step <- ReceiveNext, Holds <- ReceivedFrom

LEMMA ReceiveAllReaches ==
    ASSUME NEW a \in Addresses, NEW p, NEW G \in Grants, Runs(a, p, G),
           NEW arrived \in Seq(Wires(G)), NEW delayed
    PROVE  LET t == ReceiveAll(p, arrived, delayed)
           IN  IsProgress(t) /\ Reaches(a, p, t.p, G)
<1> DEFINE first == [p |-> p, heard |-> {}, acked |-> {}, done |-> FALSE]
           N == Len(arrived)
           x == [a |-> a, p |-> p, G |-> G, arrived |-> arrived, delayed |-> delayed]
           IsReceived(f) == f = [k \in 0 .. Len(arrived) |->
                IF k = 0 THEN first
                ELSE ParseBuffer(f[k - 1], arrived[k].from, arrived[k].packet, delayed)]
           received == CHOOSE f : IsReceived(f)
<1>1. N \in Nat
  BY LenProperties
<1>2. ReceiveAll(p, arrived, delayed) = received[N]
  BY DEF ReceiveAll
<1>3. ReceivedFrom(first, 0, x)
  <2>1. first.p = p /\ IsProgress(first)
    BY DEF IsProgress
  <2> HIDE DEF first
  <2>2. Reaches(a, p, p, G)
    BY ReachesItself DEF Runs
  <2> QED
    BY <2>1, <2>2 DEF ReceivedFrom
<1> HIDE DEF first
<1>4. PICK r : Receiving!IsLoop(r, N, first, x)
  BY <1>1, Receiving!LoopExists
<1>5. IsReceived(r)
  BY <1>4 DEF Receiving!IsLoop, ReceiveNext
<1>6. IsReceived(received)
  BY <1>5
<1>7. Receiving!IsLoop(received, N, first, x)
  BY <1>6 DEF Receiving!IsLoop, ReceiveNext
<1> HIDE DEF received
<1>8. \A k \in 1 .. N : \A t : ReceivedFrom(t, k - 1, x) => ReceivedFrom(ReceiveNext(t, k, x), k, x)
  <2> SUFFICES ASSUME NEW k \in 1 .. N, NEW t, IsProgress(t), Reaches(a, p, t.p, G)
               PROVE  ReceivedFrom(ReceiveNext(t, k, x), k, x)
    BY DEF ReceivedFrom
  <2> DEFINE from == arrived[k].from
             packet == arrived[k].packet
             u == ParseBuffer(t, from, packet, delayed)
  <2>1. from \in Addresses /\ packet \in Packets(Sent(from, G[from]))
    <3>1. arrived[k] \in Wires(G)
      BY ElementOfSeq
    <3> QED
      BY <3>1 DEF Wires
  <2>2. Runs(a, t.p, G)
    BY StillRuns
  <2>3. ReceiveNext(t, k, x) = u
    BY DEF ReceiveNext
  <2> HIDE DEF from, packet
  <2>4. IsProgress(u) /\ Reaches(a, t.p, u.p, G)
    BY <2>1, <2>2, ParseBufferReaches
  <2> HIDE DEF u
  <2>5. Reaches(a, p, u.p, G)
    BY <2>4, ReachesTransitive
  <2> QED
    BY <2>3, <2>4, <2>5 DEF ReceivedFrom
<1>9. ReceivedFrom(received[N], N, x)
  <2> HIDE DEF x
  <2>1. \A k \in 0 .. N : ReceivedFrom(received[k], k, x)
    <3> HIDE DEF N
    <3> QED
      BY <1>1, <1>3, <1>7, <1>8, Receiving!LoopInvariant
  <2> QED
    BY <1>1, <2>1
<1> QED
  BY <1>2, <1>9 DEF ReceivedFrom

-----------------------------------------------------------------------------
\* The held messages, whose entries are taken off one by one.
LEMMA ProcessOldestKeeps ==
    ASSUME NEW a \in Addresses, NEW s, IsProgress(s), NEW G \in Grants, Runs(a, s.p, G),
           Len(s.p.held) > 0
    PROVE  LET t == ProcessOldest(s)
           IN  /\ IsProgress(t)
               /\ Sound(a, t.p, G)
               /\ Keeps(a, s.p, t.p)
               /\ Len(t.p.held) >= Len(s.p.held) - 1
<1> DEFINE H == HeldMessages(G)
           entry == Head(s.p.held)
           q == [s.p EXCEPT !.held = Tail(s.p.held)]
           before == [s EXCEPT !.p = q]
           id == AddressToPeer(s.p, entry.from)
           t == Process(before, id, entry.from, entry.message)
<1>1. ProcessOldest(s) = t
  <2>1. [s EXCEPT !.p.held = Tail(@)] = before
    OBVIOUS
  <2> QED
    BY <2>1 DEF ProcessOldest
<1>2. Sound(a, s.p, G) /\ s.p \in Peers(Sent(a, s.p.granted), H)
  BY DEF Runs, Sound
<1>3. s.p.held \in Seq(H)
  BY <1>2 DEF Peers
<1>4. entry \in H /\ Tail(s.p.held) \in Seq(H) /\ Len(Tail(s.p.held)) = Len(s.p.held) - 1
  <2> DEFINE held == s.p.held
  <2>1. held \in Seq(H) /\ Len(held) > 0
    BY <1>3
  <2> HIDE DEF H, held
  <2>2. held # <<>>
    BY <2>1, EmptySeq
  <2>3. Head(held) \in H /\ Tail(held) \in Seq(H) /\ Len(Tail(held)) = Len(held) - 1
    BY <2>1, <2>2, HeadTailProperties
  <2> QED
    BY <2>3 DEF held
<1>5. entry.from \in Addresses /\ entry.message \in Sent(entry.from, G[entry.from])
  BY <1>4 DEF HeldMessages
<1>6. q \in Peers(Sent(a, s.p.granted), H) /\ SameLists(s.p, q) /\ q.held = Tail(s.p.held)
  <2> DEFINE rest == Tail(s.p.held)
             M == Sent(a, s.p.granted)
  <2>1. rest \in Seq(H) /\ s.p \in Peers(M, H) /\ q = [s.p EXCEPT !.held = rest]
    BY <1>2, <1>4
  <2> HIDE DEF rest, M, H, q
  <2>2. q \in Peers(M, H) /\ SameLists(s.p, q) /\ q.held = rest
    BY <2>1 DEF Peers, SameLists
  <2> QED
    BY <2>2 DEF rest, M, H
<1> HIDE DEF q
<1>7. before.p = q /\ IsProgress(before)
  BY DEF IsProgress
<1>8. Sound(a, q, G) /\ Keeps(a, s.p, q)
  BY <1>2, <1>6, SameListsKeep
<1>9. Runs(a, q, G)
  BY <1>8 DEF Runs, Keeps
<1>10. Knows(a, q, id, entry.from)
  <2>1. AddressToPeer(q, entry.from) = id /\ q.m_peers = s.p.m_peers
    BY <1>2 DEF q, AddressToPeer, Peers
  <2>2. CASE id = NoID
    BY <2>1, <2>2 DEF Knows
  <2>3. CASE id # NoID
    <3>1. /\ entry.from \in DOMAIN q.m_addressIDs /\ id = q.m_addressIDs[entry.from]
          /\ id \in DOMAIN q.m_peers
      BY <2>1, <2>3 DEF AddressToPeer
    <3>2. a \in Servers => q.m_peers[id].m_address = entry.from
      BY <1>8, <3>1 DEF Sound, ServerSound, ListsMirror
    <3> QED
      BY <2>3, <3>1, <3>2 DEF Knows
  <2> QED
    BY <2>2, <2>3
<1> HIDE DEF before, id, entry
<1>11. IsProgress(t) /\ Reaches(a, q, t.p, G)
  BY <1>5, <1>7, <1>9, <1>10, ProcessReaches
<1> HIDE DEF t
<1>12. Sound(a, t.p, G) /\ Keeps(a, s.p, t.p)
  BY <1>8, <1>11, KeepsTransitive DEF Reaches
<1>13. Len(t.p.held) >= Len(q.held)
  <2> DEFINE held == t.p.held
             rest == q.held
  <2>1. held \in Seq(H) /\ rest \in Seq(H) /\ DOMAIN rest \subseteq DOMAIN held
    BY <1>8, <1>11 DEF Reaches, Sound, Peers
  <2> HIDE DEF H, held, rest
  <2>2. /\ DOMAIN held = 1 .. Len(held) /\ Len(held) \in Nat
        /\ DOMAIN rest = 1 .. Len(rest) /\ Len(rest) \in Nat
    BY <2>1, LenProperties
  <2>3. Len(rest) <= Len(held)
    BY <2>1, <2>2
  <2> QED
    BY <2>3 DEF held, rest
<1> QED
  BY <1>1, <1>4, <1>6, <1>11, <1>12, <1>13

HeldNext(s, k, x) == ProcessOldest(s)

HeldFrom(s, k, x) ==
    /\ IsProgress(s)
    /\ Sound(x.a, s.p, x.G)
    /\ Keeps(x.a, x.p, s.p)
    /\ x.amount - k <= Len(s.p.held)

Holding == INSTANCE Loops WITH Step <- HeldNext, Holds <- HeldFrom

LEMMA ProcessHeldKeeps ==
    ASSUME NEW a \in Addresses, NEW s, IsProgress(s), NEW G \in Grants, Runs(a, s.p, G),
           NEW amount \in 0 .. Len(s.p.held)
    PROVE  LET t == ProcessHeld(s, amount)
           IN  IsProgress(t) /\ Sound(a, t.p, G) /\ Keeps(a, s.p, t.p)
<1> DEFINE x == [a |-> a, p |-> s.p, G |-> G, amount |-> amount]
           IsProcessed(f) == f = [k \in 0 .. amount |->
                IF k = 0 THEN s ELSE ProcessOldest(f[k - 1])]
           processed == CHOOSE f : IsProcessed(f)
<1>1. amount \in Nat /\ amount <= Len(s.p.held)
  <2>1. s.p.held \in Seq(HeldMessages(G))
    BY DEF Runs, Sound, Peers
  <2>2. Len(s.p.held) \in Nat
    BY <2>1, LenProperties
  <2> QED
    BY <2>2
<1>2. ProcessHeld(s, amount) = processed[amount]
  BY DEF ProcessHeld
<1>3. HeldFrom(s, 0, x)
  <2>1. Sound(a, s.p, G) /\ Keeps(a, s.p, s.p)
    BY ReachesItself DEF Runs, Reaches
  <2> QED
    BY <1>1, <2>1 DEF HeldFrom
<1>4. PICK r : Holding!IsLoop(r, amount, s, x)
  BY <1>1, Holding!LoopExists
<1>5. IsProcessed(r)
  BY <1>4 DEF Holding!IsLoop, HeldNext
<1>6. IsProcessed(processed)
  BY <1>5
<1>7. Holding!IsLoop(processed, amount, s, x)
  BY <1>6 DEF Holding!IsLoop, HeldNext
<1> HIDE DEF processed
<1>8. \A k \in 1 .. amount : \A t : HeldFrom(t, k - 1, x) => HeldFrom(HeldNext(t, k, x), k, x)
  <2> SUFFICES ASSUME NEW k \in 1 .. amount, NEW t, IsProgress(t), Sound(a, t.p, G),
                      Keeps(a, s.p, t.p), amount - (k - 1) <= Len(t.p.held)
               PROVE  HeldFrom(HeldNext(t, k, x), k, x)
    BY DEF HeldFrom
  <2> DEFINE u == ProcessOldest(t)
  <2>1. Runs(a, t.p, G)
    BY DEF Runs, Keeps
  <2>2. Len(t.p.held) > 0
    <3>1. t.p.held \in Seq(HeldMessages(G))
      BY DEF Sound, Peers
    <3>2. Len(t.p.held) \in Nat
      BY <3>1, LenProperties
    <3> QED
      BY <1>1, <3>2
  <2>3. /\ IsProgress(u) /\ Sound(a, u.p, G) /\ Keeps(a, t.p, u.p)
        /\ Len(u.p.held) >= Len(t.p.held) - 1
    BY <2>1, <2>2, ProcessOldestKeeps
  <2>4. HeldNext(t, k, x) = u
    BY DEF HeldNext
  <2> HIDE DEF u
  <2>5. Keeps(a, s.p, u.p)
    BY <2>3, KeepsTransitive
  <2>6. amount - k <= Len(u.p.held)
    <3>1. t.p.held \in Seq(HeldMessages(G)) /\ u.p.held \in Seq(HeldMessages(G))
      BY <2>3 DEF Sound, Peers
    <3>2. Len(t.p.held) \in Nat /\ Len(u.p.held) \in Nat
      BY <3>1, LenProperties
    <3> QED
      BY <1>1, <2>3, <3>2
  <2> QED
    BY <2>3, <2>4, <2>5, <2>6 DEF HeldFrom
<1>9. HeldFrom(processed[amount], amount, x)
  <2> HIDE DEF x
  <2>1. \A k \in 0 .. amount : HeldFrom(processed[k], k, x)
    BY <1>1, <1>3, <1>7, <1>8, Holding!LoopInvariant
  <2> QED
    BY <1>1, <2>1
<1> QED
  BY <1>2, <1>9 DEF HeldFrom

-----------------------------------------------------------------------------
\* A part of a map.
LEMMA RestrictType ==
    ASSUME NEW S, NEW T, NEW f \in PartialFunctions(S, T), NEW D \in SUBSET DOMAIN f
    PROVE  /\ Restrict(f, D) \in PartialFunctions(S, T)
           /\ DOMAIN Restrict(f, D) = D
           /\ \A k \in D : Restrict(f, D)[k] = f[k]
<1> DEFINE g == Restrict(f, D)
<1>1. DOMAIN f \subseteq S /\ f \in [DOMAIN f -> T]
  BY PartialFunctionsType
<1>2. g = [k \in D |-> f[k]]
  BY DEF Restrict
<1> HIDE DEF g
<1>3. g \in [D -> T] /\ D \subseteq S
  BY <1>1, <1>2
<1>4. g \in PartialFunctions(S, T)
  BY <1>3, PartialFunctionsType
<1> QED
  BY <1>2, <1>4 DEF g

\* What removing RemotePeers leaves of a Peer.
LEMMA RemovePeersType ==
    ASSUME NEW M, NEW H, NEW p \in Peers(M, H), NEW ids, NEW q, q = RemovePeers(p, ids)
    PROVE  /\ q \in Peers(M, H)
           /\ DOMAIN q.m_peers = DOMAIN p.m_peers \ ids
           /\ \A id \in DOMAIN q.m_peers : q.m_peers[id] = p.m_peers[id]
           /\ DOMAIN q.m_addressIDs = DOMAIN p.m_addressIDs
                                        \ {p.m_peers[id].m_address : id \in ids}
           /\ \A address \in DOMAIN q.m_addressIDs :
                q.m_addressIDs[address] = p.m_addressIDs[address]
           /\ q.m_state = p.m_state /\ q.m_maxPeers = p.m_maxPeers
           /\ q.granted = p.granted /\ q.players = p.players
<1> DEFINE D == DOMAIN p.m_peers \ ids
           gone == {p.m_peers[id].m_address : id \in ids}
           E == DOMAIN p.m_addressIDs \ gone
           peers == Restrict(p.m_peers, D)
           addresses == Restrict(p.m_addressIDs, E)
<1>1. q = [p EXCEPT !.m_peers = peers, !.m_addressIDs = addresses]
  BY DEF RemovePeers
<1>2. /\ p.m_peers \in PartialFunctions(0 .. NoID, Remotes(M))
      /\ p.m_addressIDs \in PartialFunctions(Addresses, 0 .. NoID)
  BY DEF Peers
<1> HIDE DEF gone
<1>3. /\ peers \in PartialFunctions(0 .. NoID, Remotes(M)) /\ DOMAIN peers = D
      /\ \A id \in D : peers[id] = p.m_peers[id]
  <2> D \in SUBSET DOMAIN p.m_peers
    OBVIOUS
  <2> HIDE DEF D
  <2> QED
    BY <1>2, RestrictType
<1>4. /\ addresses \in PartialFunctions(Addresses, 0 .. NoID) /\ DOMAIN addresses = E
      /\ \A address \in E : addresses[address] = p.m_addressIDs[address]
  <2> E \in SUBSET DOMAIN p.m_addressIDs
    OBVIOUS
  <2> HIDE DEF E
  <2> QED
    BY <1>2, RestrictType
<1> HIDE DEF peers, addresses, D, E
<1>5. /\ q \in Peers(M, H) /\ q.m_peers = peers /\ q.m_addressIDs = addresses
      /\ q.m_state = p.m_state /\ q.m_maxPeers = p.m_maxPeers
      /\ q.granted = p.granted /\ q.players = p.players
  BY <1>1, <1>3, <1>4 DEF Peers
<1> QED
  BY <1>3, <1>4, <1>5 DEF D, E, gone

\* RemotePeers that are marked can be removed.
LEMMA RemovePeersEvolves ==
    ASSUME NEW a \in Addresses, NEW p, NEW G, Sound(a, p, G), NEW ids \in SUBSET DOMAIN p.m_peers,
           \A id \in ids : p.m_peers[id].m_state = "Disconnected"
    PROVE  Sound(a, RemovePeers(p, ids), G) /\ Evolves(a, p, RemovePeers(p, ids))
<1> DEFINE M == Sent(a, p.granted)
           H == HeldMessages(G)
           q == RemovePeers(p, ids)
<1>1. p \in Peers(M, H)
  BY DEF Sound
<1> HIDE DEF M, H
<1>2. /\ q \in Peers(M, H)
      /\ DOMAIN q.m_peers = DOMAIN p.m_peers \ ids
      /\ \A id \in DOMAIN q.m_peers : q.m_peers[id] = p.m_peers[id]
      /\ DOMAIN q.m_addressIDs = DOMAIN p.m_addressIDs \ {p.m_peers[id].m_address : id \in ids}
      /\ \A address \in DOMAIN q.m_addressIDs : q.m_addressIDs[address] = p.m_addressIDs[address]
      /\ q.m_state = p.m_state /\ q.m_maxPeers = p.m_maxPeers
      /\ q.granted = p.granted /\ q.players = p.players
  <2>1. q = RemovePeers(p, ids)
    OBVIOUS
  <2> HIDE DEF q
  <2> QED
    BY <1>1, <2>1, RemovePeersType
<1> HIDE DEF q
<1>3. ASSUME a \in Servers PROVE ServerSound(q, G) /\ Evolves(a, p, q)
  <2>1. ServerSound(p, G)
    BY <1>3 DEF Sound
  <2>2. ListsMirror(q)
    BY <1>2, <2>1 DEF ServerSound, ListsMirror
  <2>3. SlotsSound(q, G)
    BY <1>2, <2>1 DEF ServerSound, SlotsSound
  <2>4. PlayersSound(q)
    BY <1>2, <2>1 DEF ServerSound, PlayersSound
  <2>5. Evolves(a, p, q)
    BY <1>2, <2>1 DEF Evolves, Later, ServerSound, SlotsSound
  <2> QED
    BY <1>2, <2>1, <2>2, <2>3, <2>4, <2>5 DEF ServerSound
<1>4. ASSUME a \in Clients PROVE ClientSound(q) /\ Evolves(a, p, q)
  <2>1. ClientSound(p) /\ a \notin Servers
    BY <1>4, PeerAssumption DEF Sound
  <2>2. \A id \in DOMAIN q.m_peers :
            /\ id = ServerID
            /\ q.m_peers[id].m_assignedID = ServerID
            /\ q.m_peers[id].m_address \in Servers
            /\ q.m_peers[id].m_address \in DOMAIN q.m_addressIDs
    BY <1>2, <2>1 DEF ClientSound
  <2>3. \A address \in DOMAIN q.m_addressIDs :
            /\ address \in Servers
            /\ q.m_addressIDs[address] = ServerID
            /\ OnlyOneServer => ServerID \in DOMAIN q.m_peers
    <3> TAKE address \in DOMAIN q.m_addressIDs
    <3>1. address \in Servers /\ q.m_addressIDs[address] = ServerID
      BY <1>2, <2>1 DEF ClientSound
    <3>2. ASSUME OnlyOneServer PROVE ServerID \notin ids
      <4>1. SUFFICES ASSUME ServerID \in ids PROVE FALSE
        OBVIOUS
      <4>2. p.m_peers[ServerID].m_address \in Servers
        BY <2>1, <4>1 DEF ClientSound
      <4>3. address = p.m_peers[ServerID].m_address
        BY <3>1, <3>2, <4>2 DEF OnlyOneServer
      <4> QED
        BY <1>2, <4>1, <4>3
    <3>3. OnlyOneServer => ServerID \in DOMAIN p.m_peers
      BY <1>2, <2>1 DEF ClientSound
    <3> QED
      BY <1>2, <3>1, <3>2, <3>3
  <2>4. Evolves(a, p, q)
    BY <1>2, <2>1 DEF Evolves
  <2> QED
    BY <1>2, <2>1, <2>2, <2>3, <2>4 DEF ClientSound
<1>5. Sound(a, q, G)
  BY <1>2, <1>3, <1>4 DEF Sound, M, H
<1> QED
  BY <1>3, <1>4, <1>5 DEF q, Addresses

\* What sending does to a Peer: nothing that its lists show.
Tends(a, p, q, G) == Reaches(a, p, q, G) /\ DOMAIN q.m_peers = DOMAIN p.m_peers

TendedFrom(p, k, x) == Tends(x.a, x.p, p, x.G)

LEMMA TendsTransitive ==
    ASSUME NEW a, NEW p, NEW q, NEW r, NEW G, Tends(a, p, q, G), Tends(a, q, r, G)
    PROVE  Tends(a, p, r, G)
BY ReachesTransitive DEF Tends

LEMMA TendsAfterEvolves ==
    ASSUME NEW a, NEW p, NEW q, NEW r, NEW G, Evolves(a, p, q), Tends(a, q, r, G)
    PROVE  Evolves(a, p, r)
BY DEF Tends, Reaches, Keeps, Evolves, Later

\* The loop over the peers that get a KeepAlive.
KeepAlives(p, ids, message) == ForEach(ids, LAMBDA q, id : SendTo(q, id, message), p)

KeepAliveNext(p, k, x) == IF k - 1 \in x.ids THEN SendTo(p, k - 1, x.message) ELSE p

KeepingAlive == INSTANCE Loops WITH Step <- KeepAliveNext, Holds <- TendedFrom

LEMMA KeepAlivesTend ==
    ASSUME NEW a, NEW p, NEW G, Sound(a, p, G), NEW ids, NEW message,
           \A g : message \in Sent(a, g)
    PROVE  Tends(a, p, KeepAlives(p, ids, message), G)
<1> DEFINE x == [a |-> a, p |-> p, G |-> G, ids |-> ids, message |-> message]
           N == p.m_maxPeers + 1
           IsAfter(f) == f = [k \in 0 .. p.m_maxPeers + 1 |->
                IF k = 0 THEN p
                ELSE IF k - 1 \in ids THEN SendTo(f[k - 1], k - 1, message)
                ELSE f[k - 1]]
           after == CHOOSE f : IsAfter(f)
<1>1. N \in Nat
  <2>1. p.m_maxPeers \in 0 .. NoID - 1
    BY DEF Sound, Peers
  <2> QED
    BY <2>1
<1>2. PICK r : KeepingAlive!IsLoop(r, N, p, x)
  BY <1>1, KeepingAlive!LoopExists
<1>3. IsAfter(r)
  BY <1>2 DEF KeepingAlive!IsLoop, KeepAliveNext
<1>4. IsAfter(after)
  BY <1>3
<1>5. KeepingAlive!IsLoop(after, N, p, x)
  BY <1>4 DEF KeepingAlive!IsLoop, KeepAliveNext
<1>6. KeepAlives(p, ids, message) = after[N]
  BY DEF KeepAlives, ForEach
<1> HIDE DEF after
<1>7. TendedFrom(p, 0, x)
  BY ReachesItself DEF TendedFrom, Tends
<1>8. \A k \in 1 .. N : \A s : TendedFrom(s, k - 1, x) => TendedFrom(KeepAliveNext(s, k, x), k, x)
  <2> SUFFICES ASSUME NEW k \in 1 .. N, NEW s, Tends(a, p, s, G)
               PROVE  Tends(a, p, KeepAliveNext(s, k, x), G)
    BY DEF TendedFrom
  <2> DEFINE t == SendTo(s, k - 1, message)
  <2>1. t = SendTo(s, k - 1, message) /\ Sound(a, s, G) /\ message \in Sent(a, s.granted)
    BY DEF Tends, Reaches
  <2> HIDE DEF t
  <2>2. Tends(a, s, t, G)
    BY <2>1, SendToReaches DEF Tends, SameBooks, SameLists
  <2> QED
    BY <2>1, <2>2, TendsTransitive DEF KeepAliveNext
<1>9. \A k \in 0 .. N : TendedFrom(after[k], k, x)
  <2> HIDE DEF x, N
  <2> QED
    BY <1>1, <1>5, <1>7, <1>8, KeepingAlive!LoopInvariant
<1> QED
  BY <1>1, <1>6, <1>9 DEF TendedFrom

\* Peer::updatePeers.
LEMMA UpdatePeersEvolves ==
    ASSUME NEW a \in Addresses, NEW p, NEW G, Sound(a, p, G), NEW timedOut, NEW silent
    PROVE  LET q == UpdatePeers(p, timedOut, silent)
           IN  Sound(a, q, G) /\ Evolves(a, p, q)
<1> DEFINE marked == DisconnectPeers(p, timedOut)
           gone == {id \in DOMAIN p.m_peers : marked.m_peers[id].m_state = "Disconnected"}
           kept == RemovePeers(marked, gone)
           ids == silent \ gone
           serverSent == IF IsServer(p) THEN 1 ELSE 0
           keepAlive == KeepAlive(serverSent)
           q == KeepAlives(kept, ids, keepAlive)
<1>1. UpdatePeers(p, timedOut, silent) = q
  BY DEF UpdatePeers, KeepAlives
<1>2. Reaches(a, p, marked, G)
  BY DisconnectPeersReaches
<1>3. Sound(a, kept, G) /\ Evolves(a, marked, kept)
  <2>1. gone \in SUBSET DOMAIN marked.m_peers
    BY <1>2 DEF Reaches, Keeps
  <2> HIDE DEF marked
  <2> QED
    BY <1>2, <2>1, RemovePeersEvolves DEF Reaches
<1>4. Evolves(a, p, kept)
  BY <1>2, <1>3, EvolvesAfterReaches
<1> HIDE DEF kept
<1>5. \A g : keepAlive \in Sent(a, g)
  <2>1. serverSent \in 0 .. NoID
    BY DEF NoID
  <2> HIDE DEF serverSent
  <2> QED
    BY <2>1, MessagesSent
<1> HIDE DEF keepAlive, ids
<1>6. Tends(a, kept, q, G)
  BY <1>3, <1>5, KeepAlivesTend
<1> HIDE DEF q
<1>7. Evolves(a, p, q)
  BY <1>4, <1>6, TendsAfterEvolves
<1> QED
  BY <1>1, <1>6, <1>7 DEF Tends, Reaches

-----------------------------------------------------------------------------
\* Peer::send for one peer, and for those to which a packet is due.
LEMMA SendOneTends ==
    ASSUME NEW a, NEW p, NEW G, Sound(a, p, G), NEW id \in DOMAIN p.m_peers
    PROVE  Tends(a, p, SendOne(p, id), G)
<1> DEFINE M == Sent(a, p.granted)
           remote == p.m_peers[id]
           packet == BuildPacket(remote.tx, remote.rx)
           tx == AfterSend(remote.tx, packet)
           sent == [p EXCEPT !.m_peers[id].tx = tx]
           packets == <<[to |-> remote.m_address, packet |-> packet]>>
<1>1. SendOne(p, id) = IF remote.tx.m_pendingMessages = <<>> THEN p
                       ELSE IF FitsBuffer(packet) THEN SendPackets(sent, packets) ELSE sent
  BY DEF SendOne
<1>2. remote \in Remotes(M)
  <2>1. p \in Peers(M, HeldMessages(G))
    BY DEF Sound
  <2> QED
    BY <2>1, PeersOf
<1>3. remote.tx \in Senders(M) /\ remote.rx \in Receivers /\ remote.m_address \in Addresses
  BY <1>2 DEF Remotes
<1>4. packet \in Packets(M) /\ Len(packet.messages) = Len(PacketMessages(remote.tx))
  BY <1>3, BuildPacketType, SentRenumbered
<1> HIDE DEF packet
<1>5. tx \in Senders(M)
  BY <1>3, <1>4, AfterSendType
<1>6. Reaches(a, p, sent, G) /\ SameBooks(p, sent)
  <2>1. sent = [p EXCEPT !.m_peers[id].tx = tx]
    OBVIOUS
  <2> HIDE DEF sent, tx
  <2> QED
    BY <1>5, <2>1, SetSenderReaches
<1> HIDE DEF sent
<1>7. packets \in Seq(Directed(Sent(a, sent.granted)))
  <2>1. sent.granted = p.granted
    BY <1>6 DEF SameBooks, SameLists
  <2> DEFINE wire == [to |-> remote.m_address, packet |-> packet]
  <2>2. wire \in Directed(M)
    BY <1>3, <1>4 DEF Directed
  <2> HIDE DEF wire
  <2>3. <<wire>> \in Seq(Directed(M))
    BY <2>2
  <2> QED
    BY <2>1, <2>3 DEF wire
<1> HIDE DEF packets
<1>8. Reaches(a, sent, SendPackets(sent, packets), G) /\ SameBooks(sent, SendPackets(sent, packets))
  BY <1>6, <1>7, SendPacketsReaches DEF Reaches
<1>9. Tends(a, p, sent, G) /\ Tends(a, sent, SendPackets(sent, packets), G)
  BY <1>6, <1>8 DEF Tends, SameBooks, SameLists
<1>10. Tends(a, p, p, G)
  BY ReachesItself DEF Tends
<1> QED
  BY <1>1, <1>9, <1>10, TendsTransitive

SendNext(p, k, x) == IF k - 1 \in x.due THEN SendOne(p, k - 1) ELSE p

Sending == INSTANCE Loops WITH Step <- SendNext, Holds <- TendedFrom

LEMMA SendTends ==
    ASSUME NEW a, NEW p, NEW G, Sound(a, p, G), NEW due \in SUBSET DOMAIN p.m_peers
    PROVE  Tends(a, p, Send(p, due), G)
<1> DEFINE x == [a |-> a, p |-> p, G |-> G, due |-> due]
           N == p.m_maxPeers + 1
           IsAfter(f) == f = [k \in 0 .. p.m_maxPeers + 1 |->
                IF k = 0 THEN p
                ELSE IF k - 1 \in due THEN SendOne(f[k - 1], k - 1)
                ELSE f[k - 1]]
           after == CHOOSE f : IsAfter(f)
<1>1. N \in Nat
  <2>1. p.m_maxPeers \in 0 .. NoID - 1
    BY DEF Sound, Peers
  <2> QED
    BY <2>1
<1>2. PICK r : Sending!IsLoop(r, N, p, x)
  BY <1>1, Sending!LoopExists
<1>3. IsAfter(r)
  BY <1>2 DEF Sending!IsLoop, SendNext
<1>4. IsAfter(after)
  BY <1>3
<1>5. Sending!IsLoop(after, N, p, x)
  BY <1>4 DEF Sending!IsLoop, SendNext
<1>6. Send(p, due) = after[N]
  BY DEF Send, ForEach
<1> HIDE DEF after
<1>7. TendedFrom(p, 0, x)
  BY ReachesItself DEF TendedFrom, Tends
<1>8. \A k \in 1 .. N : \A s : TendedFrom(s, k - 1, x) => TendedFrom(SendNext(s, k, x), k, x)
  <2> SUFFICES ASSUME NEW k \in 1 .. N, NEW s, Tends(a, p, s, G)
               PROVE  Tends(a, p, SendNext(s, k, x), G)
    BY DEF TendedFrom
  <2>1. CASE k - 1 \notin due
    BY <2>1 DEF SendNext
  <2>2. CASE k - 1 \in due
    <3>1. k - 1 \in DOMAIN s.m_peers /\ Sound(a, s, G)
      BY <2>2 DEF Tends, Reaches
    <3>2. Tends(a, s, SendOne(s, k - 1), G)
      BY <3>1, SendOneTends
    <3> QED
      BY <2>2, <3>2, TendsTransitive DEF SendNext
  <2> QED
    BY <2>1, <2>2
<1>9. \A k \in 0 .. N : TendedFrom(after[k], k, x)
  <2> HIDE DEF x, N
  <2> QED
    BY <1>1, <1>5, <1>7, <1>8, Sending!LoopInvariant
<1> QED
  BY <1>1, <1>6, <1>9 DEF TendedFrom

\* The calls of the application that change the state of the Peer.
LEMMA FindServersEvolves ==
    ASSUME NEW a \in Clients, NEW p, NEW G, Sound(a, p, G)
    PROVE  Sound(a, FindServers(p), G) /\ Evolves(a, p, FindServers(p))
<1> DEFINE left == IF p.m_state = "Disconnected" THEN p ELSE DisconnectAll(p)
           q == [left EXCEPT !.m_state = "Searching"]
<1>1. a \in Addresses /\ a \notin Servers
  BY PeerAssumption DEF Addresses
<1>2. ~IsServer(p)
  BY DEF Sound, ClientSound, IsServer
<1>3. FindServers(p) = q
  BY <1>2 DEF FindServers
<1>4. Reaches(a, p, left, G)
  BY <1>1, DisconnectAllReaches, ReachesItself
<1> HIDE DEF left
<1> DEFINE M == Sent(a, left.granted)
           H == HeldMessages(G)
<1>5. left \in Peers(M, H) /\ "Searching" \in States
  BY <1>4 DEF Reaches, Sound, States
<1> HIDE DEF M, H
<1>6. /\ q \in Peers(M, H) /\ q.m_peers = left.m_peers /\ q.m_addressIDs = left.m_addressIDs
      /\ q.m_maxPeers = left.m_maxPeers /\ q.granted = left.granted
      /\ q.held = left.held /\ q.m_state = "Searching"
  BY <1>5 DEF Peers
<1> HIDE DEF q
<1>7. Sound(a, q, G) /\ Evolves(a, left, q)
  BY <1>1, <1>4, <1>6, OwnStateReaches DEF M, H, Reaches
<1> QED
  BY <1>3, <1>4, <1>7, EvolvesAfterReaches

LEMMA SetServerModeEvolves ==
    ASSUME NEW a \in Servers, NEW p, NEW G, Sound(a, p, G), NEW enable
    PROVE  Sound(a, SetServerMode(p, enable), G) /\ Evolves(a, p, SetServerMode(p, enable))
<1> DEFINE left == IF p.m_state = "Disconnected" THEN p ELSE DisconnectAll(p)
           state == IF enable THEN "ServerMode" ELSE "Disconnected"
           q == [left EXCEPT !.m_state = state]
<1>1. a \in Addresses /\ a \notin Clients
  BY PeerAssumption DEF Addresses
<1>2. SetServerMode(p, enable) = q
  BY DEF SetServerMode
<1>3. Reaches(a, p, left, G)
  BY <1>1, DisconnectAllReaches, ReachesItself
<1> HIDE DEF left
<1> DEFINE M == Sent(a, left.granted)
           H == HeldMessages(G)
<1>4. left \in Peers(M, H)
  BY <1>3 DEF Reaches, Sound
<1>5. state \in {"ServerMode", "Disconnected"} /\ state \in States
  BY DEF States
<1> HIDE DEF M, H, state
<1>6. /\ q \in Peers(M, H) /\ q.m_peers = left.m_peers /\ q.m_addressIDs = left.m_addressIDs
      /\ q.m_maxPeers = left.m_maxPeers /\ q.granted = left.granted
      /\ q.held = left.held /\ q.players = left.players /\ q.m_state = state
  BY <1>4, <1>5 DEF Peers
<1> HIDE DEF q
<1>7. Sound(a, q, G) /\ Evolves(a, left, q)
  BY <1>1, <1>3, <1>5, <1>6, OwnStateReaches DEF M, H, Reaches
<1> QED
  BY <1>2, <1>3, <1>7, EvolvesAfterReaches

-----------------------------------------------------------------------------
\* The sequence of a finite set.
LEMMA SetToSeqType ==
    ASSUME NEW S, IsFiniteSet(S) PROVE SetToSeq(S) \in Seq(S)
<1> DEFINE n == Cardinality(S)
<1>1. n \in Nat /\ ExistsBijection(1 .. n, S)
  BY FS_CardinalityType
<1>2. PICK f \in [1 .. n -> S] : IsInjective(f)
  BY <1>1 DEF ExistsBijection, Bijection, Injection
<1>3. SetToSeq(S) \in [1 .. n -> S]
  BY <1>2 DEF SetToSeq
<1> HIDE DEF n
<1> QED
  BY <1>1, <1>3

\* The probe.
LEMMA ProbeReaches ==
    ASSUME NEW a, NEW p, NEW G, Sound(a, p, G)
    PROVE  Reaches(a, p, Probe(p), G)
<1> DEFINE probe(server) == [to |-> server, packet |-> DirectPacket(DiscoveryRequest)]
           D == Directed(Sent(a, p.granted))
           S == {probe(server) : server \in Servers}
<1>1. Probe(p) = SendPackets(p, SetToSeq(S))
  BY DEF Probe
<1>2. S \in SUBSET D
  <2>1. DirectPacket(DiscoveryRequest) \in Packets(Sent(a, p.granted))
    BY MessagesSent, DirectPacketType
  <2> QED
    BY <2>1 DEF Directed, Addresses
<1>3. IsFiniteSet(S)
  <2> DEFINE f == [server \in Servers |-> probe(server)]
  <2>1. f \in Surjection(Servers, S)
    BY DEF Surjection
  <2> HIDE DEF f, S
  <2> QED
    BY <2>1, PeerAssumption, FS_Surjection
<1> HIDE DEF S
<1>4. SetToSeq(S) \in Seq(D)
  <2>1. SetToSeq(S) \in Seq(S)
    BY <1>3, SetToSeqType
  <2> HIDE DEF D
  <2> QED
    BY <1>2, <2>1, SeqMonotonic
<1> QED
  BY <1>1, <1>4, SendPacketsReaches

-----------------------------------------------------------------------------
\* All Peers, and the packets on their way to each of them.
Grant(P) == [a \in Addresses |-> P[a].granted]

PeersSound(P) ==
    /\ DOMAIN P = Addresses
    /\ \A a \in Addresses : Sound(a, P[a], Grant(P)) /\ P[a].out = <<>>

Queues(P) == [Addresses -> Seq(Wires(Grant(P)))]

\* Being granted more takes nothing away.
LEMMA WiresMonotone ==
    ASSUME NEW G, NEW H, \A a \in Addresses : G[a] \subseteq H[a]
    PROVE  Wires(G) \subseteq Wires(H)
<1> SUFFICES ASSUME NEW wire \in Wires(G) PROVE wire \in Wires(H)
  OBVIOUS
<1>1. wire.from \in Addresses /\ wire.packet \in Packets(Sent(wire.from, G[wire.from]))
  BY DEF Wires
<1>2. Sent(wire.from, G[wire.from]) \subseteq Sent(wire.from, H[wire.from])
  BY <1>1, SentMonotone
<1>3. wire.packet \in Packets(Sent(wire.from, H[wire.from]))
  BY <1>1, <1>2, PacketsMonotone
<1> QED
  BY <1>3 DEF Wires

LEMMA SoundMonotone ==
    ASSUME NEW a, NEW p, NEW G, NEW H, \A b \in Addresses : G[b] \subseteq H[b],
           Sound(a, p, G)
    PROVE  Sound(a, p, H)
<1>1. HeldMessages(G) \subseteq HeldMessages(H)
  BY SentMonotone DEF HeldMessages
<1>2. p \in Peers(Sent(a, p.granted), HeldMessages(H))
  <2>1. p \in Peers(Sent(a, p.granted), HeldMessages(G))
    BY DEF Sound
  <2> QED
    BY <1>1, <2>1, PeersMonotone
<1>3. ASSUME a \in Servers PROVE ServerSound(p, H)
  <2>1. SlotsSound(p, G)
    BY <1>3 DEF Sound, ServerSound
  <2>2. SlotsSound(p, H)
    BY <2>1 DEF SlotsSound, Addresses
  <2> QED
    BY <1>3, <2>2 DEF Sound, ServerSound
<1> QED
  BY <1>2, <1>3 DEF Sound

LEMMA GrantType == ASSUME NEW P, PeersSound(P) PROVE Grant(P) \in Grants
BY DEF PeersSound, Sound, Peers, Grant, Grants

\* Packets that go into the network.
DeliverNext(queues, k, x) ==
    [queues EXCEPT ![x.packets[k].to] =
        Append(@, [from |-> x.a, packet |-> x.packets[k].packet])]

AreQueues(queues, k, x) == queues \in [Addresses -> Seq(x.W)]

Delivering == INSTANCE Loops WITH Step <- DeliverNext, Holds <- AreQueues

LEMMA DeliverType ==
    ASSUME NEW W, NEW queues \in [Addresses -> Seq(W)], NEW a, NEW M,
           \A packet \in Packets(M) : [from |-> a, packet |-> packet] \in W,
           NEW packets \in Seq(Directed(M))
    PROVE  Deliver(queues, a, packets) \in [Addresses -> Seq(W)]
<1> DEFINE x == [a |-> a, packets |-> packets, W |-> W]
           N == Len(packets)
           IsDelivered(f) == f = [k \in 0 .. Len(packets) |->
                IF k = 0 THEN queues
                ELSE [f[k - 1] EXCEPT ![packets[k].to] =
                        Append(@, [from |-> a, packet |-> packets[k].packet])]]
           delivered == CHOOSE f : IsDelivered(f)
<1>1. N \in Nat
  BY LenProperties
<1>2. PICK r : Delivering!IsLoop(r, N, queues, x)
  BY <1>1, Delivering!LoopExists
<1>3. IsDelivered(r)
  BY <1>2 DEF Delivering!IsLoop, DeliverNext
<1>4. IsDelivered(delivered)
  BY <1>3
<1>5. Delivering!IsLoop(delivered, N, queues, x)
  BY <1>4 DEF Delivering!IsLoop, DeliverNext
<1>6. Deliver(queues, a, packets) = delivered[N]
  BY DEF Deliver
<1> HIDE DEF delivered
<1>7. AreQueues(queues, 0, x)
  BY DEF AreQueues
<1>8. \A k \in 1 .. N : \A q : AreQueues(q, k - 1, x) => AreQueues(DeliverNext(q, k, x), k, x)
  <2> SUFFICES ASSUME NEW k \in 1 .. N, NEW q \in [Addresses -> Seq(W)]
               PROVE  DeliverNext(q, k, x) \in [Addresses -> Seq(W)]
    BY DEF AreQueues
  <2> DEFINE to == packets[k].to
             wire == [from |-> a, packet |-> packets[k].packet]
             more == Append(q[to], wire)
  <2>1. to \in Addresses /\ packets[k].packet \in Packets(M)
    <3>1. packets[k] \in Directed(M)
      BY ElementOfSeq
    <3> QED
      BY <3>1 DEF Directed
  <2>2. wire \in W
    BY <2>1
  <2>3. DeliverNext(q, k, x) = [q EXCEPT ![to] = more]
    BY DEF DeliverNext
  <2> HIDE DEF to, wire
  <2>4. more \in Seq(W)
    BY <2>1, <2>2, AppendProperties
  <2> HIDE DEF more
  <2> QED
    BY <2>1, <2>3, <2>4
<1>9. \A k \in 0 .. N : AreQueues(delivered[k], k, x)
  <2> HIDE DEF x, N
  <2> QED
    BY <1>1, <1>5, <1>7, <1>8, Delivering!LoopInvariant
<1> QED
  BY <1>1, <1>6, <1>9 DEF AreQueues

\* One Peer has done something, and what it sent is on its way.
LEMMA BecomeSound ==
    ASSUME NEW P, PeersSound(P), NEW a \in Addresses, NEW q, Sound(a, q, Grant(P)),
           Evolves(a, P[a], q), NEW queues \in Queues(P)
    PROVE  LET next == [P EXCEPT ![a] = [q EXCEPT !.out = <<>>]]
           IN  /\ PeersSound(next)
               /\ queues \in Queues(next)
               /\ Deliver(queues, a, q.out) \in Queues(next)
               /\ \A b \in Addresses : Evolves(b, P[b], next[b])
<1> DEFINE r == [q EXCEPT !.out = <<>>]
           next == [P EXCEPT ![a] = r]
           G == Grant(P)
           H == Grant(next)
           M == Sent(a, q.granted)
<1>1. q \in Peers(M, HeldMessages(G)) /\ P[a].granted \subseteq q.granted
  BY DEF Sound, Evolves
<1>2. r \in Peers(M, HeldMessages(G)) /\ SameLists(q, r) /\ r.out = <<>>
  <2> DEFINE I == HeldMessages(G)
  <2>1. q \in Peers(M, I)
    BY <1>1
  <2> HIDE DEF M, I
  <2>2. <<>> \in Seq(Directed(M))
    BY EmptySeq
  <2>3. r \in Peers(M, I) /\ SameLists(q, r) /\ r.out = <<>>
    BY <2>1, <2>2 DEF Peers, SameLists
  <2> QED
    BY <2>3 DEF I
<1> HIDE DEF r
<1>3. Sound(a, r, G) /\ Keeps(a, q, r) /\ r.granted = q.granted
  BY <1>2, SameListsKeep DEF SameLists
<1>4. DOMAIN P = Addresses
  BY DEF PeersSound
<1>5. DOMAIN next = Addresses /\ next[a] = r /\ \A b \in Addresses : b # a => next[b] = P[b]
  BY <1>4
<1> HIDE DEF next
<1>6. \A b \in Addresses : G[b] \subseteq H[b]
  BY <1>1, <1>3, <1>5 DEF Grant
<1>7. H[a] = q.granted
  BY <1>3, <1>5 DEF Grant
<1> HIDE DEF G, H
<1>8. PeersSound(next)
  <2> SUFFICES ASSUME NEW b \in Addresses PROVE Sound(b, next[b], H) /\ next[b].out = <<>>
    BY <1>5 DEF PeersSound, H
  <2>1. CASE b = a
    BY <1>2, <1>3, <1>5, <1>6, <2>1, SoundMonotone
  <2>2. CASE b # a
    <3>1. Sound(b, P[b], G) /\ P[b].out = <<>>
      BY DEF PeersSound, G
    <3> QED
      BY <1>5, <1>6, <2>2, <3>1, SoundMonotone
  <2> QED
    BY <2>1, <2>2
<1>9. queues \in Queues(next)
  <2>1. queues \in [Addresses -> Seq(Wires(G))]
    BY DEF Queues, G
  <2>2. Seq(Wires(G)) \subseteq Seq(Wires(H))
    BY <1>6, WiresMonotone, SeqMonotonic
  <2>3. queues \in [Addresses -> Seq(Wires(H))]
    BY <2>1, <2>2
  <2> QED
    BY <2>3 DEF Queues, H
<1>10. Deliver(queues, a, q.out) \in Queues(next)
  <2>1. q.out \in Seq(Directed(M))
    BY <1>1 DEF Peers
  <2>2. \A packet \in Packets(M) : [from |-> a, packet |-> packet] \in Wires(H)
    <3> TAKE packet \in Packets(M)
    <3>1. packet \in Packets(Messages)
      <4>1. M \subseteq Messages
        BY DEF Sent
      <4> QED
        BY <4>1, PacketsMonotone
    <3>2. packet \in Packets(Sent(a, H[a]))
      BY <1>7
    <3> HIDE DEF M
    <3> QED
      BY <3>1, <3>2 DEF Wires
  <2> DEFINE W == Wires(H)
  <2>3. queues \in [Addresses -> Seq(W)]
    BY <1>9 DEF Queues, H
  <2>4. \A packet \in Packets(M) : [from |-> a, packet |-> packet] \in W
    BY <2>2
  <2> HIDE DEF W, M
  <2>5. Deliver(queues, a, q.out) \in [Addresses -> Seq(W)]
    BY <2>1, <2>3, <2>4, DeliverType
  <2> QED
    BY <2>5 DEF Queues, H, W
<1>11. \A b \in Addresses : Evolves(b, P[b], next[b])
  <2> TAKE b \in Addresses
  <2>1. CASE b = a
    BY <1>2, <1>3, <1>5, <2>1 DEF Evolves, SameLists
  <2>2. CASE b # a
    <3>1. Reaches(b, P[b], P[b], G)
      BY ReachesItself DEF PeersSound, G
    <3> QED
      BY <1>5, <2>2, <3>1, ReachesEvolves
  <2> QED
    BY <2>1, <2>2
<1> QED
  BY <1>8, <1>9, <1>10, <1>11 DEF next, r

\* What receive leaves in the network.
LeaveNext(left, k, x) ==
    IF k \in Range(x.order) THEN left ELSE Append(left, x.queue[k])

AreWires(left, k, x) == left \in Seq(x.W)

Leaving == INSTANCE Loops WITH Step <- LeaveNext, Holds <- AreWires

LEMMA StillOnTheirWayType ==
    ASSUME NEW W, NEW a, net[a] \in Seq(W), NEW order
    PROVE  StillOnTheirWay(a, order) \in Seq(W)
<1> DEFINE queue == net[a]
           x == [order |-> order, queue |-> queue, W |-> W]
           N == Len(queue)
           IsLeft(f) == f = [k \in 0 .. Len(queue) |->
                IF k = 0 THEN <<>>
                ELSE IF k \in Range(order) THEN f[k - 1]
                ELSE Append(f[k - 1], queue[k])]
           left == CHOOSE f : IsLeft(f)
<1>1. N \in Nat /\ queue \in Seq(W)
  BY LenProperties
<1>2. StillOnTheirWay(a, order) = left[N]
  BY DEF StillOnTheirWay
<1> HIDE DEF queue
<1>3. PICK r : Leaving!IsLoop(r, N, <<>>, x)
  BY <1>1, Leaving!LoopExists
<1>4. IsLeft(r)
  BY <1>3 DEF Leaving!IsLoop, LeaveNext
<1>5. IsLeft(left)
  BY <1>4
<1>6. Leaving!IsLoop(left, N, <<>>, x)
  BY <1>5 DEF Leaving!IsLoop, LeaveNext
<1> HIDE DEF left
<1>7. AreWires(<<>>, 0, x)
  BY EmptySeq DEF AreWires
<1>8. \A k \in 1 .. N : \A s : AreWires(s, k - 1, x) => AreWires(LeaveNext(s, k, x), k, x)
  <2> SUFFICES ASSUME NEW k \in 1 .. N, NEW s \in Seq(W)
               PROVE  LeaveNext(s, k, x) \in Seq(W)
    BY DEF AreWires
  <2>1. queue[k] \in W
    BY <1>1, ElementOfSeq
  <2>2. Append(s, queue[k]) \in Seq(W)
    BY <2>1, AppendProperties
  <2> QED
    BY <2>2 DEF LeaveNext
<1>9. \A k \in 0 .. N : AreWires(left[k], k, x)
  <2> HIDE DEF x, N
  <2> QED
    BY <1>1, <1>6, <1>7, <1>8, Leaving!LoopInvariant
<1> QED
  BY <1>1, <1>2, <1>9 DEF AreWires

-----------------------------------------------------------------------------
\* The inductive invariant, and what a step does with every Peer.
IInv == PeersSound(peer) /\ net \in Queues(peer)

AllEvolve == \A a \in Addresses : Evolves(a, peer[a], peer'[a])

LEMMA InitIInv == Init => IInv
<1> SUFFICES ASSUME Init PROVE IInv
  OBVIOUS
<1> DEFINE G == Grant(peer)
<1>1. budget \in Budgets
  BY DEF Init
<1>2. budget.slots \in 0 .. NoID - 1
  BY <1>1, PeerAssumption DEF NoID
<1>3. \A a \in Addresses : Sound(a, peer[a], G) /\ peer[a].out = <<>>
  <2> SUFFICES ASSUME NEW a \in Addresses PROVE Sound(a, peer[a], G) /\ peer[a].out = <<>>
    OBVIOUS
  <2> DEFINE state == IF a \in Servers THEN "ServerMode" ELSE "Disconnected"
             maxPeers == IF a \in Servers THEN budget.slots ELSE 1
             p == NewPeer(state, maxPeers)
             M == Sent(a, {})
             H == HeldMessages(G)
  <2>1. peer[a] = p
    BY DEF Init
  <2>2. state \in States /\ maxPeers \in 0 .. NoID - 1 /\ NoID \in 0 .. NoID
    BY <1>2 DEF States, NoID
  <2>3. /\ <<>> \in PartialFunctions(0 .. NoID, Remotes(M))
        /\ <<>> \in PartialFunctions(Addresses, 0 .. NoID)
    BY EmptyPartialFunction
  <2>4. <<>> \in Seq(H) /\ <<>> \in Seq(Directed(M))
    BY EmptySeq
  <2>5. DOMAIN p.m_peers = {} /\ DOMAIN p.m_addressIDs = {} /\ p.players = {}
    <3>1. DOMAIN <<>> = {}
      OBVIOUS
    <3> QED
      BY <3>1 DEF NewPeer
  <2> HIDE DEF M, H, state, maxPeers, G
  <2>6. p \in Peers(M, H) /\ p.granted = {} /\ p.m_state = state /\ p.out = <<>>
    BY <2>2, <2>3, <2>4 DEF NewPeer, Peers
  <2> HIDE DEF p
  <2>7. ASSUME a \in Servers PROVE ServerSound(p, G)
    BY <2>5, <2>6, <2>7
       DEF state, ServerSound, ListsMirror, SlotsSound, PlayersSound
  <2>8. ASSUME a \in Clients PROVE ClientSound(p)
    BY <2>5, <2>6, <2>8, PeerAssumption DEF state, ClientSound
  <2> QED
    BY <2>1, <2>6, <2>7, <2>8 DEF Sound, M, H
<1>4. DOMAIN peer = Addresses
  BY DEF Init
<1>5. net \in [Addresses -> Seq(Wires(G))]
  <2>1. <<>> \in Seq(Wires(G))
    BY EmptySeq
  <2> QED
    BY <2>1 DEF Init
<1> QED
  BY <1>3, <1>4, <1>5 DEF IInv, PeersSound, Queues

LEMMA BecomeKeeps ==
    ASSUME IInv, NEW a \in Addresses, NEW q, Sound(a, q, Grant(peer)), Evolves(a, peer[a], q),
           NEW queues \in Queues(peer), Become(a, q, queues)
    PROVE  IInv' /\ AllEvolve
<1>1. PeersSound(peer)
  BY DEF IInv
<1> DEFINE next == [peer EXCEPT ![a] = [q EXCEPT !.out = <<>>]]
<1>2. /\ PeersSound(next)
      /\ queues \in Queues(next)
      /\ Deliver(queues, a, q.out) \in Queues(next)
      /\ \A b \in Addresses : Evolves(b, peer[b], next[b])
  BY <1>1, BecomeSound
<1>3. peer' = next /\ net' = IF q.out = <<>> THEN queues ELSE Deliver(queues, a, q.out)
  BY DEF Become
<1> HIDE DEF next
<1>4. PeersSound(peer')
  BY <1>2, <1>3
<1>5. net' \in Queues(peer')
  BY <1>2, <1>3
<1>6. AllEvolve
  BY <1>2, <1>3 DEF AllEvolve
<1> QED
  BY <1>4, <1>5, <1>6 DEF IInv, PeersSound, Queues, Grant

LEMMA FinishKeeps ==
    ASSUME IInv, NEW a \in Addresses, NEW updated, Sound(a, updated, Grant(peer)),
           Evolves(a, peer[a], updated), NEW order, NEW due \in SUBSET DOMAIN updated.m_peers,
           Finish(a, updated, order, due)
    PROVE  IInv' /\ AllEvolve
<1> DEFINE q == Send(updated, due)
           queues == [net EXCEPT ![a] = StillOnTheirWay(a, order)]
<1>1. Tends(a, updated, q, Grant(peer))
  BY SendTends
<1>2. Sound(a, q, Grant(peer)) /\ Evolves(a, peer[a], q)
  BY <1>1, TendsAfterEvolves DEF Tends, Reaches
<1>3. queues \in Queues(peer)
  <2> DEFINE W == Wires(Grant(peer))
  <2>1. net \in [Addresses -> Seq(W)]
    BY DEF IInv, Queues
  <2> HIDE DEF W
  <2>2. StillOnTheirWay(a, order) \in Seq(W)
    BY <2>1, StillOnTheirWayType
  <2>3. queues \in [Addresses -> Seq(W)]
    BY <2>1, <2>2
  <2> QED
    BY <2>3 DEF W, Queues
<1>4. Become(a, q, queues)
  BY DEF Finish
<1> HIDE DEF q, queues
<1> QED
  BY <1>2, <1>3, <1>4, BecomeKeeps

LEMMA EvolvesAfterKeeps ==
    ASSUME NEW a, NEW p, NEW q, NEW r, Keeps(a, p, q), Evolves(a, q, r)
    PROVE  Evolves(a, p, r)
BY DEF Keeps, Evolves, Later

\* The packets that one receive finds.
LEMMA ArrivedType ==
    ASSUME NEW W, NEW a, net[a] \in Seq(W), NEW order \in Arrivals(a)
    PROVE  [i \in DOMAIN order |-> net[a][order[i]]] \in Seq(W)
<1>1. PICK k \in 0 .. Batch : order \in [1 .. k -> 1 .. Reach]
  BY DEF Arrivals
<1>2. k \in Nat /\ DOMAIN order = 1 .. k
  BY <1>1, PeerAssumption
<1>3. \A i \in 1 .. k : net[a][order[i]] \in W
  <2> TAKE i \in 1 .. k
  <2>1. order[i] \in DOMAIN net[a]
    BY <1>2 DEF Arrivals
  <2>2. order[i] \in 1 .. Len(net[a])
    BY <2>1, LenProperties
  <2> QED
    BY <2>2, ElementOfSeq
<1> QED
  BY <1>2, <1>3

LEMMA UpdateKeeps ==
    ASSUME IInv, NEW a \in Addresses, peer[a].m_state # "Disconnected",
           NEW order \in Arrivals(a), NEW probe \in BOOLEAN,
           NEW received, received = Receive(a, order, probe),
           NEW ready \in 0 .. Len(received.p.held),
           NEW processed, processed = ProcessHeld(received, ready),
           NEW timedOut, NEW silent,
           NEW updated, updated = UpdatePeers(processed.p, timedOut, silent),
           NEW due \in SUBSET Sendable(updated), Finish(a, updated, order, due)
    PROVE  IInv' /\ AllEvolve
<1> DEFINE G == Grant(peer)
<1>1. Sound(a, peer[a], G) /\ G \in Grants
  BY GrantType DEF IInv, PeersSound
<1>2. Runs(a, peer[a], G)
  BY <1>1 DEF Runs, Sound, ServerSound, IsServer
<1>6. IsProgress(received) /\ Reaches(a, peer[a], received.p, G)
  <2> DEFINE arrived == [i \in DOMAIN order |-> net[a][order[i]]]
             p == IF probe THEN Probe(peer[a]) ELSE peer[a]
             delayed == a \in budget.delayed
  <2>1. received = ReceiveAll(p, arrived, delayed)
    BY DEF Receive
  <2>2. arrived \in Seq(Wires(G))
    <3> DEFINE W == Wires(G)
    <3>1. net[a] \in Seq(W)
      BY DEF IInv, Queues
    <3> HIDE DEF W
    <3>2. arrived \in Seq(W)
      BY <3>1, ArrivedType
    <3> QED
      BY <3>2 DEF W
  <2>3. Reaches(a, peer[a], p, G)
    BY <1>1, ProbeReaches, ReachesItself
  <2> HIDE DEF arrived, p, delayed, G
  <2>5. Runs(a, p, G)
    BY <1>2, <2>3, StillRuns
  <2>6. /\ IsProgress(ReceiveAll(p, arrived, delayed))
        /\ Reaches(a, p, ReceiveAll(p, arrived, delayed).p, G)
    BY <1>1, <2>2, <2>5, ReceiveAllReaches
  <2> QED
    BY <2>1, <2>3, <2>6, ReachesTransitive
<1>7. Runs(a, received.p, G)
  <2> QED
    BY <1>2, <1>6, StillRuns
<1> HIDE DEF G
<1>8. Sound(a, processed.p, G) /\ Keeps(a, received.p, processed.p)
  BY <1>1, <1>6, <1>7, ProcessHeldKeeps
<1>9. Keeps(a, peer[a], processed.p)
  BY <1>6, <1>8, KeepsTransitive DEF Reaches
<1>10. Sound(a, updated, G) /\ Evolves(a, processed.p, updated)
  BY <1>8, UpdatePeersEvolves
<1>11. due \in SUBSET DOMAIN updated.m_peers
  BY DEF Sendable
<1>12. Evolves(a, peer[a], updated)
  BY <1>9, <1>10, EvolvesAfterKeeps
<1> QED
  BY <1>10, <1>11, <1>12, FinishKeeps DEF G

LEMMA UpdateNetworkKeeps ==
    ASSUME IInv, NEW a \in Addresses, UpdateNetwork(a)
    PROVE  IInv' /\ AllEvolve
<1>1. PICK order \in Arrivals(a), probe \in BOOLEAN :
        /\ probe => peer[a].m_state = "Searching" /\ budget.probes > 0
        /\ LET received == Receive(a, order, probe)
           IN  \E ready \in 0 .. Len(received.p.held) :
                LET processed == ProcessHeld(received, ready)
                    ids == DOMAIN peer[a].m_peers
                IN  \E timedOut \in SUBSET (ids \ processed.heard),
                       silent \in SUBSET (ids \ processed.acked) :
                    /\ Cardinality(timedOut) <= budget.timeouts
                    /\ Cardinality(silent) <= budget.silences
                    /\ LET updated == UpdatePeers(processed.p, timedOut, silent)
                       IN  \E due \in SUBSET Sendable(updated) :
                            /\ peer[a].m_state = "Searching" => due = {}
                            /\ Finish(a, updated, order, due)
                    /\ budget' = [budget EXCEPT !.timeouts = @ - Cardinality(timedOut),
                                                !.silences = @ - Cardinality(silent),
                                                !.probes = @ - IF probe THEN 1 ELSE 0]
  BY Zenon DEF UpdateNetwork
<1> DEFINE received == Receive(a, order, probe)
           processed(ready) == ProcessHeld(received, ready)
<1>2. PICK ready \in 0 .. Len(received.p.held) :
        \E timedOut, silent :
            LET updated == UpdatePeers(processed(ready).p, timedOut, silent)
            IN  \E due \in SUBSET Sendable(updated) : Finish(a, updated, order, due)
  BY <1>1, Zenon
<1>3. PICK timedOut, silent :
        LET updated == UpdatePeers(processed(ready).p, timedOut, silent)
        IN  \E due \in SUBSET Sendable(updated) : Finish(a, updated, order, due)
  BY <1>2, Zenon
<1> DEFINE updated == UpdatePeers(processed(ready).p, timedOut, silent)
<1>4. PICK due \in SUBSET Sendable(updated) : Finish(a, updated, order, due)
  BY <1>3, Zenon
<1>5. peer[a].m_state # "Disconnected"
  BY DEF UpdateNetwork
<1> QED
  BY <1>1, <1>2, <1>4, <1>5, UpdateKeeps

\* A call of the application.
LEMMA CallKeeps ==
    ASSUME IInv, NEW a \in Addresses, NEW method, NEW q, Sound(a, q, Grant(peer)),
           Evolves(a, peer[a], q), Call(a, method, q)
    PROVE  IInv' /\ AllEvolve
<1>1. net \in Queues(peer) /\ Become(a, q, net)
  BY DEF IInv, Call
<1> QED
  BY <1>1, BecomeKeeps

LEMMA CallsKeep ==
    ASSUME IInv,
           \/ \E a \in Addresses : CallDisconnectAll(a)
           \/ \E c \in Clients : CallFindServers(c) \/ CallConnectTo(c)
           \/ \E server \in Servers : CallSetServerMode(server)
    PROVE  IInv' /\ AllEvolve
<1> DEFINE G == Grant(peer)
<1>1. \A a \in Addresses : Sound(a, peer[a], G)
  BY DEF IInv, PeersSound
<1>2. ASSUME NEW a \in Addresses, CallDisconnectAll(a) PROVE IInv' /\ AllEvolve
  <2> DEFINE q == DisconnectAll(peer[a])
  <2>1. Reaches(a, peer[a], q, G)
    BY <1>1, DisconnectAllReaches
  <2>2. Sound(a, q, G) /\ Evolves(a, peer[a], q)
    BY <2>1, ReachesEvolves DEF Reaches
  <2>3. Call(a, "DisconnectAll", q)
    BY <1>2 DEF CallDisconnectAll
  <2> HIDE DEF q
  <2> QED
    BY <2>2, <2>3, CallKeeps
<1>3. ASSUME NEW c \in Clients, CallFindServers(c) PROVE IInv' /\ AllEvolve
  <2> DEFINE q == FindServers(peer[c])
  <2>1. c \in Addresses
    BY DEF Addresses
  <2>2. Sound(c, q, G) /\ Evolves(c, peer[c], q)
    BY <1>1, <2>1, FindServersEvolves
  <2>3. Call(c, "FindServers", q)
    BY <1>3 DEF CallFindServers
  <2> HIDE DEF q
  <2> QED
    BY <2>1, <2>2, <2>3, CallKeeps
<1>4. ASSUME NEW c \in Clients, CallConnectTo(c) PROVE IInv' /\ AllEvolve
  <2>1. PICK server \in Servers : Call(c, "ConnectTo", ConnectTo(peer[c], server))
    BY <1>4 DEF CallConnectTo
  <2> DEFINE q == ConnectTo(peer[c], server)
  <2>2. c \in Addresses
    BY DEF Addresses
  <2>3. Reaches(c, peer[c], q, G)
    BY <1>1, <2>2, ConnectToReaches
  <2>4. Sound(c, q, G) /\ Evolves(c, peer[c], q)
    BY <2>3, ReachesEvolves DEF Reaches
  <2>5. Call(c, "ConnectTo", q)
    BY <2>1
  <2> HIDE DEF q
  <2> QED
    BY <2>2, <2>4, <2>5, CallKeeps
<1>5. ASSUME NEW server \in Servers, CallSetServerMode(server) PROVE IInv' /\ AllEvolve
  <2>1. PICK enable \in BOOLEAN :
            Call(server, "SetServerMode", SetServerMode(peer[server], enable))
    BY <1>5 DEF CallSetServerMode
  <2> DEFINE q == SetServerMode(peer[server], enable)
  <2>2. server \in Addresses
    BY DEF Addresses
  <2>3. Sound(server, q, G) /\ Evolves(server, peer[server], q)
    BY <1>1, <2>2, SetServerModeEvolves
  <2>4. Call(server, "SetServerMode", q)
    BY <2>1
  <2> HIDE DEF q
  <2> QED
    BY <2>2, <2>3, <2>4, CallKeeps
<1> QED
  BY <1>2, <1>3, <1>4, <1>5

\* The network.
LEMMA NetworkKeeps ==
    ASSUME IInv, UNCHANGED peer, NEW a \in Addresses, NEW queue,
           \A W : net[a] \in Seq(W) => queue \in Seq(W), net' = [net EXCEPT ![a] = queue]
    PROVE  IInv' /\ AllEvolve
<1> DEFINE W == Wires(Grant(peer))
<1>1. net \in [Addresses -> Seq(W)]
  BY DEF IInv, Queues
<1> HIDE DEF W
<1>2. queue \in Seq(W)
  BY <1>1
<1>3. net' \in [Addresses -> Seq(W)]
  BY <1>1, <1>2
<1>4. AllEvolve
  <2> SUFFICES ASSUME NEW b \in Addresses PROVE Evolves(b, peer[b], peer[b])
    BY DEF AllEvolve
  <2>1. Sound(b, peer[b], Grant(peer))
    BY DEF IInv, PeersSound
  <2> QED
    BY <2>1, ReachesItself, ReachesEvolves
<1> QED
  BY <1>3, <1>4 DEF IInv, PeersSound, Queues, Grant, W

LEMMA LoseKeeps ==
    ASSUME IInv, NEW a \in Addresses, Lose(a)
    PROVE  IInv' /\ AllEvolve
<1>1. PICK i \in DOMAIN net[a] : net' = [net EXCEPT ![a] = RemoveAt(net[a], i)]
  BY DEF Lose
<1> DEFINE queue == RemoveAt(net[a], i)
<1>2. \A W : net[a] \in Seq(W) => queue \in Seq(W)
  BY RemoveAtType
<1>3. UNCHANGED peer /\ net' = [net EXCEPT ![a] = queue]
  BY <1>1 DEF Lose
<1> HIDE DEF queue
<1> QED
  BY <1>2, <1>3, NetworkKeeps

LEMMA DuplicateKeeps ==
    ASSUME IInv, NEW a \in Addresses, Duplicate(a)
    PROVE  IInv' /\ AllEvolve
<1>1. PICK i \in DOMAIN net[a] : net' = [net EXCEPT ![a] = Append(net[a], net[a][i])]
  BY DEF Duplicate
<1> DEFINE queue == Append(net[a], net[a][i])
<1>2. \A W : net[a] \in Seq(W) => queue \in Seq(W)
  <2> SUFFICES ASSUME NEW W, net[a] \in Seq(W) PROVE queue \in Seq(W)
    OBVIOUS
  <2>1. net[a][i] \in W
    BY ElementOfSeq, LenProperties
  <2> QED
    BY <2>1, AppendProperties
<1>3. UNCHANGED peer /\ net' = [net EXCEPT ![a] = queue]
  BY <1>1 DEF Duplicate
<1> HIDE DEF queue
<1> QED
  BY <1>2, <1>3, NetworkKeeps

LEMMA NextIInv ==
    ASSUME IInv, [Next]_vars
    PROVE  IInv' /\ (UNCHANGED vars \/ AllEvolve)
<1>1. ASSUME Next PROVE IInv' /\ AllEvolve
  <2>1. ASSUME NEW a \in Addresses, UpdateNetwork(a) PROVE IInv' /\ AllEvolve
    BY <2>1, UpdateNetworkKeeps
  <2>2. ASSUME NEW a \in Addresses, Lose(a) PROVE IInv' /\ AllEvolve
    BY <2>2, LoseKeeps
  <2>3. ASSUME NEW a \in Addresses, Duplicate(a) PROVE IInv' /\ AllEvolve
    BY <2>3, DuplicateKeeps
  <2> QED
    BY <1>1, <2>1, <2>2, <2>3, CallsKeep DEF Next
<1>2. ASSUME UNCHANGED vars PROVE IInv'
  BY <1>2 DEF vars, IInv, PeersSound, Queues, Grant
<1> QED
  BY <1>1, <1>2

-----------------------------------------------------------------------------
\* In every run each Peer is sound and what is on its way is what was sent: a
\* server's lists agree with each other and with what its application was told,
\* and whatever packet or held message tells a client an ID was sent to it by
\* the server after it had granted that ID.
THEOREM PeersStaySound == Spec => []IInv
<1>1. IInv /\ [Next]_vars => IInv'
  BY NextIInv
<1> QED
  BY <1>1, InitIInv, PTL DEF Spec

\* After every call a Peer's lists have their types: a server knows clients by
\* IDs from 1 to m_maxPeers and a client knows only its server.
LEMMA IInvTypeOK == IInv => TypeOK
<1> SUFFICES ASSUME IInv, NEW a \in Addresses
             PROVE  LET p == peer[a]
                    IN  /\ p.m_state \in States
                        /\ p.m_assignedID \in 0 .. NoID
                        /\ p.out = <<>>
                        /\ \A entry \in ToSet(p.held) : entry.from \in Addresses
                        /\ \A id \in DOMAIN p.m_peers :
                            /\ p.m_peers[id].m_state \in States
                            /\ p.m_peers[id].m_assignedID = id
                            /\ id \in IF a \in Servers THEN 1 .. p.m_maxPeers ELSE {ServerID}
  BY DEF TypeOK
<1> DEFINE p == peer[a]
           M == Sent(a, p.granted)
           H == HeldMessages(Grant(peer))
<1>1. Sound(a, p, Grant(peer)) /\ p.out = <<>>
  BY DEF IInv, PeersSound
<1>2. p \in Peers(M, H)
  BY <1>1 DEF Sound
<1>3. p.m_state \in States /\ p.m_assignedID \in 0 .. NoID /\ p.held \in Seq(H)
  BY <1>2 DEF Peers
<1>4. \A entry \in ToSet(p.held) : entry.from \in Addresses
  <2>1. \A entry \in H : entry.from \in Addresses
    BY DEF HeldMessages
  <2> HIDE DEF H
  <2>2. \A i \in DOMAIN p.held : p.held[i] \in H
    BY <1>3, ElementOfSeq, LenProperties
  <2> QED
    BY <2>1, <2>2 DEF ToSet
<1>5. \A id \in DOMAIN p.m_peers : p.m_peers[id].m_state \in States
  BY <1>2, PeersOf DEF Remotes
<1>6. \A id \in DOMAIN p.m_peers :
        /\ p.m_peers[id].m_assignedID = id
        /\ id \in IF a \in Servers THEN 1 .. p.m_maxPeers ELSE {ServerID}
  BY <1>1 DEF Sound, ServerSound, SlotsSound, ClientSound, Addresses
<1> QED
  BY <1>1, <1>3, <1>4, <1>5, <1>6

THEOREM PeerTypeOK == Spec => []TypeOK
BY PeersStaySound, IInvTypeOK, PTL

\* What the application of a server was told and what the server knows never
\* part: the players announced and not since reported gone are the connected
\* peers.
THEOREM PlayersStayKnown == Spec => []PlayersKnown
<1>1. IInv => PlayersKnown
  <2> SUFFICES ASSUME IInv, NEW server \in Servers
               PROVE  peer[server].players =
                        {id \in DOMAIN peer[server].m_peers :
                            peer[server].m_peers[id].m_state = "Connected"}
    BY DEF PlayersKnown
  <2>1. Sound(server, peer[server], Grant(peer))
    BY DEF IInv, PeersSound, Addresses
  <2>2. peer[server].players \subseteq 0 .. NoID /\ DOMAIN peer[server].m_peers \subseteq 0 .. NoID
    BY <2>1, PeersOf DEF Sound, Peers
  <2> QED
    BY <2>1, <2>2 DEF Sound, ServerSound, PlayersSound
<1> QED
  BY <1>1, PeersStaySound, PTL

\* A server takes a client for connected only under an ID that client was told,
\* whatever packets of earlier connections still arrive or are held.
THEOREM ConnectedStaysGranted == Spec => []ConnectedWasGranted
<1>1. IInv => ConnectedWasGranted
  <2> SUFFICES ASSUME IInv, NEW server \in Servers, NEW c \in Clients, NEW id,
                      ConnectedAs(server, c, id)
               PROVE  id \in peer[c].granted
    BY DEF ConnectedWasGranted
  <2>1. Sound(server, peer[server], Grant(peer))
    BY DEF IInv, PeersSound, Addresses
  <2>2. id \in Grant(peer)[c]
    BY <2>1 DEF ConnectedAs, Sound, ServerSound, SlotsSound
  <2> QED
    BY <2>2 DEF Grant, Addresses
<1> QED
  BY <1>1, PeersStaySound, PTL

\* With one server, the two lists of every Peer mirror each other: no address
\* leads to another peer or to none, and no two peers have the same address.
THEOREM AddressBookStays ==
    ASSUME OnlyOneServer PROVE Spec => []AddressBook
<1>1. IInv => AddressBook
  <2> SUFFICES ASSUME IInv, NEW a \in Addresses
               PROVE  LET p == peer[a]
                      IN  /\ \A id \in DOMAIN p.m_peers :
                                AddressToPeer(p, p.m_peers[id].m_address) = id
                          /\ \A address \in DOMAIN p.m_addressIDs :
                                AddressToPeer(p, address) # NoID
    BY DEF AddressBook
  <2>1. Sound(a, peer[a], Grant(peer))
    BY DEF IInv, PeersSound
  <2>2. NoID \notin DOMAIN peer[a].m_peers
    BY <2>1, NoIDUnused
  <2>3. CASE a \in Servers
    BY <2>1, <2>2, <2>3 DEF Sound, ServerSound, ListsMirror, AddressToPeer
  <2>4. CASE a \in Clients
    BY <2>1, <2>2, <2>4 DEF Sound, ClientSound, AddressToPeer
  <2> QED
    BY <2>3, <2>4 DEF Addresses
<1> QED
  BY <1>1, PeersStaySound, PTL

\* A slot of a server is not given to another client, and the connection in it
\* goes from Connecting over Connected to Disconnected only.
THEOREM SlotsStayKept == Spec => SlotsKept
<1> DEFINE A == \A server \in Servers :
                    \A id \in DOMAIN peer[server].m_peers \cap DOMAIN peer'[server].m_peers :
                        LET before == peer[server].m_peers[id]
                            after == peer'[server].m_peers[id]
                        IN  /\ after.m_address = before.m_address
                            /\ after.m_state \in Later(before.m_state)
<1>1. IInv /\ [Next]_vars => [A]_vars
  <2> SUFFICES ASSUME IInv, [Next]_vars, ~UNCHANGED vars PROVE A
    OBVIOUS
  <2>1. AllEvolve
    BY NextIInv
  <2> QED
    BY <2>1 DEF AllEvolve, Evolves, Addresses
<1>2. SlotsKept <=> [][A]_vars
  BY DEF SlotsKept
<1> QED
  BY <1>1, <1>2, PeersStaySound, PTL DEF Spec
=============================================================================
