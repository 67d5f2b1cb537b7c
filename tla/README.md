# libquicknet: specifications, model checking and proofs

libquicknet is a UDP networking library for games. A `Peer` is a server or a
client; it keeps one `RemotePeer` for every peer it talks to. An application
calls the methods of its `Peer` and, in a loop, `UpdateNetwork`, which reads the
socket, maintains the peers and sends what is pending. Everything in one process
runs in one thread. What is hard is between processes: packets that are lost,
repeated, late or out of order, sequence numbers that wrap, timeouts, and peers
that disagree about whether they are connected.

## Inventory

| Component | State | Operations | What makes it correct |
|---|---|---|---|
| Sequence tracking (`quicknet_remotepeer.cpp`) | `m_sequenceIn`, `m_sequenceRound`, `m_seqtrackReceived` | `IsSequenceNewer`, `SetSequenceIn`, `SaveReceivedSequence`, `MessageDuplicated`, `GetAckBits` | no message processed twice, acknowledgements true and complete, across wrap-around |
| Reliable delivery (`Peer::send`, `Peer::parseBuffer`, `Packet`, `RemotePeer`) | `m_sequenceOut`, `m_pendingMessages`, `m_reliableMessages`, three clocks | `SendTo`, merging, numbering, retransmission, `ProcessAckBits`, KeepAlive | a reliable message is given up only when the other end has it, is processed once, and arrives at last |
| Connection lifecycle (`quicknet_peer.cpp`) | `m_state`, `m_assignedID`, `m_peers`, `m_addressIDs` | `FindServers`, `ConnectTo`, `DisconnectAll`, `SetServerMode`, `UpdateNetwork`, one handler per system message | both ends agree on the ID, slots and addresses are used by one client at a time, disconnection is noticed |
| Latency faker (`quicknet_latencyfaker.cpp`) | a queue of messages with arrival times and addresses | `AddPendingMessage`, `GetMessageReady` | messages keep their order and are processed once, for the peer that sent them |
| Round-trip estimation (`UpdateRTT`, `m_seqtrackSent`) | `m_rtt`, `m_ping`, send times | `RequeueMessage`, `ProcessAckBits`, KeepAlive answers | a measurement belongs to a message and its answer, the average to the measurements |
| Timers (`updatePeers`, `send`, `quicknet_time.cpp`) | `m_lastMessageTime`, `m_lastAckTime`, `m_lastSend`, the first reading of the clock | KeepAlive, timeout, 50 ms between packets | a connection lives as long as packets arrive, and ends only after the timeout |
| Wire format (`quicknet_stream.cpp`, `quicknet_packet.cpp`, `DeSerialize`, CRC16) | a position in a buffer | reads and writes, `Skip`, checksum, the loop of `parseBuffer` | what is written is read back whatever is skipped in between, corrupt packets change nothing, the loop ends |
| Socket, addresses, logging, random numbers | — | system calls | outside the protocol |

How they interact: the application calls `Peer`; `Peer` calls `RemotePeer` for
queues, sequences and acknowledgements and builds `Packet`s of `Message`s, which
`UDPSocket` sends. On receipt `parseBuffer` verifies the checksum, gives the packet's
acknowledgements to the `RemotePeer`, then passes every message through the
sequence check to `processMessage`, directly or through the latency faker. It
may change the state of the `Peer`, add or mark peers, queue answers, or call
the application back. Two ends share nothing but the packets.

Hard behaviour, with its line, is listed under `hazards` in `PROJECT.json`.

## Modules

| Module | Models | Built on |
|---|---|---|
| `SequenceNumbers` | sequence arithmetic, rounds, table of received sequences, acknowledgement bits (operators) | |
| `SequenceTracking` | the receive side of one `RemotePeer` as a state machine, one step per message found in a packet | `SequenceNumbers` |
| `UniqueDelivery` | what it promises, told with numbers that never wrap | |
| `RemotePeer` | queues, numbering, merging and acknowledgement on the send side (operators) | `SequenceNumbers` |
| `ReliableLink` | an established connection: two ends, their latency fakers, a faulty network | `RemotePeer`, `ReliableChannel` |
| `ReliableChannel` | what a connection promises its two applications, without packets, numbers or acknowledgements | |
| `Peer` | servers and clients: discovery, handshake, timeouts, disconnection, slots, callbacks | `RemotePeer` |
| `Clock` | the elapsed time of both platforms, with the integers of the code (operators) | |
| `RoundTrip` | an established connection in time: timers, latency faker, round trips | `RemotePeer`, `Clock` |
| `Stream`, `Checksum` | reading and writing a buffer; CRC16 (operators) | |
| `Wire` | a packet as bytes, from `Packet::ToBuffer` over a corrupting network to the loop of `parseBuffer` | `SequenceNumbers`, `Stream`, `Checksum` |
| `SequenceTrackingProofs`, `ReliableChannelProofs` | proofs | the module named, `RemotePeerProofs` |
| `ReliableLinkProofs` | proofs: which message has which number, at both ends and on the way | `ReliableLink`, `RemotePeerProofs` |
| `LinkChannelProofs` | proofs: what the ends conclude from sequences; the link implements the channel and keeps its promises | `ReliableLinkProofs`, `ReliableChannelProofs` |
| `RoundTripProofs` | proofs: the clock, the average, the journey of a KeepAlive | `RoundTrip`, `RemotePeerProofs` |
| `Loops` | the two lemmas about loops that the proofs below use | |
| `RemotePeerProofs` | proofs: what the operators on queues and packets return | `RemotePeer`, `Loops` |
| `PeerProofs` | proofs: the methods and handlers of `Peer`, then `UpdateNetwork`, the network and the theorems | `Peer`, `RemotePeerProofs` |
| `MC...` | instances for TLC | the module named after `MC` |

The same connection is looked at three times, each time with another part of it
left out. `ReliableLink` has messages, numbers and faults without time,
`RoundTrip` has time with few messages, `Wire` has the bytes of one packet.
`ReliableLink` and `Peer` take a packet for a sequence of messages that arrives
as it was sent or not at all; the properties of `Wire` are what justifies that.
`Peer` has what happens before and after a connection. All share the
operators of `SequenceNumbers` and, but for `Wire`, of `RemotePeer`.

Definitions carry the names of the code's methods and fields. Some definitions
are marked `Mutant`: they are plausible bugs, not used by the specification; each
checked property is violated when one of them replaces its original (list in
`PROJECT.json`).

### SequenceTracking

The state is the three receive-side fields (`rx`) and three history variables
that no guard of the receiver reads: how often each message was processed, the
unwrapped number of the newest one, and the last ordered one. `ProcessMessage` and `SkipMessage` are
the two ways through the loop of `Peer::parseBuffer` (565-617). The environment
may present any message at any time, as often as it likes, provided it is less
than `Half` away from the newest one. This is the assumption the comment at
`quicknet_remotepeer.cpp:199` makes; the `ReliableLink` run `crowded_packet`
shows what happens without it.

### ReliableLink and ReliableChannel

One client and one server after the handshake, each with one `RemotePeer` for
the other. `SendTo` is the application; `Send` and `SendLost` are `Peer::send`
for one peer; `Receive` and `ReceiveDuplicate` are one turn of `Peer::receive`
with the whole of `parseBuffer`; `SendKeepAlive` is the part of `updatePeers`
that answers silence. An end in `delayed` has fake latency: a message that
passed the sequence check is appended to `held` and processed by `ProcessHeld`,
from the front. A failing socket, the fake loss of either end and a loss
in the network have the same effect on both ends and are one event. A message
has flags and a size; application messages come from a script. Clocks are what they enable:
the 50 ms between sends are "later", the 100 ms without acknowledgements are the
flag `silent`, which `Silence` sets and any packet clears.

The connection is not young: `Exchanged` messages have been received both ways,
so that the numbers wrap within the behaviours that are explored.

Four pieces of state are history, read by no action: `processed`; `zeroed`, the
messages whose sequence was ever 0; `numbered`, how many messages an end has
numbered; and, with every numbered message, its `number`, which is what
`m_sequence` would be if it did not wrap (a packet has the number of the `newest`
message it acknowledges as well). `Stamped` adds them to the packet that
`BuildPacket` makes. In runs that go on for ever `numbered` would never repeat;
they switch the counting off (`Counting`). `NumbersInWindow` is the assumption
of the comment at `quicknet_remotepeer.cpp:199`, told with these numbers: whatever
is on its way, waits or is acknowledged is less than half a range from the newest
message received. It holds in `reliable_link`, and not in `crowded_packet`.

`ReliableChannel` is the contract: messages that were accepted arrive in the
inbox of the other end, each at most once and ordered ones in order, are read
from it in the order of arrival, and a reliable message stays outstanding until
it has arrived. `ReliableLink` implements it (`ImplementsReliableChannel`): the
inbox is what was processed followed by what the faker holds, outstanding is
what still waits in a queue of its sender, and a message whose sequence was
ever 0 is `renumbered`, the exception described below.

### Peer

Each method of `Peer` is an operator from a Peer to a Peer; packets it sends
collect in the field `out`. One call of `UpdateNetwork` (or of another method) is
one step, with everything it does: the discovery probe, `receive` with every
handler, the held messages, `updatePeers` and `send`. The clocks are arbitrary choices
of the step, restricted by what was heard in it: peers heard
from in this call do not time out, peers whose packets arrived do not get a KeepAlive,
and the peers to which 50 ms have passed (`due`) are any subset. The network keeps a queue per address;
a receive takes up to `Batch` packets among the first `Reach`, in any order.
Two fields are history: `granted`, the IDs a client was told, and `players`,
what the application knows from `OnConnection` and `OnDisconnection`.

Abstractions: the game identifier and the challenge are always right, because all
peers run the same program, so that only the ID of a ConnectionAnswer can be
wrong; the broadcast of a probe reaches every server; game messages are left
out. A Disconnected `Peer` does nothing in `UpdateNetwork`,
so packets wait in its socket, as in the code. Applications do not call back
into the `Peer` from a callback.

### Clock and RoundTrip

Real time (`now`) advances in frames; in each frame both ends call
`UpdateNetwork` once, in any order, unless they stall. Each end reads a clock of
its own, which started at its own moment (`first`); every timer, timestamp and
difference is computed from readings as the code computes it, in 64 and 32
bits. A packet takes between `MinDelay` and `MaxDelay` of real time and may be
lost. `heard`, `samples`, `doubtful` and `disturbed` (how many packets were lost and frames skipped)
are history, kept in real time so that properties can compare what the code concludes with what happened.

### Wire

`WritePacket` writes header, messages and checksum into the send buffer
(`ToStream`: a chain of writes for each header and each message, ended by the first that
fails) and sends as many bytes as `Packet::Size` says. `MessageTest` alone does not report
that its byte did not fit, so a packet can be a byte longer than the buffer; the byte
behind the buffer that goes out with it is one of `BytesBehind`. `Corrupt` flips a burst of bits anywhere;
the receiver's buffer has the same size, so that a longer datagram is cut (`Received`) or, on
Windows, lost with an error (`RecvFails`); `ReceivePacket` is `parseBuffer`
before its loop, and each further step is one turn of the loop: a message that
the sequence check discards (`SkipOld`), whose ID is not known
(`SkipUnknown`), that is processed (`ProcessMessage`), or that fails to
deserialize (`SkipFailed`). A reader may be another program: `reads` gives the
fields its messages have.

## What the runs show

Passing:

| Run | Instance | Shows |
|---|---|---|
| `sequence_tracking` | 6 sequence numbers, 2 acknowledgement bits, 3 rounds, messages 0 to 13 | type, no duplicates, acknowledgements sound and complete, ordered messages in order, the inductive invariant, refinement of `UniqueDelivery` |
| `reliable_link` | 20 sequence numbers, 18 messages exchanged before, 2 or 3 application messages of every kind, with and without fake latency, one loss, one duplicate, one silence per end, packets may overtake one | processed once, reliable messages kept, sequences distinct, ordered messages in order, the numbers in use within the window the code assumes, refinement of `ReliableChannel` |
| `reliable_delivery` | 8 sequence numbers, 6 exchanged, two reliable messages, or one and fake latency, two losses, time without bound | every reliable message arrives |
| `connections` | one server, two clients, one or two slots; eight budgets of calls, probes, losses, duplicates, timeouts, silences and fake latency | the peer list and the address list mirror each other, the application's players are the connected peers, nobody is connected under an ID it was not told, a slot is not taken over |
| `handshake` | four budgets: discovery with three losses, fake latency at both ends with two, two clients for one slot and for two | a handshake the server has begun completes, and no client stays Connecting |
| `round_trip` | seven scenarios: reliable messages one way and both ways, one loss and two, three stalled frames, one of each, fake latency at one end and at both | times are earlier readings of the right clock, send times are those of the waiting messages, each of which has a sequence of its own, the average stays among its samples, no sample is shorter than the way there and back, no timeout comes early, KeepAlives keep a connection, and keep it when one of them is lost and a frame skipped |
| `wire` | 8 system messages and one of the application, packets of one to three of them in and out of sequence, larger ones that miss the buffer by a byte and by more, three reading programs, known and unknown senders; bursts of up to 8 wrong bits at every place | what is read is what was written up to the first message of which the reader has another idea, nothing is taken of a packet that `Packet::Size` makes larger than the buffer, unless its checksum hides what was cut off, and every other one arrives, nothing of a corrupt packet is taken, the loop ends |

Refuted claims of the code's own comments and documents (`findings` quotes them):

| Run | Claim | What happens |
|---|---|---|
| `posix_clock` | the library works on Linux; a peer is dropped after 10 s of silence | in part of every second the Linux clock jumps ahead and all peers are dropped |
| `crowded_packet` | duplicates are detected | a reliable message beyond the reach of the bits is never acknowledged and is processed again half a range later |
| `large_reliable` | the buffer holds the biggest message, more with merging | a reliable message that leaves no room for a KeepAlive is never retransmitted, and silences its end |
| `asked_twice` | the ID in the server's answer is the player ID of the client | a client that left and came back asks once more than it needs to, is given the ID of an answer to its first connection, which other packets had overtaken, and plays under an ID the server has another client connected as |
| `two_servers` | clients allow only one connection | a client that two servers answer is connected at both |

### Behaviour that the properties step around

* A reliable message that is numbered 0 after a wrap is taken by
  `Packet::GenerateMessageHeaders` (`quicknet_packet.cpp:122`) for one without a
  header, is numbered again when it is retransmitted, and is processed twice.
  `ProcessedOnce` excepts these messages (`zeroed`), and `ReliableChannel` has
  `Renumber`.
* An ordered message that is also unsequenced is not checked at all
  (`quicknet_peer.cpp:571`), so that its order is lost: asking for both flags means
  no order. `OrderedInOrder` and `ReliableChannel` promise an order to the others
  (`IsInOrder`).
* With the newest sequence 0 the acknowledgement bits are empty, although
  `quicknet_remotepeer.h:86` promises the last 32 messages. `AckBitsComplete`
  excepts that sequence; all it costs is a retransmission.
* A DisconnectionRequest travels with sequence 0 and can be dropped as a
  duplicate; the other end then keeps the peer until its timeout. One of an
  earlier connection that comes late ends the new one. No property of `Peer`
  depends on its being heard, or would notice either.
* A ConnectionSuccess of an earlier connection makes a client Connected that
  has not been given an ID yet. `SameID`, which `asked_twice` refutes, does not even
  ask for one: it allows the client to have none, and no other property looks at it.
* A client whose server falls silent removes it from its peers (`quicknet_peer.cpp:442`) but
  stays Connected, or Connecting, with the ID it had: it has no peer left and nothing will
  disconnect it. No property promises such a client anything; nothing times out in
  `handshake`.
* A ConnectionRequest, and the refusal of one, are sent once; a client waits
  for its timeout if they are lost. `handshake` loses every other packet.
* An acknowledgement of the first transmission of a message that was sent again
  is measured from the second: a sample may be too short. `AcksReal` bounds
  these samples only until a reliable message is sent again (`doubtful`);
  `KeepAlivesReal` has no such exception.
* An average of 0 counts as no average, and one less than 10 ms below the
  measured round trip does not move (`SmoothedSticks`).
* `parseBuffer` does not look at whether a header could be read: if the reader's
  message is shorter than the writer's, so that a single byte is left, its loop
  never ends. `ParsingEnds` is about programs whose messages agree or are
  unknown.
* `MessageTest::DeSerialize` ignores that its byte could not be written
  (`quicknet_messagetypes.cpp:32`). A packet that is too large by that byte alone is
  sent, with a checksum over `Size()` bytes, the last of which is behind `m_sendBuffer`.
  The receiver cuts it off, and the checksum no longer fits, except for one value of that
  byte in one packet of 256: then all messages before the last are processed, and the last one too,
  with whatever value it had. `LostBySize` excepts this (`CutUnnoticed`), and one packet of
  `wire` has it. For the models that take packets as
  a whole the packet is lost, as `FitsBuffer` of `RemotePeer` has it.
* The checksum stands before the bytes it covers, low byte first. Bursts of
  errors of up to 8 bits are detected everywhere; one of 12 or more that
  reaches from the checksum into the data may not be.

### Bounds, and why they are enough

* Sequence numbers: the code compares against half the range and looks at most
  one round back. `sequence_tracking` goes through the range more than twice
  with each message up to half a range out of place; `reliable_link` starts two
  numbers before the wrap with at most a dozen to go. The proofs
  of `SequenceTracking` hold for every range.
* Acknowledgement bits: 2 instead of 32, so that messages fall out of their reach.
* Packet sizes: room for three small messages in `reliable_link`, so that
  merging is cut off by the limit.
* Faults: one loss and one duplicate together already combine with overtaking;
  two losses in `reliable_delivery` lose a message and its first retransmission,
  three in `handshake` one packet of each step.
* `Peer`: DisconnectionRequests are sent twice instead of five times; more copies
  only lengthen the queue. Sequence numbers do not wrap in a handshake.
  A budget says what one behaviour may contain, so that each combination of
  faults that interacts is explored without all of them at once; a second
  server is needed only where it matters, in `two_servers`. `asked_twice` needs neither
  a loss nor a duplicate, only one packet that overtakes another, as does its
  counterpart in the code: the sequence check of a new connection starts afresh.
* `Rounds` in `reliable_link`, `reliable_delivery`, `Peer`, `RoundTrip` and
  `Wire` is only larger than the rounds reached.
* `RoundTrip`: a second has 12 parts of real time, of which the clock counts 6, so
  that readings are rounded; m_sendTime : s_maxWithoutAcks : s_connectionTimeout is 1 : 2 : 10
  instead of 1 : 2 : 200, a frame is one unit of the clock, a packet takes up to two frames.
  A scenario has eleven frames, which is longer than a timeout, or, with fake latency,
  two losses, or a loss and a skipped frame, 16 or 20, so that a timeout can follow after
  the first KeepAlives. The shorter timeout makes `StaysConnected` harder to meet, not easier:
  within ten units, a lost KeepAlive and a skipped frame can still be made up for. What ends are promised that
  send other messages as well, and more faults than that, depends on the traffic; there
  the property asks for nothing. The integers
  are wide enough not to wrap, as in the code, where 32 bits hold differences of 49 days.
* `Wire`: a buffer of 48 bytes, which the largest packets exceed, by one byte or more;
  three values for the byte behind it, one of which the checksum of one packet hides; sizes of
  fields and headers are those of the code.

Deadlock is checked in the runs of `SequenceTracking`. The others end when the script,
the budget, the frames or the packet are used up, hence `CHECK_DEADLOCK FALSE`.

### Fairness

`reliable_delivery` and `large_reliable` check `FairSpec` of `ReliableLink`: weak
fairness of `Send`, `Receive`, `SendKeepAlive`, `ProcessHeld` and of time for each end. The application calls `UpdateNetwork`
for ever (`src/test/test.cpp:63`), which reads the socket, looks at every clock and
sends what is pending, so that none of these can be put off for ever once it is enabled. Losses are
bounded, so a packet that is sent again and again arrives. Time passes only
while a reliable message is undelivered and nothing is pending, held or on its way:
packets are faster than 100 ms, and afterwards KeepAlives would go on for ever.
Nothing is assumed about the application's own messages.

`handshake` checks `FairSpec` of `Peer`: every Peer gets to a call of
`UpdateNetwork` that finds what has arrived as long as there is something to do,
and the 100 ms after which a KeepAlive is sent pass while a handshake waits. The
fairness conditions are written with the conditions under which these calls
change something, which imply that they are enabled: TLC evaluates these much
faster than `ENABLED`.

`wire` assumes that the functions run on and that the loop turns as long as it
reads something; a turn that reads nothing is allowed to repeat for ever.

A clock that goes forward is assumed in all of these. That is what
`elapsedMonotonicTime` does in its Windows branch (`WindowsClockMonotone`) and
does not in the other one (`posix_clock`).

## What is proved

`SequenceTrackingProofs` proves, for every `Half > 1`, every width of the
acknowledgement bits below the range, every range of the round counter and every
number of messages that the round counter can spell:

* `Invariant`, `TypeCorrect`: the inductive invariant `IInv`, and the type
  invariant in it;
* `NoDuplicates`: no message is processed twice;
* `AckSoundness`, `AckCompleteness`: the bits report exactly the processed
  messages in their reach, unless the newest sequence is 0;
* `OrderedInOrder`: ordered unreliable messages are processed in ascending order;
* `Refinement`: `SequenceTracking` implements `UniqueDelivery`.

That no message is processed twice is not inductive: the duplicate check looks
at the table, not at the history. `IInv` adds the link. The round and the newest
sequence spell the newest number (`NewestSpelled`); every table entry spells a
processed number not above it (`EntriesProcessed`); every processed number has
an entry of its own round or a later one (`ProcessedHaveEntries`). A message
within half a range of the newest one then has exactly one round it can be of,
the one `MessageDuplicated` computes (lemmas `Window` and `InReach`), so an entry of
that round is that message (`SpellingUnique`). A processed message whose entry
was overwritten by a later round is a whole range behind and cannot come back
through the window. The assumptions are those named in the modules:
`SequenceAssumption`, `MaxNumberAssumption` (the 32-bit round counter does not
wrap), and the window.

`ReliableChannelProofs` proves what an application may conclude from the
channel, for any messages at two ends: no message arrives twice unless it was
renumbered or is unsequenced (`ArrivesOnce`), ordered messages arrive in order (`ArrivesInOrder`), and
a reliable message is outstanding or has arrived (`ReliablesNotLost`). The
invariant `ChannelInv` adds that inboxes are sequences of accepted messages and
that what is outstanding was accepted. The step that needs an argument is
`Arrivals`, which appends several messages at once: each is compared with
everything before it, in the inbox or among those that arrive with it.

`ReliableLinkProofs` proves, for any scripts, any faults, any sizes of packets and
buffers, any sequence range and without a word about how far packets may be late:

* `NumbersStayConsistent`: the inductive invariant `IInv`;
* `LinkTypeOK`: the type invariant.

`IInv` is told for one direction at a time, from the end `e` to the other. A number
is that of one message, wherever copies of it are: waiting at `e`, in packets,
duplicated or not (`Consistent`). An application message has one number through all
its retransmissions unless its sequence was 0, the exception above. Ordered messages
are numbered in the order in which they were accepted, since those that wait to be sent come
behind all that were sent (`InLine`) and keep their order (`Ahead`). The messages
of a packet ascend (`Ascending`): the retransmission comes first and has an older
number than the fresh ones behind it. Type correctness is not inductive without it: that
what is processed was accepted follows a message from the script through both
queues, packets and the latency faker. Both theorems have the hypothesis
`Counting`: with the history switched off there is nothing they could be about.

`LinkChannelProofs` puts the guarantees of the code together: the link implements the
channel, the channel has the promises. For the same parameters it proves

* `ConclusionsHold`: the inductive invariant `WindowInv`, on top of `IInv`;
* `WaitingStayDistinct`: no two messages wait under one sequence;
* `LinkImplementsChannel`: the refinement `ImplementsReliableChannel`;
* `ProcessedAtMostOnce`, `ProcessedInOrder`, `ReliablesNeverLost`: the three promises,
  which are the theorems of `ReliableChannelProofs` for the channel of this link
  (`Promised`), told with queues and processed messages again;
* `YoungStaysInWindow`, `YoungKeepsPromises`: `NumbersInWindow`, and the three promises with it,
  for as long as few messages were numbered.

The first six have the hypothesis `Counting`, and `[]NumbersInWindow`: that in the behaviour in
question whatever is on its way, waits or is acknowledged stays less than half a range from
the newest number received. The code assumes this and does not see to it
(`quicknet_remotepeer.cpp:199`); `reliable_link` checks that its instance stays in the
window, and `crowded_packet` shows what happens outside. The last two replace it by a
condition on the two ends alone, `FewNumbered`: each has numbered less than half a range of
messages, less the reach of the acknowledgement bits, since the moment the behaviour
begins with (which may be the start of the connection, or any moment at which
everything has arrived). No network, however late and wild, then takes the ends out of
the window. In the program these are 32735 messages; `reliable_link`
numbers less than 8 of them, which is `FewNumbered` for its range.
`NumbersInWindow` is proved together with `WindowInv`: the window of a state is what makes
the next step's conclusions true, and those bound the numbers of the next state
from below (`NumbersOfWindow`).

Neither end knows what has arrived at the other: the receiver has a table of sequences that
wrap, the sender the acknowledgement bits of a packet that may be old. `WindowInv` says that
what they conclude is true. A message in use with an entry in the table has arrived,
and one without has not, unless its sequence was ever 0 or it is not checked (`EntriesArrived`, with
`EntriesKnown` for the newest number). An ordered message newer than all received ones
comes after those that arrived (`OrderAhead`). A waiting message that any packet
on its way acknowledges has arrived (`AcksArrived`); this is true when the packet is
built, and stays true because messages only ever arrive and numbers are never used
again. `ReceiveRecorded` takes these through the loop of `parseBuffer`, message by
message; there `IInv` is what makes a sequence inside the window stand for one number and a number for
one message. `NextIsChannels` is the refinement, an action at a time: an accepted `SendTo` is
`Accept`, a send is `Renumber` (of the messages numbered 0, if any), a received packet, with
the acknowledgements it carries, is `Exchange`, as is what `ProcessHeld` reads from the inbox, and
everything else leaves the channel alone.

Proving it showed that an ordered message whose type is also unsequenced has no
order at all: its sequence is never checked. `IsInOrder` leaves those out.

`RoundTripProofs` starts with the arithmetic, for values TLC does not reach: the
average lies between the old one and the new sample as long as a hundred times
the longer one fits 32 bits (`SmoothedAmong`), a sample less than ten above it does not move
it (`SmoothedSticks`), and the Windows clock does not go backwards, so that
unsigned differences of its readings are distances (`WindowsClockMonotone`). Then, for
any scenarios, delays, fake latencies, timers and number of frames:

* `ReadingsStaySound`: the inductive invariant `IInv`;
* `RoundTripTypeOK`: the type invariant: a time is an earlier reading of the clock of
  the end it belongs to, wherever a KeepAlive has carried it;
* `TimedOutOnlyInTime`: no timeout comes early;
* `KeepAlivesStayReal`: no round trip that a KeepAlive measures is shorter than the
  network and both latency fakers allow, or longer than the connection;
* `SentTimesStayTracked`: the messages that wait for an acknowledgement have a send time
  each, and no other sequence has one;
* `AverageStaysAmongShort`, `AverageStaysAmong`: the average stays among its samples
  as long as their hundredfold fits 32 bits.

That a round trip is real is not inductive: it is computed at the end of a journey
through two queues, two packets and two latency fakers, from nothing but the
timestamp in the message. `IInv` follows a KeepAlive along it. For every place it
says which timestamps a KeepAlive there may carry: readings its own end made, at
least so much real time ago as the legs behind it take (`Asks`, `Answers`, `From`,
`Held`, `Wires`). A step that moves a message moves it from one of these sets to the next, and
`Tick` widens them all. A sample is then the difference of two readings at
least that far apart, which a clock that rounds may show one unit shorter (`Units`,
lemma `UnitsAdd`).

`SentTimesStayTracked` has the hypothesis `[]SequencesOwn`: waiting messages have different
sequences and none has 0. Both are needed: with one sequence twice, the acknowledgement of one
removes the send time of both, and a reliable message numbered 0 gets another
sequence when it goes out again and leaves the send time of 0 behind, for the
next message with that number. `round_trip` checks that its instance stays clear of both.
The next theorems show where a connection does.
The table and the queue are then changed together by `ProcessAckBits` and by sending, and by
nothing else; a message that goes out again keeps its sequence, so that
its send time is renewed and not doubled (`AfterPacketTracked`).

The last part is about acknowledgements, in connections whose 16-bit numbering has not
wrapped yet (`NumberingLasts`) and with packets too small for a whole range of messages:

* `AcknowledgementsStayReal`: the inductive invariant `AcksInv`;
* `SequencesStayOwn`: `SequencesOwn`;
* `SentTimesStayTrackedUnwrapped`: `SentTimesStayTracked` without its hypothesis;
* `AcksStayReal`: no round trip that an acknowledgement measures is shorter than the way there
  and back, unless a reliable message went out twice.

An acknowledgement carries no time at all, so that nothing in a packet shows that it is real.
What does is where a sequence can be. `AcksInv` says of each direction which
sequences were given (`Numbered`) and that packets, what the other end has
received, and what its packets acknowledge speak of those only (`Travelled`); that a
sequence whose message left at some moment, and only then, is known to the other end no earlier
than `MinDelay` after it (`Timed`), and acknowledged by packets that left no earlier than that
(`Echoed`). So an acknowledgement that arrives is at least twice `MinDelay` behind the send time
it is measured from (`RealAcks`). A message that went out again has an earlier
journey with the same sequence, which is why `doubtful` is needed, and a
sequence given a second time would have one too, which is why the
numbering must last: 65535 messages in one direction. `round_trip` numbers
less than its range of 16, and its packets hold 4. The theorem on samples also assumes
`ShortConnection`.

The theorems on behaviours are about the clock of the Windows branch; the other
one refutes them (`posix_clock`). They assume `ClockLastsAssumption`, that the
product of ticks and a million fits a LONGLONG: 29 years with the usual
10 MHz counter. `KeepAlivesStayReal` is about connections shorter than 2^32 ms, seven weeks
(`ShortConnection`), and `AverageStaysAmong` about a hundredth of that, twelve
hours: a round trip cannot be longer than its connection, and `UpdateRTT`
multiplies it by 90 in 32 bits.

`PeerProofs` proves, for any servers and clients, any slots up to 254, any
budget of calls and faults, any packet sizes and any sequence range:

* `PeersStaySound`: the inductive invariant `IInv`;
* `PeerTypeOK`: the type invariant;
* `PlayersStayKnown`: the players the application of a server was told of are
  the connected peers;
* `ConnectedStaysGranted`: a client is connected only under an ID it was told;
* `AddressBookStays`: with one server, the two lists of every Peer mirror each other;
* `SlotsStayKept`: a slot in use stays with its client and its connection
  only goes forward (an action property).

`IInv` says that each Peer is `Sound`, and that the packets on their way are of
the right kind. `ConnectedWasGranted` is not inductive: a server connects a client
because of a ConnectionAnswer that may have travelled, or waited in the latency faker of the
server, since long before. What carries it is the history `granted`: a
client answers a challenge only with an ID that is in it, and `granted` only
grows, so every ConnectionAnswer that is in a queue, in a packet or held carries
an ID its sender was granted (`Sent`, `Wires`, `HeldMessages`), at whatever time it is
processed. `PlayersKnown` and `AddressBook` need the slots and each other's list: a handler
looks an address up in one list and changes the other, so both are kept in
`ServerSound` together (`ListsMirror`, `SlotsSound`, `PlayersSound`).

The argument follows the code. There is a lemma for each method and handler:
from a Sound Peer it `Reaches` another one, with the same slots or more, states
that only went forward, and no held message lost. Those compose to the handler of
a message, and by induction to a packet, a turn of `receive`, the held
messages and `updatePeers`. `RemovePeers` is the one step that takes
peers out, after everything else. The loops are inductions over their
rounds: `Loops` proves once, from the well-foundedness of the natural numbers,
that a loop is a function and that what each round keeps holds at the end
(`LoopExists`, `LoopInvariant`), for a round that is a parameter of that module.
The other modules instantiate it for each of their loops.

`AddressBookStays` assumes that there is one server (`OnlyOneServer`). With two,
a client that both answer has two addresses in its list and one RemotePeer, which is
what `two_servers` shows; nothing of this is needed for the other theorems. The
remaining assumptions are those of the modules: server and client addresses are
distinct and finitely many, and there are fewer than 255 slots.

Only model-checked: `StaysConnected`, a bound on how late every step of a schedule can be, from
the timers, the frames and the fake latencies of both ends together; `Wire`, which needs `Bitwise` and
recursion over bytes, both outside the prover; and liveness.

## Not modelled

* Quantised floats (`QFloat`): floating-point rounding, not used by any message.
* `Peer::RTT()`: a client that lost its server dereferences what it inserts
  (a client whose server timed out is in that state), and a server always answers 0, because
  the state it asks for is that of a client.
* `Peer::SendToAll`: a loop over `SendTo` with copies of the message.
* Changing the fake latency or loss while the connection runs; callbacks that
  call the `Peer`; a client that turns into a server.
* 255 slots, where an ID would be the one that means none.
* The system calls of the socket, the parsing of addresses, sleeping, logging,
  the random generator.

## Plan

1. `StaysConnected` of `RoundTrip`, for all constants: how long after the last message an end's
   KeepAlive can come back at the latest, in terms of the timers, the frame, the delays and the fake
   latencies, and that the timeout is longer than that.
2. What the program would have to do for `SameID`: a client that looks whether a ConnectionAnswer
   belongs to the connection it has asked for.
