------------------------- MODULE ReliableLinkProofs -------------------------
(***************************************************************************)
(* Proofs about ReliableLink, for any scripts, any faults, any sizes of    *)
(* packets and any range of sequence numbers.                              *)
(*                                                                         *)
(* The numbers themselves: which message carries which number and in which *)
(* order (IInv).  This needs no assumption on the network.  That the two   *)
(* ends draw the right conclusions from sequences, which wrap, is proved   *)
(* in LinkChannelProofs.                                                   *)
(*                                                                         *)
(* Every part of the invariant is about one direction of the link, from    *)
(* the end e to Other(e).                                                  *)
(***************************************************************************)
EXTENDS ReliableLink, RemotePeerProofs

-----------------------------------------------------------------------------
\* The messages of an end that has accepted n of the messages of its script s.
Mail(s, e, n) ==
    {m \in [origin : Ends, id : 0 .. n, flags : SUBSET Flags, size : Nat,
            m_sequence : Sequences16, number : Nat] :
        IF m.id = 0 THEN m.flags = {} /\ m.size = 2
        ELSE m.origin = e /\ m.flags = s[m.id].flags /\ m.size = s[m.id].size}

MailOf(e) == Mail(script[e], e, accepted[e])

Datagrams(M) ==
    [m_ackseq : Sequences16, m_ackbits : SUBSET (0 .. AckBits - 1), newest : Nat,
     messages : Seq(M)]

\* The messages of e: pending ones have no number yet, those that wait for an
\* acknowledgement or are on their way have one.
Pending(e) == tx[e].m_pendingMessages
Waiting(e) == ToSet(tx[e].m_reliableMessages)
Carried(e) == UNION {ToSet(packet.messages) : packet \in ToSet(net[Other(e)])}
Used(e) == Waiting(e) \cup Carried(e)

\* Identities of messages, and of those of e that the other end has.
IDs(M) == {m.id : m \in M}
Has(e) == ToSet(processed[Other(e)]) \cup IDs(ToSet(held[Other(e)]))

IsBlank(m) == m.m_sequence = 0 /\ m.number = 0

\* A numbered message has the sequence of its number.
Spelled(m, n) ==
    /\ m.number \in Exchanged + 1 .. n
    /\ m.m_sequence = Wrap(m.number)

\* A number is that of one message.  An application message has one number,
\* unless its sequence was ever 0, and ordered ones are numbered in their order.
Consistent(used, n, zeros) ==
    /\ \A m \in used : Spelled(m, n) /\ (m.m_sequence = 0 => m.id \in zeros)
    /\ \A m, l \in used :
        /\ m.number = l.number => m = l
        /\ m.id = l.id /\ m.id # 0 /\ m.id \notin zeros => m = l
        /\ IsOrderedOnly(m) /\ IsOrderedOnly(l) /\ m.number < l.number => m.id < l.id

\* The messages of a packet have ascending numbers.
Ascending(messages) ==
    \A i, j \in DOMAIN messages : i < j => messages[i].number < messages[j].number

\* Application messages wait in the order in which they were accepted, behind
\* these.
Ahead(pending, ids) ==
    \A i \in DOMAIN pending : pending[i].id # 0 =>
        /\ \A j \in DOMAIN pending : j < i => pending[j].id < pending[i].id
        /\ \A k \in ids : k < pending[i].id

Shape ==
    /\ script \in Scripts
    /\ DOMAIN tx = Ends /\ DOMAIN rx = Ends /\ DOMAIN net = Ends /\ DOMAIN accepted = Ends
    /\ DOMAIN held = Ends /\ DOMAIN processed = Ends
    /\ DOMAIN numbered = Ends /\ DOMAIN zeroed = Ends
    /\ silent \in [Ends -> BOOLEAN]

SendSide(e) ==
    /\ accepted[e] \in 0 .. Len(script[e])
    /\ numbered[e] \in Nat /\ numbered[e] >= Exchanged
    /\ tx[e] \in Senders(MailOf(e))
    /\ tx[e].m_sequenceOut = Wrap(numbered[e] + 1)
    /\ \A i \in DOMAIN Pending(e) : IsBlank(Pending(e)[i])
    /\ \A m \in Waiting(e) : IsReliable(m)

ReceiveSide(e) ==
    /\ rx[Other(e)] \in Receivers
    /\ net[Other(e)] \in Seq(Datagrams(MailOf(e)))
    /\ held[Other(e)] \in Seq(MailOf(e))
    /\ processed[Other(e)] \in Seq(1 .. accepted[e])
    /\ Other(e) \notin script.delayed => held[Other(e)] = <<>>

Numbering(e) ==
    /\ Consistent(Used(e), numbered[e], zeroed[e])
    /\ \A m \in ToSet(held[Other(e)]) : Spelled(m, numbered[e])
    /\ \A packet \in ToSet(net[Other(e)]) : Ascending(packet.messages)

InLine(e) == Ahead(Pending(e), IDs(Used(e)) \cup Has(e))

Direction(e) == SendSide(e) /\ ReceiveSide(e) /\ Numbering(e) /\ InLine(e)

IInv == Shape /\ \A e \in Ends : Direction(e)

\* The loop of Peer::parseBuffer: the states it goes through, where mine are the
\* messages of the end that parses and theirs those of the other end, and what
\* it keeps.
ParseStates(mine, theirs, n) ==
    [rx : Receivers, held : Seq(theirs), processed : Seq(1 .. n), tx : Senders(mine)]

Passes(receiver, m) ==
    IsUnsequenced(m) \/ PassesSequenceCheck(receiver, m.m_sequence, IsOrderedOnly(m))

Checked(receiver, m) ==
    IF IsUnsequenced(m) THEN receiver
    ELSE AfterSequenceCheck(receiver, m.m_sequence, IsOrderedOnly(m))

\* A message was skipped, or held, or processed.
Parsed(s, m, delayed, after) ==
    /\ after.rx = Checked(s.rx, m)
    /\ \/ /\ ~Passes(s.rx, m)
          /\ after.held = s.held /\ after.processed = s.processed /\ after.tx = s.tx
       \/ /\ Passes(s.rx, m) /\ delayed
          /\ after.held = Append(s.held, m) /\ after.processed = s.processed /\ after.tx = s.tx
       \/ /\ Passes(s.rx, m) /\ ~delayed /\ m.id # 0
          /\ after.held = s.held /\ after.processed = Append(s.processed, m.id) /\ after.tx = s.tx
       \/ /\ Passes(s.rx, m) /\ ~delayed /\ m.id = 0
          /\ after.held = s.held /\ after.processed = s.processed
          /\ \/ after.tx = s.tx
             \/ \E origin \in Ends : after.tx = EnqueueMessage(s.tx, KeepAlive(origin))

\* Only KeepAlives were queued.
KeepAlivesBehind(old, new) ==
    /\ DOMAIN old \subseteq DOMAIN new
    /\ \A i \in DOMAIN old : new[i] = old[i]
    /\ \A i \in DOMAIN new \ DOMAIN old : IsBlank(new[i]) /\ new[i].id = 0

ParseNext(s, k, x) == ParseMessage(x.e, s, x.messages[k])

ParsedSoFar(s, k, x) ==
    /\ s \in ParseStates(x.mine, x.theirs, x.count)
    /\ s.tx.m_sequenceOut = x.start.tx.m_sequenceOut
    /\ s.tx.m_reliableMessages = x.start.tx.m_reliableMessages
    /\ KeepAlivesBehind(x.start.tx.m_pendingMessages, s.tx.m_pendingMessages)
    /\ ToSet(s.held) \subseteq ToSet(x.start.held) \cup ToSet(x.messages)
    /\ ToSet(s.processed) \subseteq ToSet(x.start.processed) \cup IDs(ToSet(x.messages))
    /\ x.delayed \/ s.held = x.start.held

Parsing == INSTANCE Loops WITH Step <- ParseNext, Holds <- ParsedSoFar

-----------------------------------------------------------------------------
LEMMA OtherEnd ==
    ASSUME NEW e \in Ends
    PROVE  /\ Other(e) \in Ends /\ Other(e) # e /\ Other(Other(e)) = e
           /\ Ends = {e, Other(e)}
BY DEF Ends, Other

\* The scripts, and the messages the applications send from them.
LEMMA ScriptType ==
    ASSUME script \in Scripts, NEW e \in Ends
    PROVE  /\ Len(script[e]) \in Nat
           /\ \A i \in 1 .. Len(script[e]) : script[e][i] \in [flags : SUBSET Flags, size : Nat]
           /\ script.delayed \subseteq Ends
<1>1. script[e] \in Seq([flags : SUBSET Flags, size : Nat]) /\ script.delayed \subseteq Ends
  BY LinkAssumption
<1> QED
  BY <1>1, LenProperties, ElementOfSeq

LEMMA BlankType ==
    0 \in Sequences16 /\ 0 \in Nat
BY SequenceAssumption DEF Sequences16, Modulus

LEMMA GameMessageType ==
    ASSUME script \in Scripts, NEW e \in Ends, NEW n \in 0 .. Len(script[e]), NEW i \in 1 .. n
    PROVE  /\ GameMessage(e, i) \in Mail(script[e], e, n)
           /\ IsBlank(GameMessage(e, i)) /\ GameMessage(e, i).id = i
<1>1. Len(script[e]) \in Nat /\ script[e][i] \in [flags : SUBSET Flags, size : Nat]
  BY ScriptType
<1>2. i \in 0 .. n /\ i # 0
  BY <1>1
<1> QED
  BY <1>1, <1>2, BlankType DEF GameMessage, Mail, IsBlank

LEMMA KeepAliveType ==
    ASSUME NEW s, NEW e, NEW n \in Nat, NEW origin \in Ends
    PROVE  /\ KeepAlive(origin) \in Mail(s, e, n)
           /\ IsBlank(KeepAlive(origin)) /\ KeepAlive(origin).id = 0
<1>1. 0 \in 0 .. n /\ {} \in SUBSET Flags /\ 2 \in Nat
  OBVIOUS
<1> QED
  BY <1>1, BlankType DEF KeepAlive, Mail, IsBlank

LEMMA MailGrows ==
    ASSUME NEW s, NEW e, NEW n \in Nat, NEW k \in Nat, n <= k
    PROVE  Mail(s, e, n) \subseteq Mail(s, e, k)
<1>1. 0 .. n \subseteq 0 .. k
  OBVIOUS
<1> QED
  BY <1>1 DEF Mail

LEMMA MailRenumbered ==
    ASSUME NEW s, NEW e, NEW n
    PROVE  /\ Renumbered(Mail(s, e, n))
           /\ \A m \in Mail(s, e, n), k \in Nat : [m EXCEPT !.number = k] \in Mail(s, e, n)
BY DEF Renumbered, Mail

LEMMA DatagramsGrow ==
    ASSUME NEW M, NEW N, M \subseteq N PROVE Datagrams(M) \subseteq Datagrams(N)
BY SeqMonotonic DEF Datagrams

-----------------------------------------------------------------------------
\* Nothing of this direction changes.
LEMMA DirectionUnchanged ==
    ASSUME NEW e \in Ends, Direction(e), script' = script,
           tx'[e] = tx[e], accepted'[e] = accepted[e], numbered'[e] = numbered[e],
           zeroed'[e] = zeroed[e], net'[Other(e)] = net[Other(e)], rx'[Other(e)] = rx[Other(e)],
           held'[Other(e)] = held[Other(e)], processed'[Other(e)] = processed[Other(e)]
    PROVE  Direction(e)'
BY DEF Direction, SendSide, ReceiveSide, Numbering, InLine, Used, Waiting, Carried, Pending, Has,
       MailOf

\* The identities of what is used and of what arrived were accepted.
LEMMA IDsAccepted ==
    ASSUME NEW e \in Ends, Direction(e)
    PROVE  /\ accepted[e] \in Nat
           /\ Used(e) \subseteq MailOf(e)
           /\ \A m \in MailOf(e) : m.id \in 0 .. accepted[e]
           /\ ToSet(Pending(e)) \subseteq MailOf(e)
           /\ IDs(Used(e)) \cup Has(e) \subseteq 0 .. accepted[e]
<1>1. /\ tx[e].m_pendingMessages \in Seq(MailOf(e)) /\ tx[e].m_reliableMessages \in Seq(MailOf(e))
      /\ net[Other(e)] \in Seq(Datagrams(MailOf(e)))
      /\ held[Other(e)] \in Seq(MailOf(e)) /\ processed[Other(e)] \in Seq(1 .. accepted[e])
  BY DEF Direction, SendSide, ReceiveSide, Senders
<1>2. /\ Waiting(e) \subseteq MailOf(e) /\ ToSet(Pending(e)) \subseteq MailOf(e)
      /\ ToSet(held[Other(e)]) \subseteq MailOf(e)
      /\ ToSet(processed[Other(e)]) \subseteq 1 .. accepted[e]
  BY <1>1, ToSetType DEF Waiting, Pending
<1>3. Carried(e) \subseteq MailOf(e)
  <2> SUFFICES ASSUME NEW packet \in ToSet(net[Other(e)])
               PROVE  ToSet(packet.messages) \subseteq MailOf(e)
    BY DEF Carried
  <2>1. packet \in Datagrams(MailOf(e))
    BY <1>1, ToSetType
  <2>2. packet.messages \in Seq(MailOf(e))
    BY <2>1 DEF Datagrams
  <2> QED
    BY <2>2, ToSetType
<1>4. \A m \in MailOf(e) : m.id \in 0 .. accepted[e]
  BY DEF MailOf, Mail
<1>5. accepted[e] \in 0 .. Len(script[e])
  BY DEF Direction, SendSide
<1>6. Used(e) \subseteq MailOf(e)
  BY <1>2, <1>3 DEF Used
<1>7. IDs(Used(e)) \subseteq 0 .. accepted[e] /\ IDs(ToSet(held[Other(e)])) \subseteq 0 .. accepted[e]
  BY <1>2, <1>4, <1>6 DEF IDs
<1>8. 1 .. accepted[e] \subseteq 0 .. accepted[e]
  OBVIOUS
<1> QED
  BY <1>2, <1>4, <1>5, <1>6, <1>7, <1>8 DEF Has

\* Using less is consistent as well, and messages are ahead of fewer.
LEMMA ConsistentSubset ==
    ASSUME NEW used, NEW n, NEW zeros, Consistent(used, n, zeros), NEW fewer, fewer \subseteq used
    PROVE  Consistent(fewer, n, zeros)
BY DEF Consistent

\* A message is queued behind the others, or messages that wait are given up:
\* what SendTo, a KeepAlive and a packet from the other end do to this direction.
LEMMA Outgoing ==
    ASSUME NEW e \in Ends, Direction(e), script \in Scripts, script' = script,
           numbered'[e] = numbered[e], zeroed'[e] = zeroed[e],
           net'[Other(e)] = net[Other(e)], rx'[Other(e)] = rx[Other(e)],
           held'[Other(e)] = held[Other(e)], processed'[Other(e)] = processed[Other(e)],
           accepted'[e] \in accepted[e] .. Len(script[e]),
           tx'[e] \in Senders(MailOf(e)'),
           tx'[e].m_sequenceOut = tx[e].m_sequenceOut,
           Waiting(e)' \subseteq Waiting(e),
           DOMAIN Pending(e) \subseteq DOMAIN Pending(e)',
           \A i \in DOMAIN Pending(e) : Pending(e)'[i] = Pending(e)[i],
           \A i \in DOMAIN Pending(e)' \ DOMAIN Pending(e) :
                /\ IsBlank(Pending(e)'[i])
                /\ Pending(e)'[i].id # 0 =>
                        Pending(e)'[i].id > accepted[e] /\ i = Len(Pending(e)) + 1
    PROVE  Direction(e)'
<1>1. /\ accepted[e] \in Nat /\ accepted'[e] \in Nat /\ accepted[e] <= accepted'[e]
      /\ accepted'[e] \in 0 .. Len(script'[e])
  <2>1. Len(script[e]) \in Nat /\ accepted[e] \in Nat
    BY ScriptType, IDsAccepted
  <2> QED
    BY <2>1
<1>2. MailOf(e) \subseteq MailOf(e)'
  BY <1>1, MailGrows DEF MailOf
<1>3. SendSide(e)'
  <2>1. \A i \in DOMAIN Pending(e)' : IsBlank(Pending(e)'[i])
    BY DEF Direction, SendSide
  <2>2. \A m \in Waiting(e)' : IsReliable(m)
    BY DEF Direction, SendSide
  <2> QED
    BY <1>1, <2>1, <2>2 DEF Direction, SendSide
<1>4. ReceiveSide(e)'
  <2>1. Seq(Datagrams(MailOf(e))) \subseteq Seq(Datagrams(MailOf(e)'))
    BY <1>2, DatagramsGrow, SeqMonotonic
  <2>2. Seq(MailOf(e)) \subseteq Seq(MailOf(e)')
    BY <1>2, SeqMonotonic
  <2>3. 1 .. accepted[e] \subseteq 1 .. accepted'[e]
    BY <1>1
  <2>4. processed[Other(e)] \in Seq(1 .. accepted'[e])
    <3>1. processed[Other(e)] \in Seq(1 .. accepted[e])
      BY DEF Direction, ReceiveSide
    <3> QED
      BY <2>3, <3>1, SeqMonotonic, Zenon
  <2> QED
    BY <2>1, <2>2, <2>4 DEF Direction, ReceiveSide
<1>5. Used(e)' \subseteq Used(e) /\ Has(e)' = Has(e)
  BY DEF Used, Carried, Has
<1>6. Numbering(e)'
  <2>1. Consistent(Used(e)', numbered[e], zeroed[e])
    BY <1>5, ConsistentSubset DEF Direction, Numbering
  <2> QED
    BY <2>1 DEF Direction, Numbering
<1>7. InLine(e)'
  <2> DEFINE old == Pending(e)
             new == Pending(e)'
             ids == IDs(Used(e)) \cup Has(e)
  <2>1. IDs(Used(e)') \cup Has(e)' \subseteq ids
    BY <1>5 DEF IDs
  <2>2. /\ ids \subseteq 0 .. accepted[e]
        /\ old \in Seq(MailOf(e)) /\ Len(old) \in Nat /\ DOMAIN old = 1 .. Len(old)
        /\ \A j \in DOMAIN old : old[j].id \in 0 .. accepted[e]
    <3>1. old \in Seq(MailOf(e))
      BY DEF Direction, SendSide, Senders, Pending
    <3>2. Len(old) \in Nat /\ DOMAIN old = 1 .. Len(old)
      BY <3>1, LenProperties
    <3>3. \A j \in DOMAIN old : old[j] \in MailOf(e)
      BY <3>1, <3>2, ElementOfSeq
    <3> QED
      BY <3>1, <3>2, <3>3, IDsAccepted
  <2>3. Ahead(old, ids)
    BY DEF Direction, InLine
  <2>4. new \in Seq(MailOf(e)')
    BY DEF Senders, Pending
  <2>5. DOMAIN new = 1 .. Len(new) /\ Len(new) \in Nat /\ \A j \in DOMAIN new : new[j].id \in Nat
    <3>1. DOMAIN new = 1 .. Len(new) /\ Len(new) \in Nat
      BY <2>4, LenProperties
    <3>2. \A j \in DOMAIN new : new[j] \in MailOf(e)'
      BY <2>4, <3>1, ElementOfSeq
    <3>3. \A m \in MailOf(e)' : m.id \in Nat
      BY DEF MailOf, Mail
    <3> QED
      BY <3>1, <3>2, <3>3
  <2>6. /\ DOMAIN old \subseteq DOMAIN new
        /\ \A i \in DOMAIN old : new[i] = old[i]
        /\ \A i \in DOMAIN new \ DOMAIN old :
                new[i].id # 0 => new[i].id > accepted[e] /\ i = Len(old) + 1
    OBVIOUS
  <2> HIDE DEF old, new, ids
  <2>7. ASSUME NEW i \in DOMAIN new, new[i].id # 0
        PROVE  /\ \A j \in DOMAIN new : j < i => new[j].id < new[i].id
               /\ \A k \in ids : k < new[i].id
    <3>1. CASE i \in DOMAIN old
      <4>1. \A j \in DOMAIN new : j < i => j \in DOMAIN old
        BY <2>2, <2>5, <3>1
      <4> QED
        BY <2>3, <2>6, <2>7, <3>1, <4>1 DEF Ahead
    <3>2. CASE i \notin DOMAIN old
      <4>1. new[i].id > accepted[e] /\ i = Len(old) + 1
        BY <2>6, <2>7, <3>2
      <4>2. \A j \in DOMAIN new : j < i => j \in DOMAIN old
        BY <2>2, <2>5, <4>1
      <4>3. new[i].id \in Nat
        BY <2>5
      <4> QED
        BY <1>1, <2>2, <2>6, <4>1, <4>2, <4>3
    <3> QED
      BY <3>1, <3>2
  <2>8. Ahead(new, ids)
    BY <2>7 DEF Ahead
  <2> QED
    BY <2>1, <2>8 DEF Ahead, InLine, new
<1> QED
  BY <1>3, <1>4, <1>6, <1>7 DEF Direction

\* The other end receives a packet of this direction or processes a message it
\* held.
LEMMA Incoming ==
    ASSUME NEW e \in Ends, Direction(e), script' = script,
           numbered'[e] = numbered[e], zeroed'[e] = zeroed[e],
           accepted'[e] = accepted[e], tx'[e] = tx[e],
           rx'[Other(e)] \in Receivers,
           net'[Other(e)] \in Seq(Datagrams(MailOf(e))),
           ToSet(net'[Other(e)]) \subseteq ToSet(net[Other(e)]),
           held'[Other(e)] \in Seq(MailOf(e)),
           ToSet(held'[Other(e)]) \subseteq ToSet(held[Other(e)]) \cup Carried(e),
           processed'[Other(e)] \in Seq(1 .. accepted[e]),
           Has(e)' \subseteq Has(e) \cup IDs(Carried(e)),
           Other(e) \notin script.delayed => held'[Other(e)] = <<>>
    PROVE  Direction(e)'
<1>1. MailOf(e)' = MailOf(e) /\ Pending(e)' = Pending(e) /\ Waiting(e)' = Waiting(e)
  BY DEF MailOf, Pending, Waiting
<1>2. SendSide(e)'
  BY <1>1 DEF Direction, SendSide
<1>3. ReceiveSide(e)'
  BY <1>1 DEF ReceiveSide
<1>4. Carried(e)' \subseteq Carried(e) /\ Carried(e) \subseteq Used(e)
  BY DEF Carried, Used
<1>5. Used(e)' \subseteq Used(e)
  BY <1>1, <1>4 DEF Used
<1>6. Numbering(e)'
  <2>1. Consistent(Used(e)', numbered[e], zeroed[e])
    BY <1>5, ConsistentSubset DEF Direction, Numbering
  <2>2. \A m \in Carried(e) : Spelled(m, numbered[e])
    BY <1>4 DEF Direction, Numbering, Consistent
  <2> QED
    BY <2>1, <2>2 DEF Direction, Numbering
<1>7. IDs(Used(e)') \cup Has(e)' \subseteq IDs(Used(e)) \cup Has(e)
  BY <1>4, <1>5 DEF IDs
<1>8. InLine(e)'
  BY <1>1, <1>7 DEF Direction, InLine, Ahead
<1> QED
  BY <1>2, <1>3, <1>6, <1>8 DEF Direction

-----------------------------------------------------------------------------
\* The i-th message of the packet of e before it is numbered, how many of the
\* packet's messages are retransmitted and how many it has, and the number of
\* the i-th one if it is fresh.
Retransmitted(e) == Len(OldestReliable(tx[e]))
Sending(e) == Retransmitted(e) + PendingTaken(tx[e])
Base(e, i) ==
    IF i <= Retransmitted(e) THEN Head(tx[e].m_reliableMessages)
                             ELSE Pending(e)[i - Retransmitted(e)]
FreshNumber(e, i) == numbered[e] + FreshUpTo(PacketMessages(tx[e]), i)
Numbered(e, i) ==
    IF Base(e, i).m_sequence = 0
    THEN [Base(e, i) EXCEPT !.m_sequence = Wrap(FreshNumber(e, i)), !.number = FreshNumber(e, i)]
    ELSE Base(e, i)

LEMMA BaseType ==
    ASSUME NEW e \in Ends, Direction(e)
    PROVE  /\ Retransmitted(e) \in {0, 1} /\ PendingTaken(tx[e]) \in 0 .. Len(Pending(e))
           /\ Sending(e) \in Nat
           /\ Len(PacketMessages(tx[e])) = Sending(e)
           /\ Retransmitted(e) = 0 => tx[e].m_reliableMessages = <<>>
           /\ Retransmitted(e) = 1 => tx[e].m_reliableMessages # <<>>
           /\ \A i \in 1 .. Sending(e) :
                /\ PacketMessages(tx[e])[i] = Base(e, i)
                /\ i > Retransmitted(e) => i - Retransmitted(e) \in DOMAIN Pending(e)
                /\ i <= Retransmitted(e) => Base(e, i) \in Waiting(e)
                /\ Base(e, i) \in MailOf(e)
<1> DEFINE r == Retransmitted(e)
           t == PendingTaken(tx[e])
           ms == PacketMessages(tx[e])
           pending == Pending(e)
           waiting == tx[e].m_reliableMessages
<1>1. /\ tx[e] \in Senders(MailOf(e))
      /\ pending \in Seq(MailOf(e)) /\ waiting \in Seq(MailOf(e))
  BY DEF Direction, SendSide, Senders, Pending
<1>2. /\ Len(pending) \in Nat /\ DOMAIN pending = 1 .. Len(pending)
      /\ \A i \in 1 .. Len(pending) : pending[i] \in MailOf(e)
  BY <1>1, LenProperties, ElementOfSeq
<1>3. /\ r \in {0, 1}
      /\ r = 1 => ms[1] = Head(waiting) /\ waiting # <<>>
      /\ r = 0 => waiting = <<>>
      /\ \A i \in 1 .. t : ms[r + i] = pending[i]
  BY <1>1, PacketMessagesAt DEF Retransmitted, Pending
<1>4. t \in 0 .. Len(pending) /\ Len(ms) = r + t
  BY <1>1, PendingTakenType, PacketMessagesType DEF Retransmitted, Pending
<1>5. r = 1 => Head(waiting) \in ToSet(waiting) /\ Head(waiting) \in MailOf(e)
  <2> SUFFICES ASSUME waiting # <<>>
               PROVE  Head(waiting) \in ToSet(waiting) /\ Head(waiting) \in MailOf(e)
    BY <1>3
  <2>1. Len(waiting) \in Nat /\ Len(waiting) > 0 /\ Head(waiting) = waiting[1]
    BY <1>1, EmptySeq, LenProperties
  <2>2. 1 \in DOMAIN waiting
    BY <1>1, <2>1, LenProperties
  <2> QED
    BY <1>1, <2>1, <2>2, ToSetType, ElementOfSeq DEF ToSet
<1> HIDE DEF r, t, ms, pending, waiting
<1>6. Sending(e) = r + t /\ Sending(e) \in Nat
  BY <1>2, <1>3, <1>4 DEF Sending, r, t
<1>7. ASSUME NEW i \in 1 .. r + t
      PROVE  /\ i > r => i - r \in 1 .. t /\ i - r \in DOMAIN pending /\ ms[i] = pending[i - r]
                         /\ pending[i - r] \in MailOf(e)
             /\ i <= r => i = 1 /\ r = 1
  <2>1. i > r => i - r \in 1 .. t /\ r + (i - r) = i
    BY <1>3, <1>4, <1>2
  <2> QED
    BY <1>2, <1>3, <1>4, <2>1
<1>8. ASSUME NEW i \in 1 .. r + t
      PROVE  /\ ms[i] = Base(e, i)
             /\ i > r => i - r \in DOMAIN pending
             /\ i <= r => Base(e, i) \in Waiting(e)
             /\ Base(e, i) \in MailOf(e)
  <2>1. CASE i > r
    <3>1. Base(e, i) = pending[i - r]
      BY <1>2, <1>3, <1>4, <2>1 DEF Base, r, pending
    <3> QED
      BY <1>2, <1>3, <1>4, <1>7, <2>1, <3>1
  <2>2. CASE i <= r
    <3>1. Base(e, i) = Head(waiting)
      BY <2>2 DEF Base, r, waiting
    <3> QED
      BY <1>2, <1>3, <1>4, <1>5, <1>7, <2>2, <3>1 DEF Waiting, waiting
  <2> QED
    BY <1>2, <1>3, <1>4, <2>1, <2>2
<1>9. Len(ms) = Sending(e)
  BY <1>4, <1>6
<1> QED
  BY <1>3, <1>4, <1>6, <1>8, <1>9 DEF r, t, ms, pending, waiting

\* The packet e sends, with the history of its numbers.
Sent(e) == Stamped(e, BuildPacket(tx[e], rx[e]))

LEMMA StampedEffect ==
    ASSUME NEW e \in Ends, Direction(e), rx[e] \in Receivers
    PROVE  /\ Sent(e) = [m_ackseq |-> rx[e].m_sequenceIn, m_ackbits |-> GetAckBits(rx[e]),
                         newest |-> Newest(rx[e]), messages |-> Sent(e).messages]
           /\ Sent(e).messages = [i \in 1 .. Sending(e) |-> Numbered(e, i)]
<1> DEFINE ms == PacketMessages(tx[e])
           out == tx[e].m_sequenceOut
           headed == GenerateMessageHeaders(ms, out)
           stamped == [i \in DOMAIN ms |-> IF IsFresh(ms[i])
                                           THEN [headed[i] EXCEPT !.number = FreshNumber(e, i)]
                                           ELSE headed[i]]
<1>1. /\ ms \in Seq(MailOf(e)) /\ DOMAIN ms = 1 .. Sending(e)
      /\ \A i \in 1 .. Sending(e) : ms[i] = Base(e, i)
  <2>1. ms \in Seq(MailOf(e))
    BY PacketMessagesType DEF Direction, SendSide
  <2> QED
    BY <2>1, BaseType, LenProperties
<1>2. BuildPacket(tx[e], rx[e]) = [m_ackseq |-> rx[e].m_sequenceIn,
            m_ackbits |-> GetAckBits(rx[e]), messages |-> headed]
  BY DEF BuildPacket
<1>3. Sent(e) = [m_ackseq |-> rx[e].m_sequenceIn, m_ackbits |-> GetAckBits(rx[e]),
                 newest |-> Newest(rx[e]), messages |-> stamped]
  BY <1>2 DEF Sent, Stamped, FreshNumber
<1>4. headed = [i \in DOMAIN ms |->
                    IF IsFresh(ms[i])
                    THEN [ms[i] EXCEPT !.m_sequence = Wrap(out + FreshUpTo(ms, i - 1))]
                    ELSE ms[i]]
  BY DEF GenerateMessageHeaders
<1> HIDE DEF headed
<1>5. ASSUME NEW i \in 1 .. Sending(e)
      PROVE  stamped[i] = Numbered(e, i)
  <2>1. i \in DOMAIN ms /\ ms[i] = Base(e, i)
    BY <1>1
  <2>2. CASE IsFresh(ms[i])
    <3>1. headed[i] = [Base(e, i) EXCEPT !.m_sequence = Wrap(out + FreshUpTo(ms, i - 1))]
      BY <1>4, <2>1, <2>2
    <3>2. Wrap(out + FreshUpTo(ms, i - 1)) = Wrap(FreshNumber(e, i))
      <4>1. /\ FreshUpTo(ms, i - 1) \in Nat
            /\ FreshUpTo(ms, i) = FreshUpTo(ms, i - 1) + 1
        <5>1. i \in Nat \ {0} /\ i - 1 \in Nat
          BY BaseType
        <5> HIDE DEF ms
        <5> QED
          BY <2>2, <5>1, FreshUpToGrows
      <4>2. out = Wrap(numbered[e] + 1) /\ numbered[e] \in Nat
        BY DEF Direction, SendSide
      <4> HIDE DEF ms, out
      <4>3. Wrap(out + FreshUpTo(ms, i - 1)) = Wrap(numbered[e] + 1 + FreshUpTo(ms, i - 1))
        BY <4>1, <4>2, WrapSum
      <4>4. numbered[e] + 1 + FreshUpTo(ms, i - 1) = numbered[e] + FreshUpTo(ms, i)
        BY <4>1, <4>2
      <4> QED
        BY <4>3, <4>4 DEF FreshNumber, ms
    <3>3. stamped[i] = [headed[i] EXCEPT !.number = FreshNumber(e, i)]
      BY <2>1, <2>2
    <3>4. Base(e, i).m_sequence = 0
      BY <2>1, <2>2 DEF IsFresh
    <3>5. Numbered(e, i) = [Base(e, i) EXCEPT !.m_sequence = Wrap(FreshNumber(e, i)),
                                              !.number = FreshNumber(e, i)]
      BY <3>4 DEF Numbered
    <3> HIDE DEF stamped, ms, out
    <3> QED
      BY <3>1, <3>2, <3>3, <3>5
  <2>3. CASE ~IsFresh(ms[i])
    BY <1>4, <2>1, <2>3 DEF IsFresh, Numbered
  <2> QED
    BY <2>2, <2>3
<1>6. stamped = [i \in 1 .. Sending(e) |-> Numbered(e, i)]
  <2>1. stamped = [i \in 1 .. Sending(e) |-> stamped[i]]
    BY <1>1
  <2> HIDE DEF stamped
  <2> QED
    BY <1>5, <2>1
<1> HIDE DEF stamped
<1> QED
  BY <1>3, <1>6

\* How many messages e has numbered once the packet is built.
NumberedAfter(e) == FreshNumber(e, Sending(e))

\* A message that is not fresh waited, under its number; the fresh ones get the
\* next numbers.
LEMMA NumberedEffect ==
    ASSUME NEW e \in Ends, Direction(e), NEW i \in 1 .. Sending(e)
    PROVE  /\ NumberedAfter(e) \in Nat /\ NumberedAfter(e) >= numbered[e]
           /\ Numbered(e, i) \in MailOf(e)
           /\ Numbered(e, i).id = Base(e, i).id /\ Numbered(e, i).flags = Base(e, i).flags
           /\ Spelled(Numbered(e, i), NumberedAfter(e))
           /\ Base(e, i).m_sequence # 0 => /\ i <= Retransmitted(e)
                                           /\ Numbered(e, i) = Base(e, i)
                                           /\ Base(e, i) \in Waiting(e)
                                           /\ Numbered(e, i).number <= numbered[e]
           /\ Base(e, i).m_sequence = 0 => /\ Numbered(e, i).number = FreshNumber(e, i)
                                           /\ Numbered(e, i).number > numbered[e]
<1> DEFINE ms == PacketMessages(tx[e])
           fresh == Base(e, i).m_sequence = 0
           n == FreshNumber(e, i)
<1>1. /\ i \in Nat \ {0} /\ i - 1 \in Nat /\ Sending(e) \in Nat /\ i \in 0 .. Sending(e)
      /\ ms[i] = Base(e, i) /\ Base(e, i) \in MailOf(e)
  BY BaseType
<1>2. /\ FreshUpTo(ms, i) \in Nat /\ FreshUpTo(ms, i - 1) \in Nat
      /\ FreshUpTo(ms, Sending(e)) \in Nat
      /\ FreshUpTo(ms, i) <= FreshUpTo(ms, Sending(e))
      /\ fresh => FreshUpTo(ms, i) = FreshUpTo(ms, i - 1) + 1
  <2> HIDE DEF ms
  <2> QED
    BY <1>1, FreshUpToGrows, FreshUpToMonotone DEF IsFresh
<1>3. numbered[e] \in Nat /\ numbered[e] >= Exchanged
  BY DEF Direction, SendSide
<1>4. /\ NumberedAfter(e) \in Nat /\ NumberedAfter(e) >= numbered[e]
      /\ n \in Nat /\ n <= NumberedAfter(e) /\ n >= numbered[e] /\ (fresh => n > numbered[e])
  <2> HIDE DEF ms, fresh
  <2> QED
    BY <1>2, <1>3 DEF FreshNumber, NumberedAfter, ms
<1> HIDE DEF n, ms
<1>5. CASE fresh
  <2>1. Wrap(n) \in Sequences16
    BY <1>4, WrapType
  <2>2. Numbered(e, i) = [Base(e, i) EXCEPT !.m_sequence = Wrap(n), !.number = n]
    BY <1>5 DEF Numbered, n
  <2>3. Numbered(e, i) \in MailOf(e)
    <3>1. [Base(e, i) EXCEPT !.m_sequence = Wrap(n)] \in MailOf(e)
      BY <1>1, <2>1, MailRenumbered DEF MailOf, Renumbered
    <3>2. [[Base(e, i) EXCEPT !.m_sequence = Wrap(n)] EXCEPT !.number = n] \in MailOf(e)
      BY <1>4, <3>1, MailRenumbered DEF MailOf
    <3> QED
      BY <2>2, <3>2
  <2>4. /\ Numbered(e, i).number = n /\ Numbered(e, i).m_sequence = Wrap(n)
        /\ Numbered(e, i).id = Base(e, i).id /\ Numbered(e, i).flags = Base(e, i).flags
    BY <1>1, <2>2 DEF MailOf, Mail
  <2>5. n \in Exchanged + 1 .. NumberedAfter(e)
    BY <1>3, <1>4, <1>5, LinkAssumption
  <2> QED
    BY <1>4, <1>5, <2>3, <2>4, <2>5 DEF Spelled, n
<1>6. CASE ~fresh
  <2>1. Numbered(e, i) = Base(e, i)
    BY <1>6 DEF Numbered
  <2>2. i <= Retransmitted(e)
    <3> SUFFICES ASSUME i > Retransmitted(e) PROVE FALSE
      BY <1>1, BaseType
    <3>1. i - Retransmitted(e) \in DOMAIN Pending(e)
      BY BaseType
    <3>2. ~(i <= Retransmitted(e))
      BY <1>1, BaseType
    <3> QED
      BY <1>6, <3>1, <3>2 DEF Base, Direction, SendSide, IsBlank
  <2>3. Base(e, i) \in Waiting(e)
    BY <2>2, BaseType
  <2>4. Spelled(Base(e, i), numbered[e])
    BY <2>3 DEF Direction, Numbering, Consistent, Used
  <2>5. Base(e, i).number \in Nat /\ Spelled(Base(e, i), NumberedAfter(e))
    BY <1>1, <1>3, <1>4, <2>4, LinkAssumption DEF Spelled
  <2> QED
    BY <1>1, <1>3, <1>4, <1>6, <2>1, <2>2, <2>3, <2>4, <2>5, LinkAssumption DEF Spelled
<1> QED
  BY <1>5, <1>6

\* A packet's messages have ascending numbers.
LEMMA NumberedAscending ==
    ASSUME NEW e \in Ends, Direction(e), NEW i \in 1 .. Sending(e), NEW j \in 1 .. Sending(e), i < j
    PROVE  /\ Numbered(e, i).number < Numbered(e, j).number
           /\ Base(e, j).m_sequence = 0
<1> DEFINE ms == PacketMessages(tx[e])
<1>1. /\ i \in Nat /\ j \in Nat \ {0} /\ j - 1 \in Nat /\ i \in 0 .. j - 1
      /\ Retransmitted(e) \in {0, 1} /\ ms[j] = Base(e, j) /\ numbered[e] \in Nat
  BY BaseType DEF Direction, SendSide
<1>2. Base(e, j).m_sequence = 0 /\ j > Retransmitted(e)
  <2>1. ~(j <= Retransmitted(e))
    BY <1>1
  <2> QED
    BY <2>1, <1>1, NumberedEffect
<1>3. /\ FreshUpTo(ms, i) \in Nat /\ FreshUpTo(ms, j - 1) \in Nat
      /\ FreshUpTo(ms, i) <= FreshUpTo(ms, j - 1)
      /\ FreshUpTo(ms, j) = FreshUpTo(ms, j - 1) + 1
  <2> HIDE DEF ms
  <2> QED
    BY <1>1, <1>2, FreshUpToGrows, FreshUpToMonotone DEF IsFresh
<1>4. Numbered(e, j).number = FreshNumber(e, j) /\ Numbered(e, j).number > numbered[e]
  BY <1>2, NumberedEffect
<1>5. FreshNumber(e, i) < FreshNumber(e, j) /\ FreshNumber(e, j) \in Nat
  BY <1>1, <1>3 DEF FreshNumber
<1>6. CASE Base(e, i).m_sequence = 0
  BY <1>2, <1>4, <1>5, <1>6, NumberedEffect
<1>7. CASE Base(e, i).m_sequence # 0
  <2>1. Numbered(e, i).number <= numbered[e] /\ Numbered(e, i) \in MailOf(e)
    BY <1>7, NumberedEffect
  <2>2. Numbered(e, i).number \in Nat
    BY <2>1 DEF MailOf, Mail
  <2> QED
    BY <1>1, <1>2, <1>4, <1>5, <2>1, <2>2
<1> QED
  BY <1>6, <1>7

\* A message numbered after another.
Follows(m, l, zeros) ==
    /\ m.number < l.number
    /\ l.id # 0 /\ l.id \notin zeros => m.id # l.id
    /\ IsOrderedOnly(l) => m.id < l.id

\* A pending message that is sent was accepted after all that are used.
LEMMA PendingBehind ==
    ASSUME NEW e \in Ends, Direction(e), NEW i \in 1 .. Sending(e), i > Retransmitted(e)
    PROVE  /\ Base(e, i) = Pending(e)[i - Retransmitted(e)]
           /\ i - Retransmitted(e) \in DOMAIN Pending(e)
           /\ IsOrderedOnly(Base(e, i)) => Base(e, i).id # 0
           /\ Base(e, i).id # 0 => \A k \in IDs(Used(e)) \cup Has(e) : k < Base(e, i).id
<1>1. /\ Base(e, i) = Pending(e)[i - Retransmitted(e)]
      /\ i - Retransmitted(e) \in DOMAIN Pending(e) /\ Base(e, i) \in MailOf(e)
  <2>1. i \in Nat /\ Retransmitted(e) \in Nat
    BY BaseType
  <2>2. ~(i <= Retransmitted(e))
    BY <2>1
  <2> QED
    BY <2>2, BaseType DEF Base
<1>2. IsOrderedOnly(Base(e, i)) => Base(e, i).id # 0
  BY <1>1 DEF IsOrderedOnly, MailOf, Mail
<1>3. Base(e, i).id # 0 => \A k \in IDs(Used(e)) \cup Has(e) : k < Base(e, i).id
  BY <1>1 DEF Direction, InLine, Ahead
<1> QED
  BY <1>1, <1>2, <1>3

LEMMA FreshFollowsUsed ==
    ASSUME NEW e \in Ends, Direction(e), NEW i \in 1 .. Sending(e), Base(e, i).m_sequence = 0,
           NEW m \in Used(e)
    PROVE  Follows(m, Numbered(e, i), zeroed[e])
<1> DEFINE l == Numbered(e, i)
<1>1. /\ l.id = Base(e, i).id /\ l.flags = Base(e, i).flags /\ l.number > numbered[e]
      /\ l \in MailOf(e)
  BY NumberedEffect
<1> HIDE DEF l
<1>2. m.number < l.number
  <2>1. m.number \in Exchanged + 1 .. numbered[e] /\ numbered[e] \in Nat
    BY DEF Direction, Numbering, Consistent, Spelled, SendSide
  <2>2. l.number \in Nat
    BY <1>1 DEF MailOf, Mail
  <2> QED
    BY <1>1, <2>1, <2>2, LinkAssumption
<1>3. m.id \in IDs(Used(e)) /\ m.id \in Nat
  BY IDsAccepted DEF IDs
<1>4. CASE i > Retransmitted(e)
  <2>1. /\ l.id # 0 => m.id < l.id
        /\ IsOrderedOnly(l) => l.id # 0
    BY <1>1, <1>3, <1>4, PendingBehind DEF IsOrderedOnly, IsReliable
  <2> QED
    BY <1>2, <1>3, <2>1 DEF Follows, l
<1>5. CASE ~(i > Retransmitted(e))
  <2>1. Base(e, i) \in Waiting(e)
    BY <1>5, BaseType
  <2>2. Base(e, i).id \in zeroed[e] /\ IsReliable(Base(e, i))
    BY <2>1 DEF Direction, Numbering, Consistent, Used, SendSide
  <2>3. l.id \in zeroed[e] /\ ~IsOrderedOnly(l)
    BY <1>1, <2>2 DEF IsOrderedOnly, IsReliable
  <2> QED
    BY <1>2, <2>3 DEF Follows, l
<1> QED
  BY <1>4, <1>5

LEMMA NumberedFollows ==
    ASSUME NEW e \in Ends, Direction(e), NEW i \in 1 .. Sending(e), NEW j \in 1 .. Sending(e), i < j
    PROVE  Follows(Numbered(e, i), Numbered(e, j), zeroed[e])
<1> DEFINE m == Numbered(e, i)
           l == Numbered(e, j)
           r == Retransmitted(e)
<1>1. /\ l.id = Base(e, j).id /\ l.flags = Base(e, j).flags /\ m.id = Base(e, i).id
      /\ m.number < l.number /\ m \in MailOf(e)
  BY NumberedEffect, NumberedAscending
<1>2. i \in Nat /\ j \in Nat /\ r \in {0, 1} /\ j > r
  BY BaseType
<1>3. m.id \in Nat
  BY <1>1, IDsAccepted
<1>4. l.id # 0 => m.id < l.id
  <2>1. CASE i > r
    <3>1. /\ Base(e, i) = Pending(e)[i - r] /\ i - r \in DOMAIN Pending(e)
          /\ Base(e, j) = Pending(e)[j - r] /\ j - r \in DOMAIN Pending(e)
          /\ i - r < j - r
      BY <1>2, <2>1, PendingBehind
    <3> QED
      BY <1>1, <3>1 DEF Direction, InLine, Ahead
  <2>2. CASE ~(i > r)
    <3>1. Base(e, i) \in Waiting(e)
      BY <1>2, <2>2, BaseType
    <3>2. Base(e, i).id \in IDs(Used(e))
      BY <3>1 DEF IDs, Used
    <3> QED
      BY <1>1, <1>2, <3>2, PendingBehind
  <2> QED
    BY <2>1, <2>2
<1>5. IsOrderedOnly(l) => l.id # 0
  BY <1>1, <1>2, PendingBehind DEF IsOrderedOnly, IsReliable
<1> HIDE DEF m, l
<1>6. l.id # 0 => m.id # l.id
  BY <1>3, <1>4
<1> QED
  BY <1>1, <1>4, <1>5, <1>6 DEF Follows, m, l

\* The messages of the packet e sends, and those of them with sequence 0.
SentMessages(e) == {Numbered(e, i) : i \in 1 .. Sending(e)}
ZeroedAfter(e) == zeroed[e] \cup IDs({m \in SentMessages(e) : m.m_sequence = 0})

LEMMA NumberedAfterType ==
    ASSUME NEW e \in Ends, Direction(e)
    PROVE  numbered[e] \in Nat /\ NumberedAfter(e) \in Nat /\ numbered[e] <= NumberedAfter(e)
<1>1. numbered[e] \in Nat /\ Sending(e) \in Nat
  BY BaseType DEF Direction, SendSide
<1>2. FreshUpTo(PacketMessages(tx[e]), Sending(e)) \in Nat
  BY <1>1, FreshUpToGrows
<1> QED
  BY <1>1, <1>2 DEF NumberedAfter, FreshNumber

LEMMA NumberedConsistent ==
    ASSUME NEW e \in Ends, Direction(e)
    PROVE  Consistent(Used(e) \cup SentMessages(e), NumberedAfter(e), ZeroedAfter(e))
<1> DEFINE z == zeroed[e]
           z2 == ZeroedAfter(e)
           used == Used(e)
           sent == SentMessages(e)
           n == numbered[e]
           n2 == NumberedAfter(e)
<1>1. z \subseteq z2
  BY DEF ZeroedAfter
<1>2. Consistent(used, n, z)
  BY DEF Direction, Numbering
<1>3. \A i \in 1 .. Sending(e) : Numbered(e, i) \in used \/ Base(e, i).m_sequence = 0
  BY NumberedEffect DEF Used
<1>4. ASSUME NEW m \in used \cup sent, NEW l \in used \cup sent
      PROVE  (m \in used /\ l \in used) \/ m = l \/ Follows(m, l, z) \/ Follows(l, m, z)
  <2>1. CASE l \in used /\ m \notin used
    BY <1>3, <2>1, FreshFollowsUsed DEF SentMessages
  <2>2. CASE m \in used /\ l \notin used
    BY <1>3, <2>2, FreshFollowsUsed DEF SentMessages
  <2>3. CASE m \notin used /\ l \notin used
    <3>1. PICK i \in 1 .. Sending(e) : m = Numbered(e, i)
      BY <2>3 DEF SentMessages
    <3>2. PICK j \in 1 .. Sending(e) : l = Numbered(e, j)
      BY <2>3 DEF SentMessages
    <3>3. i \in Int /\ j \in Int
      OBVIOUS
    <3>4. i = j \/ i < j \/ j < i
      BY <3>3
    <3> QED
      BY <3>1, <3>2, <3>4, NumberedFollows
  <2> QED
    BY <2>1, <2>2, <2>3
<1>5. \A m \in used \cup sent : m.number \in Nat /\ m.id \in Nat
  <2>1. used \cup sent \subseteq MailOf(e)
    BY NumberedEffect, IDsAccepted DEF SentMessages
  <2> QED
    BY <2>1 DEF MailOf, Mail
<1>6. ASSUME NEW m \in used \cup sent
      PROVE  Spelled(m, n2) /\ (m.m_sequence = 0 => m.id \in z2)
  <2>1. CASE m \in used
    <3>1. Spelled(m, n) /\ (m.m_sequence = 0 => m.id \in z)
      BY <1>2, <2>1 DEF Consistent
    <3>2. n \in Nat /\ n2 \in Nat /\ n <= n2
      BY NumberedAfterType
    <3> QED
      BY <1>1, <3>1, <3>2, LinkAssumption DEF Spelled
  <2>2. CASE m \in sent
    BY <2>2, NumberedEffect DEF SentMessages, ZeroedAfter, IDs
  <2> QED
    BY <2>1, <2>2
<1> HIDE DEF z2, used, sent, n2
<1>7. ASSUME NEW m \in used \cup sent, NEW l \in used \cup sent
      PROVE  /\ m.number = l.number => m = l
             /\ m.id = l.id /\ m.id # 0 /\ m.id \notin z2 => m = l
             /\ IsOrderedOnly(m) /\ IsOrderedOnly(l) /\ m.number < l.number => m.id < l.id
  <2>1. m.number \in Nat /\ l.number \in Nat
    BY <1>5
  <2>2. CASE m \in used /\ l \in used
    BY <1>1, <1>2, <2>2 DEF Consistent
  <2>3. CASE m = l
    BY <2>1, <2>3
  <2>4. CASE Follows(m, l, z)
    BY <1>1, <2>1, <2>4 DEF Follows
  <2>5. CASE Follows(l, m, z)
    BY <1>1, <2>1, <2>5 DEF Follows
  <2> QED
    BY <1>4, <2>2, <2>3, <2>4, <2>5
<1>8. Consistent(used \cup sent, n2, z2)
  BY <1>6, <1>7 DEF Consistent
<1> QED
  BY <1>8 DEF used, sent, n2, z2

LEMMA SentType ==
    ASSUME NEW e \in Ends, Direction(e), rx[e] \in Receivers
    PROVE  /\ Sent(e) \in Datagrams(MailOf(e))
           /\ Sent(e).messages \in Seq(MailOf(e))
           /\ Len(Sent(e).messages) = Sending(e)
           /\ ToSet(Sent(e).messages) = SentMessages(e)
           /\ Ascending(Sent(e).messages)
<1> DEFINE messages == Sent(e).messages
<1>1. messages = [i \in 1 .. Sending(e) |-> Numbered(e, i)]
  BY StampedEffect
<1>2. Sent(e) = [m_ackseq |-> rx[e].m_sequenceIn, m_ackbits |-> GetAckBits(rx[e]),
                 newest |-> Newest(rx[e]), messages |-> messages]
  BY StampedEffect
<1>3. Sending(e) \in Nat /\ \A i \in 1 .. Sending(e) : Numbered(e, i) \in MailOf(e)
  BY BaseType, NumberedEffect
<1> HIDE DEF messages
<1>4. /\ messages \in Seq(MailOf(e)) /\ Len(messages) = Sending(e)
      /\ DOMAIN messages = 1 .. Sending(e)
      /\ \A i \in 1 .. Sending(e) : messages[i] = Numbered(e, i)
  BY <1>1, <1>3
<1>5. ToSet(messages) = SentMessages(e)
  BY <1>4 DEF ToSet, SentMessages
<1>6. Ascending(messages)
  BY <1>4, NumberedAscending DEF Ascending
<1>7. rx[e].m_sequenceIn \in Sequences16 /\ Newest(rx[e]) \in Nat
  BY NewestType DEF Receivers
<1>8. Sent(e) \in Datagrams(MailOf(e))
  BY <1>2, <1>4, <1>7, GetAckBitsType DEF Datagrams
<1> QED
  BY <1>4, <1>5, <1>6, <1>8 DEF messages

\* What Peer::send does to the sending end.
LEMMA SendPacketEffect ==
    ASSUME Counting, Shape, NEW e \in Ends, Direction(e), rx[e] \in Receivers,
           NEW arrives, SendPacket(e, arrives)
    PROVE  /\ UNCHANGED <<script, rx, silent, accepted, held, processed>>
           /\ DOMAIN tx' = Ends /\ DOMAIN numbered' = Ends /\ DOMAIN zeroed' = Ends
           /\ DOMAIN net' = Ends
           /\ \A f \in Ends : f # e =>
                tx'[f] = tx[f] /\ numbered'[f] = numbered[f] /\ zeroed'[f] = zeroed[f]
           /\ numbered'[e] = NumberedAfter(e)
           /\ zeroed'[e] = ZeroedAfter(e)
           /\ net'[e] = net[e]
           /\ net'[Other(e)] \in {net[Other(e)], Append(net[Other(e)], Sent(e))}
           /\ tx'[e] \in Senders(MailOf(e))
           /\ tx'[e].m_sequenceOut = Wrap(NumberedAfter(e) + 1)
           /\ Pending(e)' = SubSeq(Pending(e), PendingTaken(tx[e]) + 1, Len(Pending(e)))
           /\ Waiting(e)' = ToSet(SubSeq(tx[e].m_reliableMessages, Retransmitted(e) + 1,
                                         Len(tx[e].m_reliableMessages)))
                                \cup {m \in SentMessages(e) : IsReliable(m)}
<1> DEFINE M == MailOf(e)
           packet == Sent(e)
           ms == PacketMessages(tx[e])
           left == SubSeq(Pending(e), PendingTaken(tx[e]) + 1, Len(Pending(e)))
           out == Wrap(tx[e].m_sequenceOut + FreshUpTo(ms, Len(packet.messages)))
<1>1. /\ tx' = [tx EXCEPT ![e] = AfterSend(@, packet)]
      /\ numbered' = [numbered EXCEPT ![e] = @ + FreshUpTo(ms, Len(packet.messages))]
      /\ zeroed' = [zeroed EXCEPT ![e] = @ \cup {m.id : m \in {n \in ToSet(packet.messages) :
                                                                    n.m_sequence = 0}}]
      /\ net' = net \/ net' = [net EXCEPT ![Other(e)] = Append(@, packet)]
      /\ UNCHANGED <<script, rx, silent, accepted, held, processed>>
  BY DEF SendPacket, Sent
<1>2. /\ tx[e] \in Senders(M) /\ packet.messages \in Seq(M)
      /\ Len(packet.messages) = Sending(e) /\ Len(ms) = Sending(e)
      /\ ToSet(packet.messages) = SentMessages(e)
  BY SentType, BaseType DEF Direction, SendSide
<1> HIDE DEF packet
<1>3. PICK requeued \in Seq(M) :
        /\ AfterSend(tx[e], packet) = [m_sequenceOut |-> out, m_pendingMessages |-> left,
                                       m_reliableMessages |-> requeued]
        /\ ToSet(requeued) = ToSet(SubSeq(tx[e].m_reliableMessages, Retransmitted(e) + 1,
                                          Len(tx[e].m_reliableMessages)))
                                \cup {m \in SentMessages(e) : IsReliable(m)}
  <2>1. tx[e] \in Senders(M) /\ packet.messages \in Seq(M)
        /\ Len(packet.messages) = Len(PacketMessages(tx[e]))
    BY <1>2
  <2> HIDE DEF M, ms, left, out
  <2>2. PICK requeued \in Seq(M) :
            /\ AfterSend(tx[e], packet) =
                [m_sequenceOut |-> Wrap(tx[e].m_sequenceOut
                            + FreshUpTo(PacketMessages(tx[e]), Len(packet.messages))),
                 m_pendingMessages |-> SubSeq(tx[e].m_pendingMessages, PendingTaken(tx[e]) + 1,
                                              Len(tx[e].m_pendingMessages)),
                 m_reliableMessages |-> requeued]
            /\ ToSet(requeued) =
                    ToSet(SubSeq(tx[e].m_reliableMessages, Len(OldestReliable(tx[e])) + 1,
                                 Len(tx[e].m_reliableMessages)))
                        \cup {m \in ToSet(packet.messages) : IsReliable(m)}
    BY <2>1, AfterSendEffect, Zenon
  <2>3. Len(OldestReliable(tx[e])) = Retransmitted(e) /\ ToSet(packet.messages) = SentMessages(e)
    BY <1>2 DEF Retransmitted
  <2>4. AfterSend(tx[e], packet) = [m_sequenceOut |-> out, m_pendingMessages |-> left,
                                   m_reliableMessages |-> requeued]
    BY <2>2, Zenon DEF out, left, ms, Pending
  <2>5. ToSet(requeued) = ToSet(SubSeq(tx[e].m_reliableMessages, Retransmitted(e) + 1,
                                       Len(tx[e].m_reliableMessages)))
                                \cup {m \in SentMessages(e) : IsReliable(m)}
    BY <2>2, <2>3, Zenon
  <2> QED
    BY <2>4, <2>5, Zenon
<1>4. left \in Seq(M)
  <2>1. /\ Pending(e) \in Seq(M) /\ Len(Pending(e)) \in Nat
        /\ PendingTaken(tx[e]) \in 0 .. Len(Pending(e))
        /\ \A i \in 1 .. Len(Pending(e)) : Pending(e)[i] \in M
    BY <1>2, BaseType, LenProperties, ElementOfSeq DEF Senders, Pending
  <2> HIDE DEF M
  <2> QED
    BY <2>1, SubSeqProperties
<1>5. out = Wrap(NumberedAfter(e) + 1) /\ out \in Sequences16
  <2>1. /\ FreshUpTo(ms, Sending(e)) \in Nat /\ numbered[e] \in Nat
        /\ tx[e].m_sequenceOut = Wrap(numbered[e] + 1)
    BY BaseType, FreshUpToGrows DEF Direction, SendSide
  <2>2. out = Wrap(Wrap(numbered[e] + 1) + FreshUpTo(ms, Sending(e)))
    BY <1>2, <2>1
  <2> HIDE DEF ms, out
  <2>3. out = Wrap(numbered[e] + 1 + FreshUpTo(ms, Sending(e)))
    <3>1. numbered[e] + 1 \in Nat
      BY <2>1
    <3> QED
      BY <2>1, <2>2, <3>1, WrapSum, Zenon
  <2>4. numbered[e] + 1 + FreshUpTo(ms, Sending(e)) = NumberedAfter(e) + 1
    BY <2>1 DEF NumberedAfter, FreshNumber, ms
  <2>5. NumberedAfter(e) + 1 \in Int
    BY NumberedAfterType
  <2> QED
    BY <2>3, <2>4, <2>5, WrapType
<1>6. /\ DOMAIN tx = Ends /\ DOMAIN numbered = Ends /\ DOMAIN zeroed = Ends /\ DOMAIN net = Ends
  BY DEF Shape
<1> HIDE DEF left, out
<1>7. tx'[e] = [m_sequenceOut |-> out, m_pendingMessages |-> left, m_reliableMessages |-> requeued]
  BY <1>1, <1>3, <1>6
<1>8. tx'[e] \in Senders(M) /\ tx'[e].m_sequenceOut = Wrap(NumberedAfter(e) + 1)
  BY <1>4, <1>5, <1>7 DEF Senders
<1>9. Pending(e)' = left /\ Waiting(e)' = ToSet(requeued)
  BY <1>7 DEF Pending, Waiting
<1>10. numbered'[e] = NumberedAfter(e)
  BY <1>1, <1>2, <1>6 DEF NumberedAfter, FreshNumber
<1>11. zeroed'[e] = ZeroedAfter(e)
  BY <1>1, <1>2, <1>6 DEF ZeroedAfter, IDs
<1>12. /\ net'[e] = net[e] /\ DOMAIN net' = Ends
       /\ net'[Other(e)] \in {net[Other(e)], Append(net[Other(e)], packet)}
  BY <1>1, <1>6, OtherEnd
<1>13. DOMAIN tx' = Ends /\ DOMAIN numbered' = Ends /\ DOMAIN zeroed' = Ends
       /\ \A f \in Ends : f # e =>
            tx'[f] = tx[f] /\ numbered'[f] = numbered[f] /\ zeroed'[f] = zeroed[f]
  BY <1>1, <1>6
<1> QED
  BY <1>1, <1>3, <1>8, <1>9, <1>10, <1>11, <1>12, <1>13 DEF left, packet

LEMMA SubSeqElements ==
    ASSUME NEW M, NEW s \in Seq(M), NEW n \in 0 .. Len(s)
    PROVE  /\ SubSeq(s, n + 1, Len(s)) \in Seq(M)
           /\ Len(SubSeq(s, n + 1, Len(s))) = Len(s) - n
           /\ \A i \in 1 .. Len(s) - n : SubSeq(s, n + 1, Len(s))[i] = s[n + i]
           /\ ToSet(SubSeq(s, n + 1, Len(s))) \subseteq ToSet(s)
<1> DEFINE rest == SubSeq(s, n + 1, Len(s))
<1>1. Len(s) \in Nat /\ n \in Nat
  BY LenProperties
<1>2. \A i \in 1 .. Len(s) : s[i] \in M /\ s[i] \in ToSet(s)
  BY ElementOfSeq, ToSetType
<1>3. /\ rest \in Seq(M) /\ Len(rest) = Len(s) - n
      /\ \A i \in 1 .. Len(s) - n : rest[i] = s[n + i]
  <2>1. n + 1 \in 1 .. Len(s) + 1 /\ n + 1 \in Int /\ Len(s) \in Int
    BY <1>1
  <2>2. /\ rest \in Seq(M)
        /\ Len(rest) = (IF n + 1 <= Len(s) THEN Len(s) - (n + 1) + 1 ELSE 0)
        /\ \A i \in 1 .. Len(s) - (n + 1) + 1 : rest[i] = s[(n + 1) + i - 1]
    BY <1>2, <2>1, SubSeqProperties
  <2>3. \A i \in 1 .. Len(s) - n : (n + 1) + i - 1 = n + i
    BY <1>1
  <2>4. /\ Len(s) - (n + 1) + 1 = Len(s) - n
        /\ (IF n + 1 <= Len(s) THEN Len(s) - (n + 1) + 1 ELSE 0) = Len(s) - n
    BY <1>1
  <2> HIDE DEF rest
  <2> QED
    BY <2>2, <2>3, <2>4
<1>4. ToSet(rest) \subseteq ToSet(s)
  <2> HIDE DEF rest
  <2> SUFFICES ASSUME NEW m \in ToSet(rest) PROVE m \in ToSet(s)
    OBVIOUS
  <2>1. PICK i \in 1 .. Len(rest) : m = rest[i]
    BY <1>3, ToSetType
  <2>2. m = s[n + i] /\ n + i \in 1 .. Len(s)
    BY <1>1, <1>3, <2>1
  <2> QED
    BY <1>2, <2>2
<1> QED
  BY <1>3, <1>4

\* After it only the messages of the packet are new on their way or waiting.
LEMMA SendUses ==
    ASSUME Counting, Shape, NEW e \in Ends, Direction(e), rx[e] \in Receivers,
           NEW arrives, SendPacket(e, arrives)
    PROVE  /\ net'[Other(e)] \in Seq(Datagrams(MailOf(e)))
           /\ ToSet(net'[Other(e)]) \subseteq ToSet(net[Other(e)]) \cup {Sent(e)}
           /\ Waiting(e)' \subseteq Waiting(e) \cup SentMessages(e)
           /\ Carried(e)' \subseteq Carried(e) \cup SentMessages(e)
<1> DEFINE M == MailOf(e)
           o == Other(e)
           sent == SentMessages(e)
           r == Retransmitted(e)
<1>1. /\ net'[o] \in {net[o], Append(net[o], Sent(e))}
      /\ Waiting(e)' = ToSet(SubSeq(tx[e].m_reliableMessages, r + 1,
                                    Len(tx[e].m_reliableMessages)))
                            \cup {m \in sent : IsReliable(m)}
  BY SendPacketEffect
<1>2. r \in 0 .. Len(tx[e].m_reliableMessages) /\ tx[e].m_reliableMessages \in Seq(M)
  <2>1. tx[e] \in Senders(M)
    BY DEF Direction, SendSide
  <2> QED
    BY <2>1, OldestReliableType DEF Retransmitted, Senders
<1>3. Waiting(e)' \subseteq Waiting(e) \cup sent
  <2>1. ToSet(SubSeq(tx[e].m_reliableMessages, r + 1, Len(tx[e].m_reliableMessages)))
            \subseteq Waiting(e)
    BY <1>2, SubSeqElements DEF Waiting
  <2> QED
    BY <1>1, <2>1
<1>4. /\ net'[o] \in Seq(Datagrams(M))
      /\ ToSet(net'[o]) \subseteq ToSet(net[o]) \cup {Sent(e)}
  <2>1. net[o] \in Seq(Datagrams(M))
    BY DEF Direction, ReceiveSide
  <2>2. /\ Append(net[o], Sent(e)) \in Seq(Datagrams(M))
        /\ ToSet(Append(net[o], Sent(e))) = ToSet(net[o]) \cup {Sent(e)}
    BY <2>1, SentType, AppendProperties, ToSetAppend
  <2> QED
    BY <1>1, <2>1, <2>2
<1>5. Carried(e)' \subseteq Carried(e) \cup sent
  BY <1>4, SentType DEF Carried
<1> QED
  BY <1>3, <1>4, <1>5

\* Sending keeps the direction of the packet.
LEMMA SendDirection ==
    ASSUME Counting, Shape, NEW e \in Ends, Direction(e), rx[e] \in Receivers,
           NEW arrives, SendPacket(e, arrives)
    PROVE  Direction(e)'
<1> DEFINE M == MailOf(e)
           o == Other(e)
           sent == SentMessages(e)
           t == PendingTaken(tx[e])
           r == Retransmitted(e)
           n == NumberedAfter(e)
<1>1. /\ script' = script /\ accepted' = accepted /\ rx' = rx /\ held' = held
      /\ processed' = processed
      /\ numbered'[e] = n /\ zeroed'[e] = ZeroedAfter(e)
      /\ net'[o] \in {net[o], Append(net[o], Sent(e))}
      /\ tx'[e] \in Senders(M) /\ tx'[e].m_sequenceOut = Wrap(n + 1)
      /\ Pending(e)' = SubSeq(Pending(e), t + 1, Len(Pending(e)))
      /\ Waiting(e)' = ToSet(SubSeq(tx[e].m_reliableMessages, r + 1,
                                    Len(tx[e].m_reliableMessages)))
                            \cup {m \in sent : IsReliable(m)}
  BY SendPacketEffect
<1>2. /\ r \in 0 .. Len(tx[e].m_reliableMessages) /\ t \in 0 .. Len(Pending(e))
      /\ Pending(e) \in Seq(M) /\ tx[e].m_reliableMessages \in Seq(M)
      /\ Len(Pending(e)) \in Nat /\ DOMAIN Pending(e) = 1 .. Len(Pending(e))
  <2>1. tx[e] \in Senders(M)
    BY DEF Direction, SendSide
  <2>2. Pending(e) \in Seq(M) /\ tx[e].m_reliableMessages \in Seq(M)
    BY <2>1 DEF Senders, Pending
  <2>3. t \in 0 .. Len(Pending(e)) /\ r \in 0 .. Len(tx[e].m_reliableMessages)
    BY <2>1, BaseType, OldestReliableType DEF Retransmitted
  <2> QED
    BY <2>2, <2>3, LenProperties
<1>3. /\ Len(Pending(e)') = Len(Pending(e)) - t
      /\ DOMAIN Pending(e)' = 1 .. Len(Pending(e)) - t
      /\ \A i \in 1 .. Len(Pending(e)) - t :
            Pending(e)'[i] = Pending(e)[t + i] /\ t + i \in DOMAIN Pending(e)
  <2>1. /\ Pending(e)' \in Seq(M) /\ Len(Pending(e)') = Len(Pending(e)) - t
        /\ \A i \in 1 .. Len(Pending(e)) - t : Pending(e)'[i] = Pending(e)[t + i]
    BY <1>1, <1>2, SubSeqElements, SMTT(20), ZenonT(30)
  <2>2. \A i \in 1 .. Len(Pending(e)) - t : t + i \in 1 .. Len(Pending(e))
    BY <1>2
  <2> QED
    BY <1>2, <2>1, <2>2, LenProperties
<1>4. /\ net'[o] \in Seq(Datagrams(M))
      /\ ToSet(net'[o]) \subseteq ToSet(net[o]) \cup {Sent(e)}
      /\ Waiting(e)' \subseteq Waiting(e) \cup sent
      /\ Carried(e)' \subseteq Carried(e) \cup sent
  BY SendUses
<1>5. \A m \in Waiting(e)' : IsReliable(m)
  <2>1. \A m \in Waiting(e) : IsReliable(m)
    BY DEF Direction, SendSide
  <2>2. ToSet(SubSeq(tx[e].m_reliableMessages, r + 1, Len(tx[e].m_reliableMessages)))
            \subseteq Waiting(e)
    BY <1>2, SubSeqElements DEF Waiting
  <2> QED
    BY <1>1, <2>1, <2>2
<1>7. Used(e)' \subseteq Used(e) \cup sent
  BY <1>4 DEF Used
<1>8. MailOf(e)' = M /\ Has(e)' = Has(e)
  BY <1>1 DEF MailOf, Has
<1>9. SendSide(e)'
  <2>1. n \in Nat /\ n >= Exchanged
    BY NumberedAfterType, LinkAssumption DEF Direction, SendSide
  <2>2. \A i \in DOMAIN Pending(e)' : IsBlank(Pending(e)'[i])
    BY <1>3 DEF Direction, SendSide
  <2> HIDE DEF M, n
  <2> QED
    BY <1>1, <1>5, <1>8, <2>1, <2>2 DEF Direction, SendSide
<1>10. ReceiveSide(e)'
  BY <1>1, <1>4, <1>8 DEF Direction, ReceiveSide
<1>11. Numbering(e)'
  <2>1. Consistent(Used(e)', n, ZeroedAfter(e))
    BY <1>7, NumberedConsistent, ConsistentSubset
  <2>2. \A m \in ToSet(held[o]) : Spelled(m, n)
    <3>1. \A m \in ToSet(held[o]) : Spelled(m, numbered[e])
      BY DEF Direction, Numbering
    <3>2. numbered[e] \in Nat /\ n \in Nat /\ numbered[e] <= n
      BY NumberedAfterType
    <3> HIDE DEF n
    <3> QED
      BY <3>1, <3>2, LinkAssumption DEF Spelled
  <2>3. \A packet \in ToSet(net'[o]) : Ascending(packet.messages)
    BY <1>4, SentType DEF Direction, Numbering
  <2> QED
    BY <1>1, <2>1, <2>2, <2>3 DEF Numbering
<1>12. InLine(e)'
  <2> DEFINE ids == IDs(Used(e)) \cup Has(e)
  <2>1. Ahead(Pending(e), ids)
    BY DEF Direction, InLine
  <2>2. ASSUME NEW i \in DOMAIN Pending(e)', Pending(e)'[i].id # 0
        PROVE  /\ \A j \in DOMAIN Pending(e)' : j < i => Pending(e)'[j].id < Pending(e)'[i].id
               /\ \A k \in ids \cup IDs(sent) : k < Pending(e)'[i].id
    <3>1. /\ i \in Nat \ {0} /\ t \in Nat /\ t + i \in DOMAIN Pending(e)
          /\ Pending(e)'[i] = Pending(e)[t + i]
      BY <1>2, <1>3
    <3>2. ASSUME NEW j \in DOMAIN Pending(e)', j < i
          PROVE  Pending(e)'[j].id < Pending(e)'[i].id
      <4>1. t + j \in DOMAIN Pending(e) /\ Pending(e)'[j] = Pending(e)[t + j] /\ t + j < t + i
        BY <1>2, <1>3, <3>1, <3>2
      <4> HIDE DEF t
      <4> QED
        BY <2>1, <2>2, <3>1, <4>1 DEF Ahead
    <3>3. \A k \in ids : k < Pending(e)'[i].id
      BY <2>1, <2>2, <3>1 DEF Ahead
    <3>4. ASSUME NEW k \in IDs(sent) PROVE k < Pending(e)'[i].id
      <4>1. PICK j \in 1 .. Sending(e) : k = Base(e, j).id
        BY NumberedEffect DEF IDs, SentMessages
      <4>2. CASE j > r
        <5>1. Base(e, j) = Pending(e)[j - r] /\ j - r \in DOMAIN Pending(e)
          BY <4>2, PendingBehind
        <5>2. j - r < t + i
          BY <1>2, <3>1, BaseType DEF Sending
        <5> HIDE DEF t, r
        <5> QED
          BY <2>1, <2>2, <3>1, <4>1, <5>1, <5>2 DEF Ahead
      <4>3. CASE ~(j > r)
        <5>1. Base(e, j) \in Waiting(e)
          BY <4>3, BaseType
        <5>2. k \in ids
          BY <4>1, <5>1 DEF IDs, Used
        <5> QED
          BY <3>3, <5>2
      <4> QED
        BY <4>2, <4>3
    <3> QED
      BY <3>2, <3>3, <3>4
  <2>3. IDs(Used(e)') \cup Has(e)' \subseteq ids \cup IDs(sent)
    BY <1>7, <1>8 DEF IDs
  <2> HIDE DEF ids, sent
  <2> QED
    BY <2>2, <2>3 DEF InLine, Ahead
<1> QED
  BY <1>9, <1>10, <1>11, <1>12 DEF Direction

-----------------------------------------------------------------------------
LEMMA CheckedType ==
    ASSUME NEW receiver \in Receivers, NEW m, m.m_sequence \in Sequences16
    PROVE  Checked(receiver, m) \in Receivers
BY AfterSequenceCheckType DEF Checked

\* A KeepAlive behind the others.
LEMMA EnqueueBehind ==
    ASSUME NEW M, NEW sender \in Senders(M), NEW m \in M, IsBlank(m), m.id = 0
    PROVE  LET after == EnqueueMessage(sender, m)
           IN  /\ after \in Senders(M)
               /\ after.m_sequenceOut = sender.m_sequenceOut
               /\ after.m_reliableMessages = sender.m_reliableMessages
               /\ KeepAlivesBehind(sender.m_pendingMessages, after.m_pendingMessages)
<1> DEFINE old == sender.m_pendingMessages
           new == Append(old, m)
           after == EnqueueMessage(sender, m)
<1>1. old \in Seq(M) /\ Len(old) \in Nat /\ DOMAIN old = 1 .. Len(old)
  BY LenProperties DEF Senders
<1>2. /\ new \in Seq(M) /\ Len(new) = Len(old) + 1
      /\ \A i \in 1 .. Len(old) : new[i] = old[i]
      /\ new[Len(old) + 1] = m
  BY <1>1, AppendProperties
<1>3. DOMAIN new = 1 .. Len(old) + 1
  BY <1>1, <1>2, LenProperties
<1>4. KeepAlivesBehind(old, new)
  <2> HIDE DEF old, new
  <2>1. \A i \in 1 .. Len(old) + 1 : i \notin 1 .. Len(old) => i = Len(old) + 1
    BY <1>1
  <2> QED
    BY <1>1, <1>2, <1>3, <2>1 DEF KeepAlivesBehind
<1>5. /\ after.m_sequenceOut = sender.m_sequenceOut
      /\ after.m_reliableMessages = sender.m_reliableMessages
      /\ after.m_pendingMessages = new
  BY DEF EnqueueMessage, Senders
<1> QED
  BY <1>4, <1>5, EnqueueMessageType

LEMMA KeepAlivesBehindBoth ==
    ASSUME NEW a, NEW b, NEW c, KeepAlivesBehind(a, b), KeepAlivesBehind(b, c)
    PROVE  KeepAlivesBehind(a, c)
BY DEF KeepAlivesBehind

\* One turn of the loop.
LEMMA ParseMessageEffect ==
    ASSUME script \in Scripts, NEW e \in Ends, NEW mine, NEW theirs, NEW n \in Nat,
           NEW s \in ParseStates(mine, theirs, n), NEW m \in theirs,
           m.m_sequence \in Sequences16, m.id \in 0 .. n, m.origin \in Ends,
           \A origin \in Ends : KeepAlive(origin) \in mine
    PROVE  /\ ParseMessage(e, s, m) \in ParseStates(mine, theirs, n)
           /\ Parsed(s, m, e \in script.delayed, ParseMessage(e, s, m))
<1> DEFINE checked == [s EXCEPT !.rx = Checked(s.rx, m)]
           after == ParseMessage(e, s, m)
           delayed == e \in script.delayed
<1>1. /\ checked = [rx |-> Checked(s.rx, m), held |-> s.held, processed |-> s.processed, tx |-> s.tx]
      /\ s.rx \in Receivers /\ s.held \in Seq(theirs) /\ s.processed \in Seq(1 .. n)
      /\ s.tx \in Senders(mine)
  BY DEF ParseStates
<1>2. Checked(s.rx, m) \in Receivers
  BY <1>1, CheckedType
<1>3. checked \in ParseStates(mine, theirs, n)
  <2> HIDE DEF checked
  <2> QED
    BY <1>1, <1>2 DEF ParseStates
<1>4. IsUnsequenced(m) => checked = s
  BY DEF Checked, ParseStates
<1>5. after = IF ~Passes(s.rx, m) THEN checked
              ELSE IF delayed THEN [checked EXCEPT !.held = Append(@, m)]
              ELSE ProcessMessage(e, checked, m)
  <2>1. CASE IsUnsequenced(m)
    BY <1>4, <2>1 DEF ParseMessage, Passes, AddPendingMessage
  <2>2. CASE ~IsUnsequenced(m)
    BY <2>2 DEF ParseMessage, Passes, Checked, AddPendingMessage
  <2> QED
    BY <2>1, <2>2
<1> HIDE DEF after, checked
<1>6. CASE ~Passes(s.rx, m)
  BY <1>1, <1>3, <1>5, <1>6 DEF Parsed, after
<1>7. CASE Passes(s.rx, m) /\ delayed
  <2>1. after = [rx |-> Checked(s.rx, m), held |-> Append(s.held, m), processed |-> s.processed,
                 tx |-> s.tx]
    BY <1>1, <1>5, <1>7
  <2>2. Append(s.held, m) \in Seq(theirs)
    BY <1>1, AppendProperties
  <2>3. after \in ParseStates(mine, theirs, n)
    BY <1>1, <1>2, <2>1, <2>2 DEF ParseStates
  <2> QED
    BY <1>7, <2>1, <2>3 DEF Parsed, after
<1>8. CASE Passes(s.rx, m) /\ ~delayed /\ m.id # 0
  <2>1. after = [rx |-> Checked(s.rx, m), held |-> s.held,
                 processed |-> Append(s.processed, m.id), tx |-> s.tx]
    BY <1>1, <1>5, <1>8 DEF ProcessMessage
  <2>2. Append(s.processed, m.id) \in Seq(1 .. n)
    <3>1. m.id \in 1 .. n
      BY <1>8
    <3> QED
      BY <1>1, <3>1, AppendProperties
  <2>3. after \in ParseStates(mine, theirs, n)
    BY <1>1, <1>2, <2>1, <2>2 DEF ParseStates
  <2> QED
    BY <1>8, <2>1, <2>3 DEF Parsed, after
<1>9. CASE Passes(s.rx, m) /\ ~delayed /\ m.id = 0
  <2>1. CASE m.origin = e
    BY <1>1, <1>3, <1>5, <1>9, <2>1 DEF ProcessMessage, Parsed, after
  <2>2. CASE m.origin # e
    <3>1. after = [rx |-> Checked(s.rx, m), held |-> s.held, processed |-> s.processed,
                   tx |-> EnqueueMessage(s.tx, KeepAlive(m.origin))]
      BY <1>1, <1>5, <1>9, <2>2 DEF ProcessMessage
    <3>2. EnqueueMessage(s.tx, KeepAlive(m.origin)) \in Senders(mine)
      BY <1>1, EnqueueMessageType
    <3>3. after \in ParseStates(mine, theirs, n)
      BY <1>1, <1>2, <3>1, <3>2 DEF ParseStates
    <3> QED
      BY <1>9, <3>1, <3>3 DEF Parsed, after
  <2> QED
    BY <2>1, <2>2
<1> QED
  BY <1>6, <1>7, <1>8, <1>9 DEF after

\* What the loop starts from.
ParseInput(e, packet) ==
    [e |-> e, messages |-> packet.messages,
     mine |-> MailOf(e), theirs |-> MailOf(Other(e)), count |-> accepted[Other(e)],
     delayed |-> e \in script.delayed,
     start |-> [rx |-> rx[e], held |-> held[e], processed |-> processed[e],
                tx |-> ProcessAckBits(tx[e], packet.m_ackseq, packet.m_ackbits)]]

\* Peer::parseBuffer leaves the state after its last turn.
LEMMA ReceivePacketLoop ==
    ASSUME NEW e \in Ends, NEW packet, Len(packet.messages) \in Nat, ReceivePacket(e, packet)
    PROVE  LET x == ParseInput(e, packet)
               N == Len(packet.messages)
           IN  \E r : /\ Parsing!IsLoop(r, N, x.start, x)
                      /\ rx' = [rx EXCEPT ![e] = r[N].rx]
                      /\ tx' = [tx EXCEPT ![e] = r[N].tx]
                      /\ held' = [held EXCEPT ![e] = r[N].held]
                      /\ processed' = [processed EXCEPT ![e] = r[N].processed]
                      /\ silent' = [silent EXCEPT ![e] = FALSE]
                      /\ UNCHANGED <<script, accepted, numbered, zeroed>>
<1> DEFINE x == ParseInput(e, packet)
           N == Len(packet.messages)
           IsParsed(f) == f = [k \in 0 .. Len(packet.messages) |->
                IF k = 0
                THEN [rx |-> rx[e], held |-> held[e], processed |-> processed[e],
                      tx |-> ProcessAckBits(tx[e], packet.m_ackseq, packet.m_ackbits)]
                ELSE ParseMessage(e, f[k - 1], packet.messages[k])]
           parsed == CHOOSE f : IsParsed(f)
<1>1. PICK r : Parsing!IsLoop(r, N, x.start, x)
  <2> HIDE DEF x, N
  <2>1. N \in Nat
    BY DEF N
  <2> QED
    BY <2>1, Parsing!LoopExists
<1>2. IsParsed(r)
  BY <1>1 DEF Parsing!IsLoop, ParseNext, ParseInput
<1>3. IsParsed(parsed)
  BY <1>2
<1>4. Parsing!IsLoop(parsed, N, x.start, x)
  BY <1>3 DEF Parsing!IsLoop, ParseNext, ParseInput
<1>5. /\ rx' = [rx EXCEPT ![e] = parsed[N].rx]
      /\ tx' = [tx EXCEPT ![e] = parsed[N].tx]
      /\ held' = [held EXCEPT ![e] = parsed[N].held]
      /\ processed' = [processed EXCEPT ![e] = parsed[N].processed]
      /\ silent' = [silent EXCEPT ![e] = FALSE]
      /\ UNCHANGED <<script, accepted, numbered, zeroed>>
  BY DEF ReceivePacket
<1> HIDE DEF parsed
<1> QED
  BY <1>4, <1>5

\* Packets on their way carry messages of their sender.
LEMMA PacketType ==
    ASSUME NEW e \in Ends, Direction(e), NEW packet \in ToSet(net[Other(e)])
    PROVE  /\ packet \in Datagrams(MailOf(e))
           /\ packet.messages \in Seq(MailOf(e)) /\ Len(packet.messages) \in Nat
           /\ ToSet(packet.messages) \subseteq Carried(e)
           /\ ToSet(packet.messages) \subseteq MailOf(e)
           /\ Ascending(packet.messages)
           /\ DOMAIN packet.messages = 1 .. Len(packet.messages)
           /\ \A k \in 1 .. Len(packet.messages) : packet.messages[k] \in ToSet(packet.messages)
<1>1. packet \in Datagrams(MailOf(e))
  BY ToSetType DEF Direction, ReceiveSide
<1>2. packet.messages \in Seq(MailOf(e))
  BY <1>1 DEF Datagrams
<1>3. Len(packet.messages) \in Nat /\ DOMAIN packet.messages = 1 .. Len(packet.messages)
  BY <1>2, LenProperties
<1>4. Ascending(packet.messages) /\ ToSet(packet.messages) \subseteq Carried(e)
  BY DEF Carried, Direction, Numbering
<1> QED
  BY <1>1, <1>2, <1>3, <1>4, ToSetType

\* A packet's acknowledgements only shorten the queue of the reliables.
LEMMA AckedType ==
    ASSUME NEW e \in Ends, Direction(e), NEW ackseq, NEW ackbits
    PROVE  LET after == ProcessAckBits(tx[e], ackseq, ackbits)
           IN  /\ after \in Senders(MailOf(e))
               /\ after.m_sequenceOut = tx[e].m_sequenceOut
               /\ after.m_pendingMessages = Pending(e)
               /\ ToSet(after.m_reliableMessages) \subseteq Waiting(e)
               /\ \A m \in Waiting(e) : m.m_sequence \notin AckedSequences(ackseq, ackbits) =>
                        m \in ToSet(after.m_reliableMessages)
<1> DEFINE W == Waiting(e)
           after == ProcessAckBits(tx[e], ackseq, ackbits)
           own == [tx[e] EXCEPT !.m_pendingMessages = <<>>]
<1>1. tx[e] \in Senders(MailOf(e))
  BY DEF Direction, SendSide
<1>2. PICK left \in Seq(MailOf(e)) :
        /\ after = [tx[e] EXCEPT !.m_reliableMessages = left]
        /\ \A m \in ToSet(tx[e].m_reliableMessages) :
                m.m_sequence \notin AckedSequences(ackseq, ackbits) => m \in ToSet(left)
  BY <1>1, ProcessAckBitsEffect
<1>3. after \in Senders(MailOf(e))
  BY <1>1, ProcessAckBitsType
<1>4. left = after.m_reliableMessages
  BY <1>1, <1>2 DEF Senders
<1>5. ToSet(left) \subseteq W
  <2>1. own \in Senders(W)
    <3>1. tx[e].m_reliableMessages \in Seq(W) /\ <<>> \in Seq(W)
      BY <1>1, ToSetType, EmptySeq DEF Senders, Waiting
    <3> QED
      BY <1>1, <3>1 DEF Senders
  <2>2. ProcessAckBits(own, ackseq, ackbits) \in Senders(W)
    <3> HIDE DEF own
    <3> QED
      BY <2>1, ProcessAckBitsType
  <2>3. ProcessAckBits(own, ackseq, ackbits).m_reliableMessages = after.m_reliableMessages
    BY <1>1 DEF ProcessAckBits, Senders
  <2>4. left \in Seq(W)
    BY <1>4, <2>2, <2>3 DEF Senders
  <2> QED
    BY <2>4, ToSetType
<1> QED
  BY <1>1, <1>2, <1>3, <1>4, <1>5 DEF Senders, Pending, Waiting

\* Every message of a packet, parsed in any state, is from the other end.
LEMMA ParseTurn ==
    ASSUME script \in Scripts, NEW e \in Ends, Direction(e), Direction(Other(e)),
           NEW packet \in ToSet(net[e]), NEW k \in 1 .. Len(packet.messages),
           NEW s \in ParseStates(MailOf(e), MailOf(Other(e)), accepted[Other(e)])
    PROVE  LET after == ParseNext(s, k, ParseInput(e, packet))
               m == packet.messages[k]
           IN  /\ after \in ParseStates(MailOf(e), MailOf(Other(e)), accepted[Other(e)])
               /\ Parsed(s, m, e \in script.delayed, after)
               /\ m \in ToSet(packet.messages) /\ m \in MailOf(Other(e)) /\ m.id \in 0 .. accepted[Other(e)]
<1> DEFINE m == packet.messages[k]
<1>1. Other(e) \in Ends /\ Other(Other(e)) = e
  BY OtherEnd
<1>2. m \in ToSet(packet.messages) /\ ToSet(packet.messages) \subseteq MailOf(Other(e))
  BY <1>1, PacketType
<1>3. /\ m \in MailOf(Other(e)) /\ m.m_sequence \in Sequences16
      /\ m.id \in 0 .. accepted[Other(e)] /\ m.origin \in Ends
  BY <1>2 DEF MailOf, Mail
<1>4. accepted[Other(e)] \in Nat /\ accepted[e] \in Nat
  BY <1>1, IDsAccepted
<1>5. \A origin \in Ends : KeepAlive(origin) \in MailOf(e)
  BY <1>4, KeepAliveType DEF MailOf
<1>6. ParseNext(s, k, ParseInput(e, packet)) = ParseMessage(e, s, m)
  BY DEF ParseNext, ParseInput
<1> HIDE DEF m
<1> QED
  BY <1>2, <1>3, <1>4, <1>5, <1>6, ParseMessageEffect DEF m

LEMMA ParseStart ==
    ASSUME script \in Scripts, NEW e \in Ends, Direction(e), Direction(Other(e)), NEW packet
    PROVE  LET x == ParseInput(e, packet)
           IN  /\ x.start \in ParseStates(MailOf(e), MailOf(Other(e)), accepted[Other(e)])
               /\ ParsedSoFar(x.start, 0, x)
<1> DEFINE x == ParseInput(e, packet)
           after == ProcessAckBits(tx[e], packet.m_ackseq, packet.m_ackbits)
<1>1. Other(e) \in Ends /\ Other(Other(e)) = e
  BY OtherEnd
<1>2. /\ rx[e] \in Receivers /\ held[e] \in Seq(MailOf(Other(e)))
      /\ processed[e] \in Seq(1 .. accepted[Other(e)])
  BY <1>1 DEF Direction, ReceiveSide
<1>3. after \in Senders(MailOf(e))
  BY AckedType
<1> HIDE DEF after
<1>4. x.start = [rx |-> rx[e], held |-> held[e], processed |-> processed[e], tx |-> after]
  BY DEF ParseInput, after
<1>5. x.start \in ParseStates(MailOf(e), MailOf(Other(e)), accepted[Other(e)])
  BY <1>2, <1>3, <1>4 DEF ParseStates
<1>6. x.mine = MailOf(e) /\ x.theirs = MailOf(Other(e)) /\ x.count = accepted[Other(e)]
  BY DEF ParseInput
<1> QED
  BY <1>5, <1>6 DEF ParsedSoFar, KeepAlivesBehind

LEMMA ParseKeeps ==
    ASSUME script \in Scripts, NEW e \in Ends, Direction(e), Direction(Other(e)),
           NEW packet \in ToSet(net[e]), NEW k \in 1 .. Len(packet.messages), NEW s,
           ParsedSoFar(s, k - 1, ParseInput(e, packet))
    PROVE  ParsedSoFar(ParseNext(s, k, ParseInput(e, packet)), k, ParseInput(e, packet))
<1> DEFINE x == ParseInput(e, packet)
           after == ParseNext(s, k, x)
           m == packet.messages[k]
           start == x.start
           Mine == MailOf(e)
           Theirs == MailOf(Other(e))
           count == accepted[Other(e)]
<1>1. /\ x.mine = Mine /\ x.theirs = Theirs /\ x.count = count
      /\ x.messages = packet.messages /\ x.delayed = (e \in script.delayed)
  BY DEF ParseInput
<1>2. /\ s \in ParseStates(Mine, Theirs, count)
      /\ s.tx.m_sequenceOut = start.tx.m_sequenceOut
      /\ s.tx.m_reliableMessages = start.tx.m_reliableMessages
      /\ KeepAlivesBehind(start.tx.m_pendingMessages, s.tx.m_pendingMessages)
      /\ ToSet(s.held) \subseteq ToSet(start.held) \cup ToSet(packet.messages)
      /\ ToSet(s.processed) \subseteq ToSet(start.processed) \cup IDs(ToSet(packet.messages))
      /\ x.delayed \/ s.held = start.held
  BY <1>1 DEF ParsedSoFar
<1>3. /\ after \in ParseStates(Mine, Theirs, count)
      /\ Parsed(s, m, x.delayed, after)
      /\ m \in ToSet(packet.messages) /\ m \in Theirs /\ m.id \in 0 .. count
  <2> HIDE DEF Mine, Theirs, count, m
  <2> QED
    BY <1>1, <1>2, ParseTurn DEF Mine, Theirs, count, m
<1>4. /\ s.held \in Seq(Theirs) /\ s.processed \in Seq(1 .. count) /\ s.tx \in Senders(Mine)
  BY <1>2 DEF ParseStates
<1>5. Mine # {} /\ \A origin \in Ends : KeepAlive(origin) \in Mine
                        /\ IsBlank(KeepAlive(origin)) /\ KeepAlive(origin).id = 0
  <2>1. accepted[e] \in Nat
    BY IDsAccepted
  <2>2. \A origin \in Ends : KeepAlive(origin) \in Mine
                        /\ IsBlank(KeepAlive(origin)) /\ KeepAlive(origin).id = 0
    BY <2>1, KeepAliveType DEF MailOf
  <2> QED
    BY <2>2 DEF Ends
<1> HIDE DEF x, after, Mine, Theirs, m, start, count
<1>6. after.held = s.held \/ (x.delayed /\ after.held = Append(s.held, m))
  BY <1>3 DEF Parsed
<1>7. after.processed = s.processed \/ after.processed = Append(s.processed, m.id)
  BY <1>3 DEF Parsed
<1>8. after.tx = s.tx \/ \E origin \in Ends : after.tx = EnqueueMessage(s.tx, KeepAlive(origin))
  BY <1>3 DEF Parsed
<1>9. ToSet(after.held) \subseteq ToSet(start.held) \cup ToSet(packet.messages)
  <2>1. ToSet(Append(s.held, m)) = ToSet(s.held) \cup {m}
    BY <1>4, ToSetAppend
  <2> QED
    BY <1>2, <1>3, <1>6, <2>1
<1>10. ToSet(after.processed) \subseteq ToSet(start.processed) \cup IDs(ToSet(packet.messages))
  <2>1. m.id \in IDs(ToSet(packet.messages))
    BY <1>3 DEF IDs
  <2>2. ToSet(Append(s.processed, m.id)) = ToSet(s.processed) \cup {m.id}
    BY <1>4, ToSetAppend
  <2> QED
    BY <1>2, <1>7, <2>1, <2>2
<1>11. /\ after.tx.m_sequenceOut = start.tx.m_sequenceOut
       /\ after.tx.m_reliableMessages = start.tx.m_reliableMessages
       /\ KeepAlivesBehind(start.tx.m_pendingMessages, after.tx.m_pendingMessages)
  <2>1. CASE after.tx = s.tx
    BY <1>2, <2>1
  <2>2. CASE \E origin \in Ends : after.tx = EnqueueMessage(s.tx, KeepAlive(origin))
    <3>1. PICK origin \in Ends : after.tx = EnqueueMessage(s.tx, KeepAlive(origin))
      BY <2>2
    <3>2. /\ after.tx.m_sequenceOut = s.tx.m_sequenceOut
          /\ after.tx.m_reliableMessages = s.tx.m_reliableMessages
          /\ KeepAlivesBehind(s.tx.m_pendingMessages, after.tx.m_pendingMessages)
      BY <1>4, <1>5, <3>1, EnqueueBehind
    <3> QED
      BY <1>2, <3>2, KeepAlivesBehindBoth
  <2> QED
    BY <1>8, <2>1, <2>2
<1>12. x.delayed \/ after.held = start.held
  BY <1>2, <1>6
<1> QED
  BY <1>1, <1>3, <1>9, <1>10, <1>11, <1>12 DEF ParsedSoFar, after, x, start

LEMMA ReceivePacketEffect ==
    ASSUME Shape, NEW e \in Ends, Direction(e), Direction(Other(e)),
           NEW packet \in ToSet(net[e]), ReceivePacket(e, packet)
    PROVE  \E after :
            /\ ParsedSoFar(after, Len(packet.messages), ParseInput(e, packet))
            /\ UNCHANGED <<script, accepted, numbered, zeroed>>
            /\ rx' = [rx EXCEPT ![e] = after.rx]
            /\ tx' = [tx EXCEPT ![e] = after.tx]
            /\ held' = [held EXCEPT ![e] = after.held]
            /\ processed' = [processed EXCEPT ![e] = after.processed]
            /\ silent' = [silent EXCEPT ![e] = FALSE]
<1> DEFINE x == ParseInput(e, packet)
           N == Len(packet.messages)
<1>1. N \in Nat
  BY OtherEnd, PacketType
<1>2. PICK r : /\ Parsing!IsLoop(r, N, x.start, x)
               /\ rx' = [rx EXCEPT ![e] = r[N].rx]
               /\ tx' = [tx EXCEPT ![e] = r[N].tx]
               /\ held' = [held EXCEPT ![e] = r[N].held]
               /\ processed' = [processed EXCEPT ![e] = r[N].processed]
               /\ silent' = [silent EXCEPT ![e] = FALSE]
               /\ UNCHANGED <<script, accepted, numbered, zeroed>>
  BY <1>1, ReceivePacketLoop
<1>3. ParsedSoFar(x.start, 0, x)
  BY ParseStart DEF Shape
<1>4. \A k \in 1 .. N : \A s : ParsedSoFar(s, k - 1, x) => ParsedSoFar(ParseNext(s, k, x), k, x)
  BY ParseKeeps DEF Shape
<1>5. \A k \in 0 .. N : ParsedSoFar(r[k], k, x)
  <2> HIDE DEF x, N
  <2> QED
    BY <1>1, <1>2, <1>3, <1>4, Parsing!LoopInvariant
<1>6. ParsedSoFar(r[N], N, x)
  BY <1>1, <1>5
<1> QED
  BY <1>2, <1>6

\* Receiving keeps both directions.
LEMMA ReceiveDirections ==
    ASSUME Shape, NEW e \in Ends, Direction(e), Direction(Other(e)),
           NEW packet \in ToSet(net[e]), ReceivePacket(e, packet),
           net'[Other(e)] = net[Other(e)],
           net'[e] \in Seq(Datagrams(MailOf(Other(e)))), ToSet(net'[e]) \subseteq ToSet(net[e])
    PROVE  /\ Direction(e)' /\ Direction(Other(e))'
           /\ (DOMAIN net' = Ends => Shape')
<1> DEFINE o == Other(e)
           x == ParseInput(e, packet)
           start == x.start
<1>1. o \in Ends /\ Other(o) = e /\ o # e
  BY OtherEnd
<1>2. PICK after :
            /\ ParsedSoFar(after, Len(packet.messages), x)
            /\ UNCHANGED <<script, accepted, numbered, zeroed>>
            /\ rx' = [rx EXCEPT ![e] = after.rx]
            /\ tx' = [tx EXCEPT ![e] = after.tx]
            /\ held' = [held EXCEPT ![e] = after.held]
            /\ processed' = [processed EXCEPT ![e] = after.processed]
            /\ silent' = [silent EXCEPT ![e] = FALSE]
  BY ReceivePacketEffect
<1>3. /\ script' = script /\ accepted' = accepted /\ numbered' = numbered /\ zeroed' = zeroed
      /\ rx'[e] = after.rx /\ tx'[e] = after.tx /\ held'[e] = after.held
      /\ processed'[e] = after.processed
      /\ rx'[o] = rx[o] /\ tx'[o] = tx[o] /\ held'[o] = held[o] /\ processed'[o] = processed[o]
  <2>1. DOMAIN rx = Ends /\ DOMAIN tx = Ends /\ DOMAIN held = Ends /\ DOMAIN processed = Ends
    BY DEF Shape
  <2> QED
    BY <1>1, <1>2, <2>1
<1>4. /\ after \in ParseStates(MailOf(e), MailOf(o), accepted[o])
      /\ after.tx.m_sequenceOut = start.tx.m_sequenceOut
      /\ after.tx.m_reliableMessages = start.tx.m_reliableMessages
      /\ KeepAlivesBehind(start.tx.m_pendingMessages, after.tx.m_pendingMessages)
      /\ ToSet(after.held) \subseteq ToSet(held[e]) \cup ToSet(packet.messages)
      /\ ToSet(after.processed) \subseteq ToSet(processed[e]) \cup IDs(ToSet(packet.messages))
      /\ e \in script.delayed \/ after.held = held[e]
  BY <1>2 DEF ParsedSoFar, ParseInput
<1>5. /\ start.tx.m_sequenceOut = tx[e].m_sequenceOut
      /\ start.tx.m_pendingMessages = Pending(e)
      /\ ToSet(start.tx.m_reliableMessages) \subseteq Waiting(e)
  BY AckedType DEF ParseInput
<1>6. /\ after.rx \in Receivers /\ after.tx \in Senders(MailOf(e))
      /\ after.held \in Seq(MailOf(o)) /\ after.processed \in Seq(1 .. accepted[o])
  BY <1>4 DEF ParseStates
<1>7. ToSet(packet.messages) \subseteq Carried(o)
  BY <1>1, PacketType
<1> HIDE DEF x, start, o
<1>8. Direction(o)'
  <2>1. ToSet(held'[e]) \subseteq ToSet(held[e]) \cup Carried(o)
    BY <1>3, <1>4, <1>7
  <2>2. Has(o)' \subseteq Has(o) \cup IDs(Carried(o))
    <3>1. ToSet(processed'[e]) \subseteq ToSet(processed[e]) \cup IDs(Carried(o))
      BY <1>3, <1>4, <1>7 DEF IDs
    <3>2. IDs(ToSet(held'[e])) \subseteq IDs(ToSet(held[e])) \cup IDs(Carried(o))
      BY <2>1 DEF IDs
    <3>3. Has(o)' = ToSet(processed'[e]) \cup IDs(ToSet(held'[e]))
      BY <1>1 DEF Has
    <3> QED
      BY <1>1, <3>1, <3>2, <3>3 DEF Has
  <2>3. e \notin script.delayed => held'[e] = <<>>
    BY <1>1, <1>3, <1>4 DEF o, Direction, ReceiveSide
  <2> QED
    BY <1>1, <1>3, <1>6, <2>1, <2>2, <2>3, Incoming DEF o
<1>9. Direction(e)'
  <2>1. /\ accepted[e] \in Nat /\ accepted[e] \in accepted[e] .. Len(script[e])
        /\ MailOf(e)' = MailOf(e)
    <3>1. accepted[e] \in 0 .. Len(script[e]) /\ Len(script[e]) \in Nat
      BY ScriptType DEF Direction, SendSide, Shape
    <3> QED
      BY <1>3, <3>1 DEF MailOf
  <2>2. Waiting(e)' \subseteq Waiting(e) /\ Pending(e)' = after.tx.m_pendingMessages
    BY <1>3, <1>4, <1>5 DEF Waiting, Pending
  <2>3. KeepAlivesBehind(Pending(e), Pending(e)')
    BY <1>4, <1>5, <2>2
  <2>4. /\ DOMAIN Pending(e) \subseteq DOMAIN Pending(e)'
        /\ \A i \in DOMAIN Pending(e) : Pending(e)'[i] = Pending(e)[i]
        /\ \A i \in DOMAIN Pending(e)' \ DOMAIN Pending(e) :
             IsBlank(Pending(e)'[i]) /\ Pending(e)'[i].id = 0
    BY <2>3 DEF KeepAlivesBehind
  <2> QED
    BY <1>1, <1>3, <1>4, <1>5, <1>6, <2>1, <2>2, <2>4, Outgoing DEF o, Shape
<1>10. ASSUME DOMAIN net' = Ends PROVE Shape'
  BY <1>2, <1>10 DEF Shape
<1> QED
  BY <1>8, <1>9, <1>10 DEF o

-----------------------------------------------------------------------------
LEMMA InitDirections == Init => IInv
<1> SUFFICES ASSUME Init PROVE IInv
  OBVIOUS
<1>1. Shape
  BY DEF Init, Shape, Ends
<1>2. ASSUME NEW e \in Ends PROVE Direction(e)
  <2>1. Other(e) \in Ends
    BY OtherEnd
  <2>2. /\ tx[e] = Sender(Wrap(Exchanged + 1)) /\ rx[Other(e)] = ReceiverOf(Exchanged)
        /\ net[Other(e)] = <<>> /\ accepted[e] = 0 /\ held[Other(e)] = <<>>
        /\ processed[Other(e)] = <<>> /\ numbered[e] = Exchanged /\ zeroed[e] = {}
    BY <2>1 DEF Init
  <2>3. Exchanged \in Nat /\ Wrap(Exchanged + 1) \in Sequences16
    <3>1. Exchanged \in Nat
      BY LinkAssumption
    <3> QED
      BY <3>1, WrapType
  <2>4. /\ tx[e].m_sequenceOut = Wrap(Exchanged + 1)
        /\ tx[e].m_pendingMessages = <<>> /\ tx[e].m_reliableMessages = <<>>
    BY <2>2 DEF Sender
  <2>5. \A M : <<>> \in Seq(M)
    BY EmptySeq
  <2>6. DOMAIN <<>> = {} /\ ToSet(<<>>) = {}
    <3>1. <<>> \in Seq(Nat) /\ Len(<<>>) = 0
      BY EmptySeq
    <3>2. DOMAIN <<>> = 1 .. 0
      BY <3>1, LenProperties
    <3> QED
      BY <3>2 DEF ToSet
  <2>7. Used(e) = {} /\ Has(e) = {}
    BY <2>2, <2>4, <2>6 DEF Used, Has, Waiting, Carried, IDs
  <2>8. tx[e] \in Senders(MailOf(e))
    BY <2>2, <2>3, <2>5 DEF Sender, Senders
  <2>9. SendSide(e)
    <3>1. Len(script[e]) \in Nat
      BY <1>1, ScriptType DEF Shape
    <3>2. accepted[e] \in 0 .. Len(script[e])
      BY <2>2, <3>1
    <3>3. Waiting(e) = {} /\ DOMAIN Pending(e) = {}
      BY <2>4, <2>6 DEF Waiting, Pending
    <3> QED
      BY <2>2, <2>3, <2>4, <2>8, <3>2, <3>3 DEF SendSide
  <2>10. ReceiveSide(e)
    BY <2>2, <2>3, <2>5, ReceiverOfType DEF ReceiveSide
  <2>11. Numbering(e)
    BY <2>2, <2>6, <2>7 DEF Numbering, Consistent
  <2>12. InLine(e)
    BY <2>4, <2>6 DEF InLine, Ahead, Pending
  <2> QED
    BY <2>9, <2>10, <2>11, <2>12 DEF Direction
<1> QED
  BY <1>1, <1>2 DEF IInv

\* A message is queued, and nothing else of the directions changes.
LEMMA EnqueueDirections ==
    ASSUME IInv, NEW e \in Ends, NEW m, NEW n \in accepted[e] .. Len(script[e]),
           m \in Mail(script[e], e, n), IsBlank(m), m.id # 0 => m.id > accepted[e],
           tx' = [tx EXCEPT ![e] = EnqueueMessage(@, m)],
           accepted' = [accepted EXCEPT ![e] = n] \/ (n = accepted[e] /\ accepted' = accepted),
           UNCHANGED <<script, rx, net, held, processed, numbered, zeroed>>,
           silent' \in [Ends -> BOOLEAN]
    PROVE  IInv'
<1> DEFINE o == Other(e)
<1>1. /\ o \in Ends /\ o # e /\ Other(o) = e /\ Ends = {e, o}
      /\ Shape /\ Direction(e) /\ Direction(o)
  BY OtherEnd DEF IInv
<1>2. /\ tx'[e] = EnqueueMessage(tx[e], m) /\ tx'[o] = tx[o]
      /\ accepted'[e] = n /\ accepted'[o] = accepted[o]
  BY <1>1 DEF Shape
<1>3. Shape'
  BY <1>1 DEF Shape
<1> HIDE DEF o
<1>4. Direction(o)'
  BY <1>1, <1>2, DirectionUnchanged
<1>5. Direction(e)'
  <2>1. /\ accepted[e] \in Nat /\ n \in Nat /\ accepted[e] <= n
        /\ tx[e] \in Senders(Mail(script[e], e, accepted[e]))
    <3>1. accepted[e] \in Nat /\ Len(script[e]) \in Nat
      BY <1>1, IDsAccepted, ScriptType DEF Shape
    <3> QED
      BY <1>1, <3>1 DEF Direction, SendSide, MailOf
  <2>2. tx[e] \in Senders(Mail(script[e], e, n))
    BY <2>1, MailGrows, SendersMonotone
  <2>3. tx'[e] \in Senders(Mail(script[e], e, n))
    BY <1>2, <2>2, EnqueueMessageType
  <2>4. MailOf(e)' = Mail(script[e], e, n)
    BY <1>2 DEF MailOf
  <2>5. /\ tx'[e].m_sequenceOut = tx[e].m_sequenceOut
        /\ tx'[e].m_reliableMessages = tx[e].m_reliableMessages
        /\ tx'[e].m_pendingMessages = Append(Pending(e), m)
    BY <1>2, <2>1 DEF EnqueueMessage, Senders, Pending
  <2>6. Waiting(e)' = Waiting(e) /\ Pending(e)' = Append(Pending(e), m)
    BY <2>5 DEF Waiting, Pending
  <2>7. Pending(e) \in Seq(Mail(script[e], e, n)) /\ Len(Pending(e)) \in Nat
        /\ DOMAIN Pending(e) = 1 .. Len(Pending(e))
    BY <2>2, LenProperties DEF Senders, Pending
  <2> DEFINE old == Pending(e)
             new == Append(Pending(e), m)
  <2>8. /\ DOMAIN new = 1 .. Len(old) + 1
        /\ \A i \in 1 .. Len(old) : new[i] = old[i]
        /\ new[Len(old) + 1] = m
    <3> HIDE DEF old
    <3>1. /\ new \in Seq(Mail(script[e], e, n)) /\ Len(new) = Len(old) + 1
          /\ \A i \in 1 .. Len(old) : new[i] = old[i]
          /\ new[Len(old) + 1] = m
      BY <2>7, AppendProperties DEF old
    <3> QED
      BY <3>1, LenProperties
  <2> HIDE DEF old, new
  <2>9. /\ DOMAIN old \subseteq DOMAIN new
        /\ \A i \in DOMAIN old : new[i] = old[i]
        /\ \A i \in DOMAIN new \ DOMAIN old :
                IsBlank(new[i]) /\ (new[i].id # 0 => new[i].id > accepted[e] /\ i = Len(old) + 1)
    <3>1. \A i \in 1 .. Len(old) + 1 : i \notin 1 .. Len(old) => i = Len(old) + 1
      BY <2>7 DEF old
    <3> QED
      BY <2>7, <2>8, <3>1 DEF old
  <2> QED
    BY <1>1, <1>2, <2>3, <2>4, <2>5, <2>6, <2>9, Outgoing DEF Shape, old, new
<1> QED
  BY <1>1, <1>3, <1>4, <1>5 DEF IInv

LEMMA SendToDirections ==
    ASSUME IInv, NEW e \in Ends, SendTo(e)
    PROVE  IInv'
<1>1. /\ accepted[e] \in 0 .. Len(script[e]) /\ Len(script[e]) \in Nat
      /\ script \in Scripts /\ silent \in [Ends -> BOOLEAN]
  BY ScriptType DEF IInv, Shape, Direction, SendSide
<1>2. /\ accepted[e] < Len(script[e])
      /\ accepted' = [accepted EXCEPT ![e] = accepted[e] + 1]
      /\ tx' = [tx EXCEPT ![e] = EnqueueMessage(@, GameMessage(e, accepted[e] + 1))]
      /\ UNCHANGED <<script, rx, silent, net, held, processed, numbered, zeroed>>
  BY DEF SendTo
<1>3. /\ accepted[e] + 1 \in accepted[e] .. Len(script[e])
      /\ accepted[e] + 1 \in 0 .. Len(script[e])
      /\ accepted[e] + 1 \in 1 .. accepted[e] + 1 /\ accepted[e] + 1 > accepted[e]
  BY <1>1, <1>2
<1>4. /\ GameMessage(e, accepted[e] + 1) \in Mail(script[e], e, accepted[e] + 1)
      /\ IsBlank(GameMessage(e, accepted[e] + 1))
      /\ GameMessage(e, accepted[e] + 1).id = accepted[e] + 1
  BY <1>1, <1>3, GameMessageType
<1> QED
  BY <1>1, <1>2, <1>3, <1>4, EnqueueDirections

LEMMA SendKeepAliveDirections ==
    ASSUME IInv, NEW e \in Ends, SendKeepAlive(e)
    PROVE  IInv'
<1>1. /\ accepted[e] \in 0 .. Len(script[e]) /\ Len(script[e]) \in Nat
      /\ silent \in [Ends -> BOOLEAN] /\ DOMAIN accepted = Ends
  BY ScriptType DEF IInv, Shape, Direction, SendSide
<1>2. /\ tx' = [tx EXCEPT ![e] = EnqueueMessage(@, KeepAlive(e))]
      /\ silent' = [silent EXCEPT ![e] = FALSE]
      /\ UNCHANGED <<script, rx, net, accepted, held, processed, numbered, zeroed>>
  BY DEF SendKeepAlive
<1>3. accepted[e] \in Nat /\ accepted[e] \in accepted[e] .. Len(script[e])
  BY <1>1
<1>4. /\ KeepAlive(e) \in Mail(script[e], e, accepted[e])
      /\ IsBlank(KeepAlive(e)) /\ KeepAlive(e).id = 0
  BY <1>3, KeepAliveType
<1>5. accepted' = accepted /\ silent' \in [Ends -> BOOLEAN]
  BY <1>1, <1>2
<1> QED
  BY <1>2, <1>3, <1>4, <1>5, EnqueueDirections

LEMMA SendDirections ==
    ASSUME Counting, IInv, NEW e \in Ends, NEW arrives, SendPacket(e, arrives)
    PROVE  IInv'
<1> DEFINE o == Other(e)
<1>1. /\ o \in Ends /\ o # e /\ Other(o) = e /\ Ends = {e, o}
      /\ Shape /\ Direction(e) /\ Direction(o)
  BY OtherEnd DEF IInv
<1>2. rx[e] \in Receivers
  BY <1>1 DEF Direction, ReceiveSide
<1>3. /\ UNCHANGED <<script, rx, silent, accepted, held, processed>>
      /\ DOMAIN tx' = Ends /\ DOMAIN numbered' = Ends /\ DOMAIN zeroed' = Ends
      /\ DOMAIN net' = Ends
      /\ tx'[o] = tx[o] /\ numbered'[o] = numbered[o] /\ zeroed'[o] = zeroed[o]
      /\ net'[e] = net[e]
  BY <1>1, <1>2, SendPacketEffect
<1>4. Shape'
  BY <1>1, <1>3 DEF Shape
<1>5. Direction(e)'
  BY <1>1, <1>2, SendDirection
<1> HIDE DEF o
<1>6. Direction(o)'
  BY <1>1, <1>3, DirectionUnchanged
<1> QED
  BY <1>1, <1>4, <1>5, <1>6 DEF IInv

LEMMA ReceiveKeepsIInv ==
    ASSUME IInv, NEW e \in Ends, Receive(e) \/ ReceiveDuplicate(e)
    PROVE  IInv'
<1> DEFINE o == Other(e)
<1>1. /\ o \in Ends /\ o # e /\ Other(o) = e /\ Ends = {e, o}
      /\ Shape /\ Direction(e) /\ Direction(o) /\ DOMAIN net = Ends
  BY OtherEnd DEF IInv, Shape
<1>2. PICK i \in Arriving(e) :
        /\ ReceivePacket(e, net[e][i])
        /\ net' = [net EXCEPT ![e] = RemoveAt(@, i)] \/ net' = net
  <2>1. CASE Receive(e)
    BY <2>1 DEF Receive
  <2>2. CASE ReceiveDuplicate(e)
    BY <2>2 DEF ReceiveDuplicate
  <2> QED
    BY <2>1, <2>2
<1>3. net[e] \in Seq(Datagrams(MailOf(o))) /\ i \in DOMAIN net[e] /\ net[e][i] \in ToSet(net[e])
  BY <1>1 DEF Direction, ReceiveSide, Arriving, ToSet
<1>4. /\ RemoveAt(net[e], i) \in Seq(Datagrams(MailOf(o)))
      /\ ToSet(RemoveAt(net[e], i)) \subseteq ToSet(net[e])
  <2>1. net[e] \in Seq(ToSet(net[e]))
    BY <1>3, ToSetType
  <2>2. RemoveAt(net[e], i) \in Seq(ToSet(net[e]))
    BY <1>3, <2>1, RemoveAtType
  <2> QED
    BY <1>3, <2>2, RemoveAtType, ToSetType
<1>5. /\ net'[o] = net[o] /\ DOMAIN net' = Ends
      /\ net'[e] \in Seq(Datagrams(MailOf(o))) /\ ToSet(net'[e]) \subseteq ToSet(net[e])
  BY <1>1, <1>2, <1>3, <1>4
<1>6. Direction(e)' /\ Direction(o)' /\ Shape'
  BY <1>1, <1>2, <1>3, <1>5, ReceiveDirections
<1> QED
  BY <1>1, <1>6 DEF IInv

\* What processing a held message does.
LEMMA ProcessHeldEffect ==
    ASSUME IInv, NEW e \in Ends, ProcessHeld(e)
    PROVE  LET m == Head(held[e])
           IN  /\ held[e] # <<>> /\ m \in ToSet(held[e]) /\ m \in MailOf(Other(e))
               /\ UNCHANGED <<script, rx, silent, net, accepted, numbered, zeroed>>
               /\ DOMAIN held' = Ends /\ DOMAIN tx' = Ends /\ DOMAIN processed' = Ends
               /\ held'[e] = Tail(held[e]) /\ held'[Other(e)] = held[Other(e)]
               /\ tx'[Other(e)] = tx[Other(e)] /\ processed'[Other(e)] = processed[Other(e)]
               /\ \/ /\ m.id # 0 /\ processed'[e] = Append(processed[e], m.id) /\ tx'[e] = tx[e]
                  \/ /\ m.id = 0 /\ processed'[e] = processed[e]
                     /\ \/ tx'[e] = tx[e]
                        \/ \E origin \in Ends : tx'[e] = EnqueueMessage(tx[e], KeepAlive(origin))
<1> DEFINE m == Head(held[e])
           after == ProcessMessage(e, [tx |-> tx[e], processed |-> processed[e]], m)
<1>1. /\ Other(e) \in Ends /\ Other(e) # e /\ Other(Other(e)) = e
      /\ DOMAIN held = Ends /\ DOMAIN tx = Ends /\ DOMAIN processed = Ends
      /\ held[e] \in Seq(MailOf(Other(e)))
  BY OtherEnd DEF IInv, Shape, Direction, ReceiveSide
<1>2. /\ held[e] # <<>>
      /\ held' = [held EXCEPT ![e] = Tail(@)]
      /\ tx' = [tx EXCEPT ![e] = after.tx]
      /\ processed' = [processed EXCEPT ![e] = after.processed]
      /\ UNCHANGED <<script, rx, silent, net, accepted, numbered, zeroed>>
  BY DEF ProcessHeld
<1>3. m \in ToSet(held[e]) /\ m \in MailOf(Other(e))
  <2>1. Len(held[e]) \in Nat /\ Len(held[e]) > 0 /\ Head(held[e]) = held[e][1]
    BY <1>1, <1>2, EmptySeq, LenProperties
  <2>2. 1 \in DOMAIN held[e]
    BY <1>1, <2>1, LenProperties
  <2> QED
    BY <1>1, <2>1, <2>2, ToSetType, ElementOfSeq DEF ToSet
<1>4. m.origin \in Ends
  BY <1>3 DEF MailOf, Mail
<1> HIDE DEF m
<1>5. \/ m.id # 0 /\ after.processed = Append(processed[e], m.id) /\ after.tx = tx[e]
      \/ /\ m.id = 0 /\ after.processed = processed[e]
         /\ \/ after.tx = tx[e]
            \/ \E origin \in Ends : after.tx = EnqueueMessage(tx[e], KeepAlive(origin))
  BY <1>4 DEF ProcessMessage
<1> HIDE DEF after
<1> QED
  BY <1>1, <1>2, <1>3, <1>5 DEF m

LEMMA ProcessHeldDirections ==
    ASSUME IInv, NEW e \in Ends, ProcessHeld(e)
    PROVE  IInv'
<1> DEFINE o == Other(e)
           m == Head(held[e])
<1>1. /\ o \in Ends /\ o # e /\ Other(o) = e /\ Ends = {e, o}
      /\ Shape /\ Direction(e) /\ Direction(o)
  BY OtherEnd DEF IInv
<1>2. /\ held[e] # <<>> /\ m \in ToSet(held[e]) /\ m \in MailOf(o)
      /\ UNCHANGED <<script, rx, silent, net, accepted, numbered, zeroed>>
      /\ DOMAIN held' = Ends /\ DOMAIN tx' = Ends /\ DOMAIN processed' = Ends
      /\ held'[e] = Tail(held[e]) /\ held'[o] = held[o]
      /\ tx'[o] = tx[o] /\ processed'[o] = processed[o]
      /\ \/ m.id # 0 /\ processed'[e] = Append(processed[e], m.id) /\ tx'[e] = tx[e]
         \/ /\ m.id = 0 /\ processed'[e] = processed[e]
            /\ \/ tx'[e] = tx[e]
               \/ \E origin \in Ends : tx'[e] = EnqueueMessage(tx[e], KeepAlive(origin))
  BY ProcessHeldEffect
<1>3. Shape'
  BY <1>1, <1>2 DEF Shape
<1>4. /\ held[e] \in Seq(MailOf(o)) /\ processed[e] \in Seq(1 .. accepted[o])
      /\ rx[e] \in Receivers /\ net[e] \in Seq(Datagrams(MailOf(o)))
      /\ (e \notin script.delayed => held[e] = <<>>)
      /\ tx[e] \in Senders(MailOf(e)) /\ accepted[e] \in 0 .. Len(script[e])
  BY <1>1 DEF Direction, ReceiveSide, SendSide
<1>5. m.id \in 0 .. accepted[o] /\ m.id \in IDs(ToSet(held[e]))
  BY <1>1, <1>2, IDsAccepted DEF IDs
<1>6. Tail(held[e]) \in Seq(MailOf(o)) /\ ToSet(Tail(held[e])) \subseteq ToSet(held[e])
  <2>1. held[e] \in Seq(ToSet(held[e]))
    BY <1>4, ToSetType
  <2>2. Tail(held[e]) \in Seq(ToSet(held[e])) /\ Tail(held[e]) \in Seq(MailOf(o))
    BY <1>2, <1>4, <2>1, HeadTailProperties
  <2> QED
    BY <2>2, ToSetType
<1> HIDE DEF o, m
<1>7. Direction(o)'
  <2>1. processed'[e] \in Seq(1 .. accepted[o])
    <3>1. m.id # 0 => Append(processed[e], m.id) \in Seq(1 .. accepted[o])
      <4>1. m.id # 0 => m.id \in 1 .. accepted[o]
        BY <1>5
      <4> QED
        BY <1>4, <4>1, AppendProperties
    <3> QED
      BY <1>2, <1>4, <3>1
  <2>2. ToSet(processed'[e]) \subseteq ToSet(processed[e]) \cup IDs(ToSet(held[e]))
    <3>1. ToSet(Append(processed[e], m.id)) = ToSet(processed[e]) \cup {m.id}
      BY <1>4, ToSetAppend
    <3> QED
      BY <1>2, <1>5, <3>1
  <2>3. IDs(ToSet(held'[e])) \subseteq IDs(ToSet(held[e]))
    BY <1>2, <1>6 DEF IDs
  <2>4. Has(o)' \subseteq Has(o)
    BY <1>1, <2>2, <2>3 DEF Has
  <2> QED
    BY <1>1, <1>2, <1>4, <1>6, <2>1, <2>4, Incoming
<1>8. Direction(e)'
  <2>1. accepted[e] \in accepted[e] .. Len(script[e]) /\ accepted[e] \in Nat
    BY <1>1, <1>4, ScriptType DEF Shape
  <2>2. /\ tx'[e] \in Senders(MailOf(e))
        /\ tx'[e].m_sequenceOut = tx[e].m_sequenceOut
        /\ tx'[e].m_reliableMessages = tx[e].m_reliableMessages
        /\ KeepAlivesBehind(tx[e].m_pendingMessages, tx'[e].m_pendingMessages)
    <3>1. CASE tx'[e] = tx[e]
      BY <1>4, <3>1 DEF KeepAlivesBehind
    <3>2. CASE \E origin \in Ends : tx'[e] = EnqueueMessage(tx[e], KeepAlive(origin))
      <4>1. PICK origin \in Ends : tx'[e] = EnqueueMessage(tx[e], KeepAlive(origin))
        BY <3>2
      <4>2. /\ KeepAlive(origin) \in MailOf(e) /\ IsBlank(KeepAlive(origin))
            /\ KeepAlive(origin).id = 0
        BY <2>1, KeepAliveType DEF MailOf
      <4> QED
        BY <1>4, <4>1, <4>2, EnqueueBehind
    <3> QED
      BY <1>2, <3>1, <3>2
  <2>3. MailOf(e)' = MailOf(e) /\ Waiting(e)' = Waiting(e)
    BY <1>2, <2>2 DEF MailOf, Waiting
  <2>4. /\ DOMAIN Pending(e) \subseteq DOMAIN Pending(e)'
        /\ \A i \in DOMAIN Pending(e) : Pending(e)'[i] = Pending(e)[i]
        /\ \A i \in DOMAIN Pending(e)' \ DOMAIN Pending(e) :
             IsBlank(Pending(e)'[i]) /\ Pending(e)'[i].id = 0
    BY <2>2 DEF KeepAlivesBehind, Pending
  <2> QED
    BY <1>1, <1>2, <2>1, <2>2, <2>3, <2>4, Outgoing DEF o, Shape
<1> QED
  BY <1>1, <1>3, <1>7, <1>8 DEF IInv

LEMMA SilenceDirections ==
    ASSUME IInv, NEW e \in Ends, CountedSilence(e)
    PROVE  IInv'
<1>1. /\ silent' = [silent EXCEPT ![e] = TRUE]
      /\ UNCHANGED <<script, tx, rx, net, accepted, held, processed, numbered, zeroed>>
  BY DEF CountedSilence, Silence
<1>2. Shape'
  BY <1>1 DEF IInv, Shape
<1>3. ASSUME NEW f \in Ends PROVE Direction(f)'
  BY <1>1, DirectionUnchanged DEF IInv
<1> QED
  BY <1>2, <1>3 DEF IInv

\* Which actions a step is one of.
LEMMA NextKeepsIInv == Counting /\ IInv /\ [Next]_vars => IInv'
<1> SUFFICES ASSUME Counting, IInv, [Next]_vars PROVE IInv'
  OBVIOUS
<1>1. CASE UNCHANGED vars
  <2>1. ASSUME NEW f \in Ends PROVE Direction(f)'
    BY <1>1, DirectionUnchanged DEF IInv, vars
  <2> QED
    BY <1>1, <2>1 DEF IInv, Shape, vars
<1>2. ASSUME NEW e \in Ends, Work(e) \/ CountedSilence(e) PROVE IInv'
  <2>1. CASE SendTo(e)
    BY <2>1, SendToDirections
  <2>2. CASE SendKeepAlive(e)
    BY <2>2, SendKeepAliveDirections
  <2>3. CASE Send(e)
    BY <2>3, SendDirections DEF Send
  <2>4. CASE SendLost(e)
    BY <2>4, SendDirections DEF SendLost
  <2>5. CASE Receive(e)
    BY <2>5, ReceiveKeepsIInv
  <2>6. CASE ReceiveDuplicate(e)
    BY <2>6, ReceiveKeepsIInv
  <2>7. CASE ProcessHeld(e)
    BY <2>7, ProcessHeldDirections
  <2>8. CASE CountedSilence(e)
    BY <2>8, SilenceDirections
  <2> QED
    BY <1>2, <2>1, <2>2, <2>3, <2>4, <2>5, <2>6, <2>7, <2>8 DEF Work
<1> QED
  BY <1>1, <1>2 DEF Next

\* The numbers of each direction, what carries them and in which order, over
\* any network.
THEOREM NumbersStayConsistent == Counting => (Spec => []IInv)
<1> SUFFICES ASSUME Counting PROVE Spec => []IInv
  OBVIOUS
<1>1. Init => IInv
  BY InitDirections
<1>2. IInv /\ [Next]_vars => IInv'
  BY NextKeepsIInv
<1> QED
  BY <1>1, <1>2, PTL DEF Spec

\* Queues hold messages of their owner, packets and delayed messages those of
\* the other end, with numbers and sequences in range.
THEOREM LinkTypeOK == Counting => (Spec => []TypeOK)
<1>1. IInv => TypeOK
  <2> SUFFICES ASSUME IInv PROVE TypeOK
    OBVIOUS
  <2>1. silent \in [Ends -> BOOLEAN] /\ script \in Scripts
    BY DEF IInv, Shape
  <2>2. ASSUME NEW e \in Ends, NEW m \in MailOf(e)
        PROVE  /\ [m EXCEPT !.m_sequence = 0, !.number = 0] \in Messages(e)
               /\ m.m_sequence \in Sequences16
    <3>1. accepted[e] \in 0 .. Len(script[e]) /\ Len(script[e]) \in Nat
      BY <2>1, ScriptType DEF IInv, Direction, SendSide
    <3>2. /\ m \in [origin : Ends, id : 0 .. accepted[e], flags : SUBSET Flags, size : Nat,
                    m_sequence : Sequences16, number : Nat]
          /\ IF m.id = 0 THEN m.flags = {} /\ m.size = 2
             ELSE m.origin = e /\ m.flags = script[e][m.id].flags
                    /\ m.size = script[e][m.id].size
      BY DEF MailOf, Mail
    <3> DEFINE blank == [m EXCEPT !.m_sequence = 0, !.number = 0]
    <3>3. blank = [origin |-> m.origin, id |-> m.id, flags |-> m.flags, size |-> m.size,
                   m_sequence |-> 0, number |-> 0]
      <4>1. m = [origin |-> m.origin, id |-> m.id, flags |-> m.flags, size |-> m.size,
                 m_sequence |-> m.m_sequence, number |-> m.number]
        BY <3>2
      <4> DEFINE once == [m EXCEPT !.m_sequence = 0]
      <4>2. once = [origin |-> m.origin, id |-> m.id, flags |-> m.flags, size |-> m.size,
                    m_sequence |-> 0, number |-> m.number]
        BY <4>1
      <4>3. blank = [once EXCEPT !.number = 0]
        BY <3>2
      <4> HIDE DEF once, blank
      <4> QED
        BY <4>2, <4>3
    <3>4. CASE m.id = 0
      <4>1. blank = KeepAlive(m.origin) /\ m.origin \in Ends
        BY <3>2, <3>3, <3>4 DEF KeepAlive
      <4> QED
        BY <3>2, <4>1 DEF Messages
    <3>5. CASE m.id # 0
      <4>1. blank = GameMessage(e, m.id)
        BY <3>2, <3>3, <3>5 DEF GameMessage
      <4>2. m.id \in 1 .. Len(script[e])
        BY <3>1, <3>2, <3>5
      <4> QED
        BY <3>2, <4>1, <4>2 DEF Messages
    <3> QED
      BY <3>4, <3>5
  <2>3. ASSUME NEW e \in Ends, NEW m \in Used(e) \cup ToSet(held[Other(e)])
        PROVE  IsNumbered(e, m)
    <3>1. m \in MailOf(e)
      <4>1. held[Other(e)] \in Seq(MailOf(e))
        BY DEF IInv, Direction, ReceiveSide
      <4> QED
        BY <4>1, IDsAccepted, ToSetType DEF IInv
    <3>2. m.number \in Exchanged + 1 .. numbered[e]
      BY DEF IInv, Direction, Numbering, Consistent, Spelled
    <3> QED
      BY <2>2, <3>1, <3>2 DEF IsNumbered
  <2>4. ASSUME NEW e \in Ends
        PROVE  /\ tx[e].m_sequenceOut \in Sequences16
               /\ ToSet(tx[e].m_pendingMessages) \subseteq Messages(e)
               /\ \A m \in ToSet(tx[e].m_reliableMessages) : IsNumbered(e, m) /\ IsReliable(m)
    <3>1. tx[e].m_sequenceOut \in Sequences16
      BY DEF IInv, Direction, SendSide, Senders
    <3>2. ASSUME NEW m \in ToSet(Pending(e)) PROVE m \in Messages(e)
      <4>1. m \in MailOf(e)
        BY IDsAccepted DEF IInv
      <4>2. IsBlank(m)
        BY DEF IInv, Direction, SendSide, ToSet
      <4>3. [m EXCEPT !.m_sequence = 0, !.number = 0] = m
        BY <4>1, <4>2 DEF IsBlank, MailOf, Mail
      <4> QED
        BY <2>2, <4>1, <4>3
    <3>3. \A m \in Waiting(e) : IsNumbered(e, m) /\ IsReliable(m)
      BY <2>3 DEF Used, IInv, Direction, SendSide
    <3> QED
      BY <3>1, <3>2, <3>3 DEF Pending, Waiting
  <2>5. ASSUME NEW e \in Ends
        PROVE  /\ rx[e].m_sequenceIn \in Sequences16
               /\ \A packet \in ToSet(net[e]) :
                    /\ packet.m_ackseq \in Sequences16
                    /\ packet.m_ackbits \subseteq 0 .. AckBits - 1
                    /\ \A m \in ToSet(packet.messages) : IsNumbered(Other(e), m)
               /\ \A m \in ToSet(held[e]) : IsNumbered(Other(e), m)
               /\ ToSet(processed[e]) \subseteq 1 .. accepted[Other(e)]
    <3>1. Other(e) \in Ends /\ Other(Other(e)) = e
      BY OtherEnd
    <3>2. /\ rx[e] \in Receivers /\ processed[e] \in Seq(1 .. accepted[Other(e)])
      BY <3>1 DEF IInv, Direction, ReceiveSide
    <3>3. rx[e].m_sequenceIn \in Sequences16 /\ ToSet(processed[e]) \subseteq 1 .. accepted[Other(e)]
      BY <3>2, ToSetType DEF Receivers
    <3>4. \A m \in ToSet(held[e]) : IsNumbered(Other(e), m)
      BY <2>3, <3>1
    <3>5. ASSUME NEW packet \in ToSet(net[e])
          PROVE  /\ packet.m_ackseq \in Sequences16
                 /\ packet.m_ackbits \subseteq 0 .. AckBits - 1
                 /\ \A m \in ToSet(packet.messages) : IsNumbered(Other(e), m)
      <4>1. packet \in Datagrams(MailOf(Other(e))) /\ ToSet(packet.messages) \subseteq Carried(Other(e))
        BY <3>1, PacketType DEF IInv
      <4> QED
        BY <2>3, <3>1, <4>1 DEF Datagrams, Used
    <3> QED
      BY <3>3, <3>4, <3>5
  <2> QED
    BY <2>1, <2>4, <2>5 DEF TypeOK
<1> QED
  BY <1>1, NumbersStayConsistent, PTL

=============================================================================
