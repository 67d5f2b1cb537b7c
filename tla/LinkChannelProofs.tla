------------------------- MODULE LinkChannelProofs -------------------------
(***************************************************************************)
(* That ReliableLink implements ReliableChannel, for any scripts, any      *)
(* faults, any sizes of packets and any range of sequence numbers, on a    *)
(* network where the numbers in use are less than half a range from the    *)
(* newest one received (NumbersInWindow).                                  *)
(*                                                                         *)
(* Sequences wrap, so what an end concludes from them is right only there: *)
(* WindowInv says that messages with an entry in the table of received     *)
(* sequences have arrived and others have not, that ordered messages which *)
(* pass the sequence check come after those that arrived, and that what a  *)
(* packet acknowledges has arrived.  From it follows that every step of    *)
(* the link is a step of the channel, or none, and from that what the      *)
(* applications were promised.                                             *)
(***************************************************************************)
EXTENDS ReliableLinkProofs

\* The messages of e that are kept in order.
InOrder(e) == {i \in 1 .. Len(script[e]) : IsInOrder(GameMessage(e, i))}

\* The receive side for messages with numbers up to n: the newest number was
\* received, and no entry of the table spells a later one.
EntriesKnown(receiver, n) ==
    /\ Newest(receiver) \in Exchanged .. n
    /\ \A s \in DOMAIN receiver.m_seqtrackReceived :
        NumberOf(receiver.m_seqtrackReceived[s], s) <= Newest(receiver)
    /\ Newest(receiver) > Exchanged => HasEntry(receiver, Newest(receiver))

\* Among the messages in use those with an entry have arrived; the others have
\* not, but for those that are not checked and those that change their number.
EntriesArrived(used, zeros, receiver, arrived) ==
    \A m \in used : m.id # 0 =>
        /\ HasEntry(receiver, m.number) => m.id \in arrived
        /\ m.id \in arrived /\ ~IsUnsequenced(m) /\ m.id \notin zeros
                => HasEntry(receiver, m.number)

\* Ordered messages that are newer than all received ones come after those that
\* arrived.
OrderAhead(used, ordered, receiver, arrived) ==
    \A m \in used : IsInOrder(m) /\ m.number > Newest(receiver) =>
        \A i \in arrived \cap ordered : i < m.id

Recorded(used, n, zeros, ordered, receiver, arrived) ==
    /\ EntriesKnown(receiver, n)
    /\ EntriesArrived(used, zeros, receiver, arrived)
    /\ OrderAhead(used, ordered, receiver, arrived)

\* The numbers a packet acknowledges.
AckedNumbers(packet) == {packet.newest} \cup {packet.newest - 1 - i : i \in packet.m_ackbits}

\* What these packets acknowledge has arrived, however old they are.
AcksArrived(packets, waiting, receiver, arrived) ==
    \A packet \in packets :
        /\ packet.newest \in Exchanged .. Newest(receiver)
        /\ packet.m_ackseq = Wrap(packet.newest)
        /\ \A m \in waiting : m.number \in AckedNumbers(packet) => m.id \in arrived

\* The messages of e that have arrived, and what the two ends know of them.
Came(e) == ToSet(Arrived(Other(e)))

Known(e) ==
    /\ Recorded(Used(e), numbered[e], zeroed[e], InOrder(e), rx[Other(e)], Came(e))
    /\ AcksArrived(ToSet(net[e]), Waiting(e), rx[Other(e)], Came(e))

WindowInv == \A e \in Ends : Known(e)

\* The loop of GameIDs, and that it can be done in two parts.
Gather(ids, m) == IF m.id # 0 THEN Append(ids, m.id) ELSE ids

IsGathered(r, messages) ==
    r = [k \in 0 .. Len(messages) |-> IF k = 0 THEN <<>> ELSE Gather(r[k - 1], messages[k])]

GatherNext(ids, k, x) == Gather(ids, x.messages[k])

AreGathered(ids, k, x) ==
    ids \in Seq(Nat) /\ ToSet(ids) = {x.messages[j].id : j \in 1 .. k} \ {0}

AreJoined(ids, k, x) ==
    /\ k <= x.split => ids = x.first[k]
    /\ k >= x.split => ids = x.first[x.split] \o x.second[k - x.split]

Gathering == INSTANCE Loops WITH Step <- GatherNext, Holds <- AreGathered
Joining == INSTANCE Loops WITH Step <- GatherNext, Holds <- AreJoined

-----------------------------------------------------------------------------
LEMMA EmptyIsEmpty == DOMAIN <<>> = {} /\ ToSet(<<>>) = {}
<1>1. <<>> \in Seq(Nat) /\ Len(<<>>) = 0
  BY EmptySeq
<1>2. DOMAIN <<>> = 1 .. 0
  BY <1>1, LenProperties
<1> QED
  BY <1>2 DEF ToSet

\* Appending behind a concatenation.
LEMMA AppendBehind ==
    ASSUME NEW a \in Seq(Nat), NEW b \in Seq(Nat), NEW i \in Nat
    PROVE  a \o Append(b, i) = Append(a \o b, i)
<1> DEFINE one == <<i>>
           both == a \o b
<1>1. one \in Seq(Nat) /\ both \in Seq(Nat)
  BY ConcatProperties
<1>2. Append(b, i) = b \o one /\ Append(both, i) = both \o one
  BY <1>1, AppendIsConcat
<1> HIDE DEF one
<1>3. (a \o b) \o one = a \o (b \o one)
  BY <1>1, ConcatAssociative, SMTT(20), ZenonT(30)
<1> QED
  BY <1>2, <1>3

LEMMA GameIDsLoop ==
    ASSUME NEW messages, Len(messages) \in Nat
    PROVE  \E r : IsGathered(r, messages) /\ GameIDs(messages) = r[Len(messages)]
<1> DEFINE x == [messages |-> messages]
           N == Len(messages)
           IsIDs(f) == f = [k \in 0 .. Len(messages) |->
                IF k = 0 THEN <<>>
                ELSE IF messages[k].id # 0 THEN Append(f[k - 1], messages[k].id)
                ELSE f[k - 1]]
           ids == CHOOSE f : IsIDs(f)
<1>1. PICK r : Gathering!IsLoop(r, N, <<>>, x)
  <2> HIDE DEF x, N
  <2>1. N \in Nat
    BY DEF N
  <2> QED
    BY <2>1, Gathering!LoopExists
<1>2. IsIDs(r)
  BY <1>1 DEF Gathering!IsLoop, GatherNext, Gather
<1>3. IsIDs(ids)
  BY <1>2
<1>4. GameIDs(messages) = ids[N]
  BY DEF GameIDs
<1>5. IsGathered(ids, messages)
  <2> HIDE DEF ids
  <2> QED
    BY <1>3 DEF IsGathered, Gather
<1> HIDE DEF ids
<1> QED
  BY <1>4, <1>5

LEMMA GatheredAt ==
    ASSUME NEW r, NEW messages, IsGathered(r, messages), Len(messages) \in Nat
    PROVE  /\ r[0] = <<>>
           /\ \A k \in 1 .. Len(messages) : r[k] = Gather(r[k - 1], messages[k])
           /\ Gathering!IsLoop(r, Len(messages), <<>>, [messages |-> messages])
<1>1. \A k \in 0 .. Len(messages) :
        r[k] = IF k = 0 THEN <<>> ELSE Gather(r[k - 1], messages[k])
  BY DEF IsGathered
<1>2. 0 \in 0 .. Len(messages) /\ \A k \in 1 .. Len(messages) : k \in 0 .. Len(messages) /\ k # 0
  OBVIOUS
<1>3. Gathering!IsLoop(r, Len(messages), <<>>, [messages |-> messages])
  BY DEF IsGathered, Gathering!IsLoop, GatherNext
<1> QED
  BY <1>1, <1>2, <1>3

LEMMA GatheredType ==
    ASSUME NEW M, \A m \in M : m.id \in Nat, NEW messages \in Seq(M),
           NEW r, IsGathered(r, messages)
    PROVE  \A k \in 0 .. Len(messages) :
                r[k] \in Seq(Nat) /\ ToSet(r[k]) = {messages[j].id : j \in 1 .. k} \ {0}
<1> DEFINE x == [messages |-> messages]
           N == Len(messages)
<1>1. N \in Nat /\ \A k \in 1 .. N : messages[k].id \in Nat
  BY LenProperties, ElementOfSeq
<1>2. Gathering!IsLoop(r, N, <<>>, x)
  BY <1>1, GatheredAt
<1>3. AreGathered(<<>>, 0, x)
  <2>1. <<>> \in Seq(Nat) /\ ToSet(<<>>) = {}
    BY EmptyIsEmpty, EmptySeq
  <2>2. 1 .. 0 = {}
    OBVIOUS
  <2> QED
    BY <2>1, <2>2 DEF AreGathered
<1>4. ASSUME NEW k \in 1 .. N, NEW ids, AreGathered(ids, k - 1, x)
      PROVE  AreGathered(GatherNext(ids, k, x), k, x)
  <2> DEFINE i == messages[k].id
  <2>1. i \in Nat /\ k \in Nat
    BY <1>1
  <2>2. ids \in Seq(Nat) /\ ToSet(ids) = {messages[j].id : j \in 1 .. k - 1} \ {0}
    BY <1>4 DEF AreGathered
  <2>3. 1 .. k = (1 .. k - 1) \cup {k}
    BY <2>1, <1>1
  <2>4. {messages[j].id : j \in 1 .. k} = {messages[j].id : j \in 1 .. k - 1} \cup {i}
    BY <2>3
  <2>5. GatherNext(ids, k, x) = IF i # 0 THEN Append(ids, i) ELSE ids
    BY DEF GatherNext, Gather
  <2>6. Append(ids, i) \in Seq(Nat) /\ ToSet(Append(ids, i)) = ToSet(ids) \cup {i}
    BY <2>1, <2>2, AppendProperties, ToSetAppend
  <2> HIDE DEF i
  <2>7. GatherNext(ids, k, x) \in Seq(Nat)
    BY <2>2, <2>5, <2>6
  <2>8. ToSet(GatherNext(ids, k, x)) = {messages[j].id : j \in 1 .. k} \ {0}
    BY <2>2, <2>4, <2>5, <2>6
  <2> QED
    BY <2>7, <2>8 DEF AreGathered
<1>5. \A k \in 0 .. N : AreGathered(r[k], k, x)
  <2> HIDE DEF x, N
  <2> QED
    BY <1>1, <1>2, <1>3, <1>4, Gathering!LoopInvariant
<1> QED
  BY <1>5 DEF AreGathered

\* The application messages of a queue, in type, as a set, and of a queue in
\* two parts.
LEMMA GameIDsType ==
    ASSUME NEW M, \A m \in M : m.id \in Nat, NEW messages \in Seq(M)
    PROVE  GameIDs(messages) \in Seq(Nat) /\ ToSet(GameIDs(messages)) = IDs(ToSet(messages)) \ {0}
<1>1. Len(messages) \in Nat /\ Len(messages) \in 0 .. Len(messages)
  BY LenProperties
<1>2. PICK r : IsGathered(r, messages) /\ GameIDs(messages) = r[Len(messages)]
  BY <1>1, GameIDsLoop
<1>3. /\ r[Len(messages)] \in Seq(Nat)
      /\ ToSet(r[Len(messages)]) = {messages[j].id : j \in 1 .. Len(messages)} \ {0}
  BY <1>1, <1>2, GatheredType
<1>4. IDs(ToSet(messages)) = {messages[j].id : j \in 1 .. Len(messages)}
  BY ToSetType DEF IDs
<1> QED
  BY <1>2, <1>3, <1>4

LEMMA GameIDsJoined ==
    ASSUME NEW M, \A m \in M : m.id \in Nat, NEW a \in Seq(M), NEW b \in Seq(M)
    PROVE  GameIDs(a \o b) = GameIDs(a) \o GameIDs(b)
<1>1. /\ a \o b \in Seq(M) /\ Len(a \o b) = Len(a) + Len(b)
      /\ Len(a) \in Nat /\ Len(b) \in Nat
      /\ \A k \in 1 .. Len(a) + Len(b) : (a \o b)[k] = IF k <= Len(a) THEN a[k] ELSE b[k - Len(a)]
  BY ConcatProperties, LenProperties
<1>2. PICK ra : IsGathered(ra, a) /\ GameIDs(a) = ra[Len(a)]
  BY <1>1, GameIDsLoop
<1>3. PICK rb : IsGathered(rb, b) /\ GameIDs(b) = rb[Len(b)]
  BY <1>1, GameIDsLoop
<1>4. PICK r : IsGathered(r, a \o b) /\ GameIDs(a \o b) = r[Len(a \o b)]
  <2>1. Len(a \o b) \in Nat
    BY <1>1
  <2> QED
    BY <2>1, GameIDsLoop
<1> DEFINE N == Len(a) + Len(b)
           n == Len(a)
           x == [messages |-> a \o b, split |-> n, first |-> ra, second |-> rb]
<1>5. Joining!IsLoop(r, N, <<>>, x)
  BY <1>1, <1>4 DEF IsGathered, Joining!IsLoop, GatherNext
<1>6. \A k \in 0 .. n : ra[k] \in Seq(Nat)
  BY <1>2, GatheredType
<1>7. \A k \in 0 .. Len(b) : rb[k] \in Seq(Nat)
  BY <1>3, GatheredType
<1>8. /\ ra[0] = <<>> /\ \A k \in 1 .. n : ra[k] = Gather(ra[k - 1], a[k])
      /\ rb[0] = <<>> /\ \A k \in 1 .. Len(b) : rb[k] = Gather(rb[k - 1], b[k])
  <2>1. ra[0] = <<>> /\ \A k \in 1 .. n : ra[k] = Gather(ra[k - 1], a[k])
    BY <1>1, <1>2, GatheredAt, SMTT(20), ZenonT(30)
  <2>2. rb[0] = <<>> /\ \A k \in 1 .. Len(b) : rb[k] = Gather(rb[k - 1], b[k])
    BY <1>1, <1>3, GatheredAt, SMTT(20), ZenonT(30)
  <2> QED
    BY <2>1, <2>2
<1>9. ra[n] \in Seq(Nat) /\ ra[n] \o rb[0] = ra[n]
  BY <1>1, <1>6, <1>8, ConcatEmptySeq
<1>10. AreJoined(<<>>, 0, x)
  <2>1. 0 <= n /\ (0 >= n => n = 0)
    BY <1>1
  <2>2. x.split = n /\ x.first = ra /\ x.second = rb
    OBVIOUS
  <2>3. n = 0 => <<>> = ra[n] \o rb[0 - n]
    <3>1. n = 0 => 0 - n = 0
      OBVIOUS
    <3> HIDE DEF n
    <3> QED
      BY <1>8, <1>9, <3>1
  <2> HIDE DEF x, n
  <2> QED
    BY <1>8, <2>1, <2>2, <2>3 DEF AreJoined
<1>11. ASSUME NEW k \in 1 .. N, NEW ids, AreJoined(ids, k - 1, x)
       PROVE  AreJoined(GatherNext(ids, k, x), k, x)
  <2>1. x.split = n /\ x.first = ra /\ x.second = rb
    OBVIOUS
  <2>2. GatherNext(ids, k, x) = Gather(ids, IF k <= n THEN a[k] ELSE b[k - n])
    BY <1>1 DEF GatherNext
  <2>3. /\ k - 1 <= n => ids = ra[k - 1]
        /\ k - 1 >= n => ids = ra[n] \o rb[k - 1 - n]
    BY <1>11, <2>1 DEF AreJoined
  <2> DEFINE next == GatherNext(ids, k, x)
  <2>4. CASE k <= n
    <3>1. k \in 1 .. n /\ k - 1 <= n
      BY <1>1, <2>4
    <3>2. next = ra[k]
      BY <1>8, <2>2, <2>3, <2>4, <3>1
    <3>3. k >= n => k = n /\ k - n = 0
      BY <1>1, <2>4, <3>1
    <3>4. k >= n => next = ra[n] \o rb[k - n]
      BY <1>9, <3>2, <3>3
    <3> HIDE DEF x, next, n
    <3> QED
      BY <2>1, <3>2, <3>4 DEF AreJoined, next
  <2>5. CASE k > n
    <3>1. k - n \in 1 .. Len(b) /\ k - 1 >= n /\ ~(k <= n) /\ k - 1 - n = k - n - 1
          /\ k - n - 1 \in 0 .. Len(b)
      BY <1>1, <2>5
    <3>2. ids = ra[n] \o rb[k - n - 1] /\ next = Gather(ids, b[k - n])
      BY <2>2, <2>3, <3>1
    <3>3. rb[k - n] = Gather(rb[k - n - 1], b[k - n]) /\ rb[k - n - 1] \in Seq(Nat)
      BY <1>7, <1>8, <3>1
    <3>4. b[k - n].id \in Nat
      BY <3>1, ElementOfSeq
    <3>5. Append(ra[n] \o rb[k - n - 1], b[k - n].id)
            = ra[n] \o Append(rb[k - n - 1], b[k - n].id)
      <4> DEFINE s == ra[n]
                 t == rb[k - n - 1]
                 i == b[k - n].id
      <4>1. s \in Seq(Nat) /\ t \in Seq(Nat) /\ i \in Nat
        BY <1>9, <3>3, <3>4
      <4> HIDE DEF s, t, i
      <4>2. Append(s \o t, i) = s \o Append(t, i)
        BY <4>1, AppendBehind
      <4> QED
        BY <4>2 DEF s, t, i
    <3>6. next = ra[n] \o rb[k - n]
      BY <3>2, <3>3, <3>5 DEF Gather
    <3> HIDE DEF x, next, n
    <3> QED
      BY <2>1, <3>1, <3>6 DEF AreJoined, next
  <2> QED
    BY <1>1, <2>4, <2>5
<1>12. \A k \in 0 .. N : AreJoined(r[k], k, x)
  <2>1. N \in Nat
    BY <1>1
  <2> HIDE DEF x, N
  <2> QED
    BY <1>5, <1>10, <1>11, <2>1, Joining!LoopInvariant
<1>13. r[N] = ra[n] \o rb[N - n]
  <2>1. N \in 0 .. N /\ N >= n
    BY <1>1
  <2>2. x.split = n /\ x.first = ra /\ x.second = rb
    OBVIOUS
  <2>3. AreJoined(r[N], N, x)
    BY <1>12, <2>1
  <2> HIDE DEF x, N, n
  <2> QED
    BY <2>1, <2>2, <2>3 DEF AreJoined
<1>14. N - n = Len(b)
  BY <1>1
<1> QED
  BY <1>1, <1>2, <1>3, <1>4, <1>13, <1>14

LEMMA GameIDsOne ==
    ASSUME NEW M, \A m \in M : m.id \in Nat, NEW m \in M
    PROVE  GameIDs(<<m>>) = IF m.id # 0 THEN <<m.id>> ELSE <<>>
<1> DEFINE s == <<m>>
<1>1. Len(s) = 1 /\ s[1] = m
  OBVIOUS
<1> HIDE DEF s
<1>2. Len(s) \in Nat /\ 1 \in 1 .. Len(s) /\ 1 - 1 = 0
  BY <1>1
<1>3. PICK r : IsGathered(r, s) /\ GameIDs(s) = r[Len(s)]
  BY <1>2, GameIDsLoop
<1>4. r[0] = <<>> /\ \A k \in 1 .. Len(s) : r[k] = Gather(r[k - 1], s[k])
  BY <1>2, <1>3, GatheredAt
<1>5. GameIDs(s) = Gather(<<>>, m)
  BY <1>1, <1>2, <1>3, <1>4
<1>6. Append(<<>>, m.id) = <<m.id>>
  OBVIOUS
<1> QED
  BY <1>5, <1>6 DEF Gather, s

LEMMA GameIDsEmpty == GameIDs(<<>>) = <<>>
<1>1. Len(<<>>) = 0
  BY EmptySeq
<1>2. PICK r : IsGathered(r, <<>>) /\ GameIDs(<<>>) = r[0]
  BY <1>1, GameIDsLoop
<1> QED
  BY <1>1, <1>2, GatheredAt

-----------------------------------------------------------------------------
\* Numbers with the same sequence are the same or at least a range apart.
LEMMA NearEqual ==
    ASSUME NEW a \in Nat, NEW b \in Nat, a < b + Modulus, b < a + Modulus, Wrap(a) = Wrap(b)
    PROVE  a = b
<1>1. /\ Wrap(a) \in Sequences16
      /\ a \div Modulus \in Int /\ b \div Modulus \in Int
      /\ NumberOf(a \div Modulus, Wrap(a)) = a /\ NumberOf(b \div Modulus, Wrap(a)) = b
  BY Spelling
<1>2. a \div Modulus <= b \div Modulus
  BY <1>1, SpellingOrder
<1>3. b \div Modulus <= a \div Modulus
  BY <1>1, SpellingOrder
<1> QED
  BY <1>1, <1>2, <1>3

\* A number with an entry is not later than the newest.
LEMMA EntryKnown ==
    ASSUME NEW receiver, NEW n, EntriesKnown(receiver, n), NEW k \in Nat, HasEntry(receiver, k)
    PROVE  k <= Newest(receiver)
BY Spelling DEF EntriesKnown, HasEntry

\* What a message that passes the check does to the receive side.
LEMMA EnteredEffect ==
    ASSUME NEW receiver, NEW n \in Nat, NEW in, NEW round
    PROVE  LET after == Receiver(in, round, Entered(receiver, n))
           IN  /\ Newest(after) = NumberOf(round, in)
               /\ HasEntry(after, n)
               /\ \A k \in Nat : k < n + Modulus /\ n < k + Modulus /\ k # n =>
                    (HasEntry(after, k) <=> HasEntry(receiver, k))
               /\ \A s \in DOMAIN after.m_seqtrackReceived :
                    \/ NumberOf(after.m_seqtrackReceived[s], s) = n
                    \/ /\ s \in DOMAIN receiver.m_seqtrackReceived
                       /\ after.m_seqtrackReceived[s] = receiver.m_seqtrackReceived[s]
<1> DEFINE after == Receiver(in, round, Entered(receiver, n))
           table == after.m_seqtrackReceived
           old == receiver.m_seqtrackReceived
<1>1. /\ table = Entered(receiver, n) /\ after.m_sequenceIn = in /\ after.m_sequenceRound = round
  BY DEF Receiver
<1>2. /\ DOMAIN table = DOMAIN old \cup {Wrap(n)}
      /\ \A s \in DOMAIN table : table[s] = IF s = Wrap(n) THEN n \div Modulus ELSE old[s]
  BY <1>1 DEF Entered
<1>3. NumberOf(n \div Modulus, Wrap(n)) = n
  BY Spelling
<1>4. Newest(after) = NumberOf(round, in)
  BY <1>1 DEF Newest
<1> HIDE DEF after, table
<1>5. HasEntry(after, n)
  BY <1>2 DEF HasEntry, table
<1>6. ASSUME NEW k \in Nat, k < n + Modulus, n < k + Modulus, k # n
      PROVE  HasEntry(after, k) <=> HasEntry(receiver, k)
  <2>1. Wrap(k) # Wrap(n)
    BY <1>6, NearEqual
  <2> QED
    BY <1>2, <2>1 DEF HasEntry, table
<1>7. ASSUME NEW s \in DOMAIN table
      PROVE  \/ NumberOf(table[s], s) = n
             \/ s \in DOMAIN old /\ table[s] = old[s]
  BY <1>2, <1>3
<1> QED
  BY <1>4, <1>5, <1>6, <1>7 DEF after, table

\* The sequence check told in message numbers.
LEMMA CheckedEffect ==
    ASSUME NEW receiver \in Receivers, NEW m, m.m_sequence = Wrap(m.number),
           Within(receiver, m.number)
    PROVE  LET after == Checked(receiver, m)
           IN  /\ after \in Receivers
               /\ IsUnsequenced(m) => Passes(receiver, m) /\ after = receiver
               /\ ~IsUnsequenced(m) =>
                    /\ Passes(receiver, m)
                        <=> m.number > Newest(receiver)
                            \/ (~IsOrderedOnly(m) /\ ~HasEntry(receiver, m.number))
                    /\ ~Passes(receiver, m) => after = receiver
                    /\ Passes(receiver, m) =>
                        /\ Newest(after) = IF m.number > Newest(receiver) THEN m.number
                                                                          ELSE Newest(receiver)
                        /\ HasEntry(after, m.number)
                        /\ \A k \in Nat : k < m.number + Modulus /\ m.number < k + Modulus
                                            /\ k # m.number =>
                            (HasEntry(after, k) <=> HasEntry(receiver, k))
                        /\ \A s \in DOMAIN after.m_seqtrackReceived :
                            \/ NumberOf(after.m_seqtrackReceived[s], s) = m.number
                            \/ /\ s \in DOMAIN receiver.m_seqtrackReceived
                               /\ after.m_seqtrackReceived[s] = receiver.m_seqtrackReceived[s]
<1> DEFINE n == m.number
           ordered == IsOrderedOnly(m)
           after == AfterSequenceCheck(receiver, Wrap(n), ordered)
           newer == Receiver(Wrap(n), n \div Modulus, Entered(receiver, n))
           older == Receiver(receiver.m_sequenceIn, receiver.m_sequenceRound, Entered(receiver, n))
<1>1. n \in Nat /\ Newest(receiver) \in Nat /\ Wrap(n) \in Sequences16
  BY NewestType, Spelling DEF Within
<1>2. NumberOf(n \div Modulus, Wrap(n)) = n
  BY <1>1, Spelling
<1>3. after \in Receivers
  BY <1>1, AfterSequenceCheckType
<1>4. ordered \in BOOLEAN
  BY DEF IsOrderedOnly, IsReliable
<1>5. /\ PassesSequenceCheck(receiver, Wrap(n), ordered)
            <=> n > Newest(receiver) \/ (~ordered /\ ~HasEntry(receiver, n))
      /\ n > Newest(receiver) => after = newer
      /\ n <= Newest(receiver) /\ PassesSequenceCheck(receiver, Wrap(n), ordered) => after = older
      /\ ~PassesSequenceCheck(receiver, Wrap(n), ordered) => after = receiver
  <2> HIDE DEF n, ordered
  <2>1. Within(receiver, n)
    BY DEF n
  <2> QED
    BY <1>4, <2>1, CheckEffect
<1>6. /\ ~IsUnsequenced(m) => Checked(receiver, m) = after
      /\ ~IsUnsequenced(m) => (Passes(receiver, m)
                                <=> PassesSequenceCheck(receiver, Wrap(n), ordered))
      /\ IsUnsequenced(m) => Checked(receiver, m) = receiver /\ Passes(receiver, m)
  BY DEF Checked, Passes
<1> DEFINE Entry(r) ==
            /\ HasEntry(r, n)
            /\ \A k \in Nat : k < n + Modulus /\ n < k + Modulus /\ k # n =>
                    (HasEntry(r, k) <=> HasEntry(receiver, k))
            /\ \A s \in DOMAIN r.m_seqtrackReceived :
                    \/ NumberOf(r.m_seqtrackReceived[s], s) = n
                    \/ /\ s \in DOMAIN receiver.m_seqtrackReceived
                       /\ r.m_seqtrackReceived[s] = receiver.m_seqtrackReceived[s]
<1> HIDE DEF after, n, ordered
<1>7. Newest(newer) = n /\ Entry(newer)
  BY <1>1, <1>2, EnteredEffect
<1>8. Newest(older) = Newest(receiver) /\ Entry(older)
  <2>1. Newest(receiver) = NumberOf(receiver.m_sequenceRound, receiver.m_sequenceIn)
    BY DEF Newest
  <2> QED
    BY <1>1, <2>1, EnteredEffect
<1> HIDE DEF newer, older, Entry
<1>9. ~IsUnsequenced(m) /\ Passes(receiver, m) =>
            /\ Newest(after) = IF n > Newest(receiver) THEN n ELSE Newest(receiver)
            /\ Entry(after)
  <2>1. n > Newest(receiver) \/ n <= Newest(receiver)
    BY <1>1
  <2> QED
    BY <1>1, <1>5, <1>6, <1>7, <1>8, <2>1
<1>10. Checked(receiver, m) \in Receivers
  BY <1>3, <1>6
<1>11. ~IsUnsequenced(m) =>
        /\ Passes(receiver, m) <=> n > Newest(receiver) \/ (~ordered /\ ~HasEntry(receiver, n))
        /\ ~Passes(receiver, m) => Checked(receiver, m) = receiver
  BY <1>5, <1>6
<1>12. ~IsUnsequenced(m) /\ Passes(receiver, m) =>
            /\ Newest(Checked(receiver, m)) = IF n > Newest(receiver) THEN n ELSE Newest(receiver)
            /\ Entry(Checked(receiver, m))
  BY <1>6, <1>9
<1> QED
  BY <1>6, <1>10, <1>11, <1>12 DEF Entry, n, ordered

-----------------------------------------------------------------------------
\* Messages whose numbers are less than a range apart.
Near(used) == \A m, l \in used : m.number < l.number + Modulus

\* These are the identities of the messages that are kept in order.
Orders(used, ordered) ==
    \A m \in used : m.id # 0 /\ IsInOrder(m) <=> m.id \in ordered

\* A message may arrive after these.
MayCome(m, zeros, ordered, arrived) ==
    m.id # 0 =>
        /\ m.id \in arrived => m.id \in zeros \/ IsUnsequenced(m)
        /\ m.id \in ordered => \A i \in arrived \cap ordered : i < m.id

With(arrived, m) == arrived \cup ({m.id} \ {0})

\* One message of a packet: what the receive side knows stays true, and no
\* message comes that may not.
LEMMA CheckedRecorded ==
    ASSUME NEW used, NEW n \in Nat, NEW zeros, NEW ordered, NEW receiver \in Receivers, NEW arrived,
           Consistent(used, n, zeros), Near(used), Orders(used, ordered),
           Recorded(used, n, zeros, ordered, receiver, arrived),
           NEW m \in used, Within(receiver, m.number)
    PROVE  LET after == Checked(receiver, m)
               came == IF Passes(receiver, m) THEN With(arrived, m) ELSE arrived
           IN  /\ after \in Receivers
               /\ Recorded(used, n, zeros, ordered, after, came)
               /\ Passes(receiver, m) => MayCome(m, zeros, ordered, arrived)
               /\ Newest(after) \in {Newest(receiver), m.number} /\ Newest(after) >= Newest(receiver)
<1> DEFINE after == Checked(receiver, m)
           came == IF Passes(receiver, m) THEN With(arrived, m) ELSE arrived
<1>1. /\ \A l \in used : /\ l.number \in Exchanged + 1 .. n /\ l.number \in Nat
                         /\ l.m_sequence = Wrap(l.number)
      /\ \A l \in used :
            /\ m.number = l.number => m = l
            /\ m.id = l.id /\ m.id # 0 /\ m.id \notin zeros => m = l
            /\ IsOrderedOnly(m) /\ IsOrderedOnly(l) /\ m.number < l.number => m.id < l.id
      /\ \A l \in used : l.number < m.number + Modulus /\ m.number < l.number + Modulus
      /\ Newest(receiver) \in Nat /\ Exchanged \in Nat
  <2>1. Exchanged \in Nat
    BY LinkAssumption
  <2>2. \A l \in used : l.number \in Exchanged + 1 .. n /\ l.m_sequence = Wrap(l.number)
    BY DEF Consistent, Spelled
  <2>3. \A l \in used : l.number \in Nat
    BY <2>1, <2>2
  <2>4. \A l \in used : l.number < m.number + Modulus /\ m.number < l.number + Modulus
    BY DEF Near
  <2> QED
    BY <2>1, <2>2, <2>3, <2>4, NewestType DEF Consistent
<1>2. /\ after \in Receivers
      /\ IsUnsequenced(m) => Passes(receiver, m) /\ after = receiver
      /\ ~IsUnsequenced(m) =>
           /\ Passes(receiver, m) <=> m.number > Newest(receiver)
                                        \/ (~IsOrderedOnly(m) /\ ~HasEntry(receiver, m.number))
           /\ ~Passes(receiver, m) => after = receiver
           /\ Passes(receiver, m) =>
                /\ Newest(after) = IF m.number > Newest(receiver) THEN m.number ELSE Newest(receiver)
                /\ HasEntry(after, m.number)
                /\ \A k \in Nat : k < m.number + Modulus /\ m.number < k + Modulus /\ k # m.number =>
                        (HasEntry(after, k) <=> HasEntry(receiver, k))
                /\ \A s \in DOMAIN after.m_seqtrackReceived :
                        \/ NumberOf(after.m_seqtrackReceived[s], s) = m.number
                        \/ /\ s \in DOMAIN receiver.m_seqtrackReceived
                           /\ after.m_seqtrackReceived[s] = receiver.m_seqtrackReceived[s]
  BY <1>1, CheckedEffect
<1> DEFINE enters == ~IsUnsequenced(m) /\ Passes(receiver, m)
<1> HIDE DEF after, came
<1>3. ~enters => after = receiver
  BY <1>2
<1>4. enters => \A l \in used : l # m => (HasEntry(after, l.number) <=> HasEntry(receiver, l.number))
  BY <1>1, <1>2
<1>5. EntriesKnown(receiver, n)
  BY DEF Recorded
<1>6. Newest(after) \in {Newest(receiver), m.number} /\ Newest(after) >= Newest(receiver)
  BY <1>1, <1>2, <1>3
<1>7. EntriesKnown(after, n)
  <2>1. CASE ~enters
    BY <1>3, <1>5, <2>1
  <2>2. CASE enters
    <3>1. Newest(after) \in Exchanged .. n
      BY <1>1, <1>5, <1>6 DEF EntriesKnown
    <3>2. m.number <= Newest(after)
      BY <1>1, <1>2, <2>2
    <3>3. ASSUME NEW s \in DOMAIN after.m_seqtrackReceived
          PROVE  NumberOf(after.m_seqtrackReceived[s], s) <= Newest(after)
      <4>1. CASE NumberOf(after.m_seqtrackReceived[s], s) = m.number
        BY <3>2, <4>1
      <4>2. CASE /\ s \in DOMAIN receiver.m_seqtrackReceived
                 /\ after.m_seqtrackReceived[s] = receiver.m_seqtrackReceived[s]
        <5> DEFINE k == NumberOf(after.m_seqtrackReceived[s], s)
        <5>1. k <= Newest(receiver)
          BY <1>5, <4>2 DEF EntriesKnown
        <5>2. k \in Int
          <6>1. after.m_seqtrackReceived \in PartialFunctions(Sequences16, 0 .. Rounds - 1)
            BY <1>2 DEF Receivers
          <6> DEFINE table == after.m_seqtrackReceived
          <6>2. DOMAIN table \subseteq Sequences16 /\ table \in [DOMAIN table -> 0 .. Rounds - 1]
            <7> HIDE DEF table
            <7> QED
              BY <6>1, PartialFunctionsType DEF table
          <6>3. s \in Sequences16 /\ table[s] \in 0 .. Rounds - 1
            BY <6>2, <3>3
          <6> QED
            BY <6>3, ModulusType DEF NumberOf, Sequences16
        <5> HIDE DEF k
        <5>3. k <= Newest(after)
          BY <1>1, <1>6, <5>1, <5>2
        <5> QED
          BY <5>3 DEF k
      <4> QED
        BY <1>2, <2>2, <4>1, <4>2
    <3>4. Newest(after) > Exchanged => HasEntry(after, Newest(after))
      <4>1. CASE Newest(after) = m.number
        BY <1>2, <2>2, <4>1
      <4>2. CASE Newest(after) # m.number
        <5>1. Newest(after) = Newest(receiver) /\ ~(m.number > Newest(receiver))
          BY <1>2, <1>6, <2>2, <4>2
        <5>2. Newest(receiver) < m.number + Modulus /\ m.number < Newest(receiver) + Modulus
          BY <1>1, <5>1, ModulusType DEF Within
        <5>3. HasEntry(after, Newest(receiver)) <=> HasEntry(receiver, Newest(receiver))
          BY <1>1, <1>2, <2>2, <4>2, <5>1, <5>2
        <5> QED
          BY <1>5, <5>1, <5>3 DEF EntriesKnown
      <4> QED
        BY <4>1, <4>2
    <3> QED
      BY <3>1, <3>3, <3>4 DEF EntriesKnown
  <2> QED
    BY <2>1, <2>2
<1>8. EntriesArrived(used, zeros, receiver, arrived)
  BY DEF Recorded
<1>9. /\ Passes(receiver, m) /\ m.id # 0 => came = arrived \cup {m.id}
      /\ ~Passes(receiver, m) \/ m.id = 0 => came = arrived
  BY DEF came, With
<1>10. EntriesArrived(used, zeros, after, came)
  <2> SUFFICES ASSUME NEW l \in used, l.id # 0
               PROVE  /\ HasEntry(after, l.number) => l.id \in came
                      /\ l.id \in came /\ ~IsUnsequenced(l) /\ l.id \notin zeros
                            => HasEntry(after, l.number)
    BY DEF EntriesArrived
  <2>1. /\ HasEntry(receiver, l.number) => l.id \in arrived
        /\ l.id \in arrived /\ ~IsUnsequenced(l) /\ l.id \notin zeros => HasEntry(receiver, l.number)
    BY <1>8 DEF EntriesArrived
  <2>2. HasEntry(after, l.number) => l.id \in came
    <3>1. CASE enters /\ l = m
      BY <1>9, <3>1
    <3>2. CASE ~enters \/ l # m
      BY <1>3, <1>4, <1>9, <2>1, <3>2
    <3> QED
      BY <3>1, <3>2
  <2>3. ASSUME l.id \in came, ~IsUnsequenced(l), l.id \notin zeros
        PROVE  HasEntry(after, l.number)
    <3>1. CASE l = m /\ Passes(receiver, m)
      BY <1>2, <2>3, <3>1
    <3>2. CASE ~(l = m /\ Passes(receiver, m))
      <4>1. l.id \in arrived
        BY <1>1, <1>9, <2>3, <3>2
      <4>2. HasEntry(receiver, l.number)
        BY <2>1, <2>3, <4>1
      <4>3. ~enters \/ l # m
        BY <3>2
      <4> QED
        BY <1>3, <1>4, <4>2, <4>3
    <3> QED
      BY <3>1, <3>2
  <2> QED
    BY <2>2, <2>3
<1>11. OrderAhead(used, ordered, receiver, arrived)
  BY DEF Recorded
<1>12. OrderAhead(used, ordered, after, came)
  <2> SUFFICES ASSUME NEW l \in used, IsInOrder(l), l.number > Newest(after), NEW i \in came \cap ordered
               PROVE  i < l.id
    BY DEF OrderAhead
  <2>1. l.number > Newest(receiver)
    BY <1>1, <1>2, <1>6
  <2>2. CASE i \in arrived
    BY <1>11, <2>1, <2>2 DEF OrderAhead
  <2>3. CASE i \notin arrived
    <3>1. i = m.id /\ Passes(receiver, m) /\ m.id # 0
      BY <1>9, <2>3
    <3>2. IsInOrder(m)
      BY <3>1 DEF Orders
    <3>3. m.number > Newest(receiver)
      BY <1>2, <3>1, <3>2 DEF IsInOrder
    <3>4. Newest(after) = m.number
      BY <1>2, <3>1, <3>2, <3>3 DEF IsInOrder
    <3>5. m.number < l.number
      BY <1>1, <3>4
    <3> QED
      BY <1>1, <3>1, <3>2, <3>5 DEF IsInOrder
  <2> QED
    BY <2>2, <2>3
<1>13. ASSUME Passes(receiver, m), m.id # 0
       PROVE  /\ m.id \in arrived => m.id \in zeros \/ IsUnsequenced(m)
              /\ m.id \in ordered => \A i \in arrived \cap ordered : i < m.id
  <2>1. ASSUME m.id \in arrived, m.id \notin zeros, ~IsUnsequenced(m)
        PROVE  FALSE
    <3>1. HasEntry(receiver, m.number)
      BY <1>8, <1>13, <2>1 DEF EntriesArrived
    <3>2. m.number <= Newest(receiver)
      BY <1>1, <1>5, <3>1, EntryKnown
    <3> QED
      BY <1>1, <1>2, <1>13, <2>1, <3>1, <3>2
  <2>2. ASSUME m.id \in ordered
        PROVE  \A i \in arrived \cap ordered : i < m.id
    <3>1. IsInOrder(m)
      BY <2>2 DEF Orders
    <3>2. m.number > Newest(receiver)
      BY <1>2, <1>13, <3>1 DEF IsInOrder
    <3> QED
      BY <1>11, <3>1, <3>2 DEF OrderAhead
  <2> QED
    BY <2>1, <2>2
<1> QED
  <2>1. Recorded(used, n, zeros, ordered, after, came)
    BY <1>7, <1>10, <1>12 DEF Recorded
  <2>2. Passes(receiver, m) => MayCome(m, zeros, ordered, arrived)
    BY <1>13 DEF MayCome
  <2> QED
    BY <1>2, <1>6, <2>1, <2>2 DEF after, came

-----------------------------------------------------------------------------
\* The numbers of the messages in use are close to the newest one received.
LEMMA UsedInReach ==
    ASSUME IInv, NumbersInWindow, NEW e \in Ends
    PROVE  /\ Consistent(Used(e), numbered[e], zeroed[e]) /\ numbered[e] \in Nat
           /\ \A m \in Used(e) : Within(rx[Other(e)], m.number)
           /\ Near(Used(e)) /\ Orders(Used(e), InOrder(e))
<1> DEFINE N == Newest(rx[Other(e)])
<1>1. /\ Direction(e) /\ Consistent(Used(e), numbered[e], zeroed[e]) /\ numbered[e] \in Nat
      /\ rx[Other(e)] \in Receivers /\ script \in Scripts /\ Exchanged \in Nat
  BY LinkAssumption DEF IInv, Direction, Numbering, SendSide, ReceiveSide, Shape
<1>2. N \in Nat
  BY <1>1, NewestType
<1>3. \A m \in Used(e) : m.number \in Exchanged + 1 .. numbered[e]
  BY <1>1 DEF Consistent, Spelled
<1>4. \A m \in Used(e) : m.number \in InUse(e)
  BY DEF Used, Waiting, Carried, InUse
<1>5. numbered[e] < Rounds * Modulus /\ \A k \in InUse(e) : N - Half < k /\ k < N + Half
  BY DEF NumbersInWindow
<1>6. Rounds * Modulus \in Int
  BY ModulusType, SequenceAssumption
<1> HIDE DEF N
<1>7. \A m \in Used(e) : /\ m.number \in Nat /\ m.number < Rounds * Modulus
                         /\ N - Half < m.number /\ m.number < N + Half
  BY <1>1, <1>3, <1>4, <1>5, <1>6
<1>8. Near(Used(e))
  BY <1>2, <1>7, ModulusType DEF Near
<1>9. Orders(Used(e), InOrder(e))
  <2> SUFFICES ASSUME NEW m \in Used(e)
               PROVE  m.id # 0 /\ IsInOrder(m) <=> m.id \in InOrder(e)
    BY DEF Orders
  <2>1. /\ Len(script[e]) \in Nat /\ accepted[e] \in 0 .. Len(script[e])
        /\ m \in MailOf(e) /\ m.id \in 0 .. accepted[e]
    BY <1>1, IDsAccepted, ScriptType DEF Direction, SendSide
  <2>2. m.id # 0 => m.flags = script[e][m.id].flags /\ m.id \in 1 .. Len(script[e])
    BY <2>1 DEF MailOf, Mail
  <2>3. m.id # 0 => (IsInOrder(m) <=> IsInOrder(GameMessage(e, m.id)))
    BY <2>2 DEF IsInOrder, IsOrderedOnly, IsUnsequenced, IsReliable, GameMessage
  <2> QED
    BY <2>2, <2>3 DEF InOrder
<1> QED
  BY <1>1, <1>7, <1>8, <1>9 DEF Within, N

\* No two messages wait for an acknowledgement under the same sequence, as long
\* as the numbers in use stay in the window.
THEOREM WaitingStayDistinct ==
    Counting => (Spec /\ []NumbersInWindow => []SequencesDistinct)
<1> SUFFICES ASSUME Counting PROVE Spec /\ []NumbersInWindow => []SequencesDistinct
  OBVIOUS
<1>1. Spec => []IInv
  BY NumbersStayConsistent
<1>2. IInv /\ NumbersInWindow => SequencesDistinct
  <2> SUFFICES ASSUME IInv, NumbersInWindow, NEW e \in Ends, NEW m \in Waiting(e), NEW n \in Waiting(e),
                      m.m_sequence = n.m_sequence
               PROVE  m = n
    BY DEF SequencesDistinct, Waiting
  <2>1. m \in Used(e) /\ n \in Used(e)
    BY DEF Used
  <2>2. /\ m.m_sequence = Wrap(m.number) /\ n.m_sequence = Wrap(n.number)
        /\ m.number = n.number => m = n
        /\ m.number < n.number + Modulus /\ n.number < m.number + Modulus
        /\ m.number \in Nat /\ n.number \in Nat
    BY <2>1, UsedInReach DEF Consistent, Spelled, Near, Within
  <2> QED
    BY <2>2, NearEqual
<1> QED
  BY <1>1, <1>2, PTL

-----------------------------------------------------------------------------
LEMMA ToSetConcat ==
    ASSUME NEW M, NEW a \in Seq(M), NEW b \in Seq(M)
    PROVE  ToSet(a \o b) = ToSet(a) \cup ToSet(b)
<1>1. /\ a \o b \in Seq(M) /\ Len(a \o b) = Len(a) + Len(b)
      /\ Len(a) \in Nat /\ Len(b) \in Nat
      /\ \A k \in 1 .. Len(a) + Len(b) : (a \o b)[k] = IF k <= Len(a) THEN a[k] ELSE b[k - Len(a)]
  BY ConcatProperties, LenProperties
<1> DEFINE c == a \o b
           n == Len(a)
           p == Len(b)
<1>2. /\ ToSet(a) = {a[j] : j \in 1 .. n} /\ ToSet(b) = {b[j] : j \in 1 .. p}
      /\ ToSet(c) = {c[j] : j \in 1 .. n + p}
  BY <1>1, ToSetType
<1> HIDE DEF c
<1>3. /\ \A j \in 1 .. n : j \in 1 .. n + p /\ c[j] = a[j]
      /\ \A j \in 1 .. p : n + j \in 1 .. n + p /\ c[n + j] = b[j]
  BY <1>1 DEF c
<1>4. \A k \in 1 .. n + p : k \in 1 .. n \/ (k - n \in 1 .. p /\ n + (k - n) = k)
  BY <1>1
<1>5. ToSet(c) \subseteq ToSet(a) \cup ToSet(b)
  <2>1. SUFFICES ASSUME NEW k \in 1 .. n + p PROVE c[k] \in ToSet(a) \cup ToSet(b)
    BY <1>2
  <2>2. CASE k \in 1 .. n
    BY <1>2, <1>3, <2>2
  <2>3. CASE k - n \in 1 .. p /\ n + (k - n) = k
    <3>1. c[k] = b[k - n]
      BY <1>3, <2>3
    <3> QED
      BY <1>2, <2>3, <3>1
  <2> QED
    BY <1>4, <2>2, <2>3
<1>6. ToSet(a) \subseteq ToSet(c) /\ ToSet(b) \subseteq ToSet(c)
  BY <1>2, <1>3
<1> QED
  BY <1>5, <1>6 DEF c

\* What arrived, as a set and in type; it grows at the end.
LEMMA ArrivedType ==
    ASSUME NEW e \in Ends, Direction(e)
    PROVE  /\ Arrived(Other(e)) \in Seq(Nat)
           /\ Came(e) = Has(e) \ {0}
<1> DEFINE o == Other(e)
           ids == GameIDs(held[o])
<1>1. /\ held[o] \in Seq(MailOf(e)) /\ processed[o] \in Seq(1 .. accepted[e]) /\ accepted[e] \in Nat
      /\ \A m \in MailOf(e) : m.id \in Nat
  BY IDsAccepted DEF Direction, ReceiveSide
<1>2. ids \in Seq(Nat) /\ ToSet(ids) = IDs(ToSet(held[o])) \ {0}
  BY <1>1, GameIDsType
<1>3. processed[o] \in Seq(Nat) /\ ToSet(processed[o]) \subseteq 1 .. accepted[e]
  <2> DEFINE read == processed[o]
             places == 1 .. accepted[e]
  <2>1. places \subseteq Nat /\ read \in Seq(places)
    BY <1>1
  <2> HIDE DEF read, places
  <2>2. read \in Seq(Nat)
    BY <2>1, SeqMonotonic
  <2>3. ToSet(read) \subseteq places
    BY <2>1, ToSetType
  <2> QED
    BY <2>2, <2>3 DEF read, places
<1> HIDE DEF ids
<1>4. processed[o] \o ids \in Seq(Nat) /\ ToSet(processed[o] \o ids) = ToSet(processed[o]) \cup ToSet(ids)
  BY <1>2, <1>3, ConcatProperties, ToSetConcat
<1>5. Arrived(o) = processed[o] \o ids
  BY DEF Arrived, ids
<1>6. 0 \notin ToSet(processed[o])
  BY <1>1, <1>3
<1> QED
  BY <1>2, <1>4, <1>5, <1>6 DEF Came, Has

-----------------------------------------------------------------------------
\* What is known stays true when messages are no longer used, when more numbers
\* are given, and of messages that are numbered after all that were received.
LEMMA RecordedKept ==
    ASSUME NEW used, NEW n \in Nat, NEW zeros, NEW ordered, NEW receiver, NEW arrived,
           Recorded(used, n, zeros, ordered, receiver, arrived),
           NEW k \in Nat, n <= k, NEW others, zeros \subseteq others,
           NEW next,
           \A m \in next : \/ m \in used
                           \/ /\ m.number \in Nat /\ m.number > Newest(receiver)
                              /\ m.id # 0 => m.id \notin arrived \/ m.id \in others
                              /\ IsInOrder(m) => \A i \in arrived \cap ordered : i < m.id
    PROVE  Recorded(next, k, others, ordered, receiver, arrived)
<1>1. EntriesKnown(receiver, n) /\ Exchanged \in Nat
  BY LinkAssumption DEF Recorded
<1>2. EntriesKnown(receiver, k)
  BY <1>1 DEF EntriesKnown
<1>3. ASSUME NEW m \in next, m \notin used
      PROVE  m.number \in Nat /\ ~HasEntry(receiver, m.number)
  <2>1. m.number \in Nat /\ m.number > Newest(receiver)
    BY <1>3
  <2>2. Newest(receiver) \in Nat
    BY <1>1 DEF EntriesKnown
  <2> QED
    BY <1>1, <2>1, <2>2, EntryKnown
<1>4. EntriesArrived(next, others, receiver, arrived)
  <2> SUFFICES ASSUME NEW m \in next, m.id # 0
               PROVE  /\ HasEntry(receiver, m.number) => m.id \in arrived
                      /\ m.id \in arrived /\ ~IsUnsequenced(m) /\ m.id \notin others
                            => HasEntry(receiver, m.number)
    BY DEF EntriesArrived
  <2>1. CASE m \in used
    BY <2>1 DEF Recorded, EntriesArrived
  <2>2. CASE m \notin used
    BY <1>3, <2>2
  <2> QED
    BY <2>1, <2>2
<1>5. OrderAhead(next, ordered, receiver, arrived)
  BY DEF Recorded, OrderAhead
<1> QED
  BY <1>2, <1>4, <1>5 DEF Recorded

LEMMA AcksKept ==
    ASSUME NEW packets, NEW waiting, NEW receiver, NEW arrived,
           AcksArrived(packets, waiting, receiver, arrived),
           NEW fewer, fewer \subseteq packets, NEW later, Newest(receiver) \in Nat,
           Newest(later) \in Nat, Newest(receiver) <= Newest(later),
           NEW more, arrived \subseteq more,
           NEW next, \A m \in next : m \in waiting \/ (m.number \in Nat /\ m.number > Newest(receiver)),
           \A packet \in packets : packet.m_ackbits \subseteq Nat
    PROVE  AcksArrived(fewer, next, later, more)
<1> SUFFICES ASSUME NEW packet \in fewer
             PROVE  /\ packet.newest \in Exchanged .. Newest(later)
                    /\ packet.m_ackseq = Wrap(packet.newest)
                    /\ \A m \in next : m.number \in AckedNumbers(packet) => m.id \in more
  BY DEF AcksArrived
<1>1. /\ packet.newest \in Exchanged .. Newest(receiver) /\ packet.m_ackseq = Wrap(packet.newest)
      /\ \A m \in waiting : m.number \in AckedNumbers(packet) => m.id \in arrived
      /\ packet.m_ackbits \subseteq Nat /\ Exchanged \in Nat
  BY LinkAssumption DEF AcksArrived
<1>2. \A k \in AckedNumbers(packet) : k <= Newest(receiver)
  BY <1>1 DEF AckedNumbers
<1>3. \A m \in next : m.number \in AckedNumbers(packet) => m \in waiting
  BY <1>2
<1> QED
  BY <1>1, <1>3

\* The next two: what is known of the messages of e when the other end receives
\* nothing.
LEMMA PacketBits ==
    ASSUME NEW e \in Ends, Direction(Other(e))
    PROVE  /\ \A packet \in ToSet(net[e]) : packet.m_ackbits \subseteq Nat
           /\ net[e] \in Seq(Datagrams(MailOf(Other(e))))
<1>1. net[e] \in Seq(Datagrams(MailOf(Other(e))))
  BY OtherEnd DEF Direction, ReceiveSide
<1>2. \A packet \in ToSet(net[e]) : packet \in Datagrams(MailOf(Other(e)))
  BY <1>1, ToSetType
<1> QED
  BY <1>1, <1>2, SequenceAssumption DEF Datagrams

LEMMA KnownKept ==
    ASSUME NEW e \in Ends, Direction(e), Direction(Other(e)), Known(e), script' = script,
           numbered'[e] = numbered[e], zeroed'[e] = zeroed[e],
           rx'[Other(e)] = rx[Other(e)], Came(e)' = Came(e),
           Waiting(e)' \subseteq Waiting(e), Carried(e)' \subseteq Carried(e),
           ToSet(net'[e]) \subseteq ToSet(net[e])
    PROVE  Known(e)'
<1>1. numbered[e] \in Nat /\ Newest(rx[Other(e)]) \in Nat
  BY NewestType DEF Direction, SendSide, ReceiveSide
<1>2. InOrder(e)' = InOrder(e)
  BY DEF InOrder, GameMessage
<1>3. Used(e)' \subseteq Used(e)
  BY DEF Used
<1>4. \A packet \in ToSet(net[e]) : packet.m_ackbits \subseteq Nat
  BY PacketBits
<1>5. Recorded(Used(e), numbered[e], zeroed[e], InOrder(e), rx[Other(e)], Came(e))
  BY DEF Known
<1>6. Recorded(Used(e)', numbered[e], zeroed[e], InOrder(e), rx[Other(e)], Came(e))
  <2> DEFINE next == Used(e)'
  <2>1. \A m \in next : m \in Used(e)
    BY <1>3
  <2> HIDE DEF next
  <2>2. Recorded(next, numbered[e], zeroed[e], InOrder(e), rx[Other(e)], Came(e))
    BY <1>1, <1>5, <2>1, RecordedKept
  <2> QED
    BY <2>2 DEF next
<1>7. AcksArrived(ToSet(net'[e]), Waiting(e)', rx[Other(e)], Came(e))
  <2> DEFINE next == Waiting(e)'
             fewer == ToSet(net'[e])
  <2>1. (\A m \in next : m \in Waiting(e)) /\ fewer \subseteq ToSet(net[e])
    OBVIOUS
  <2>2. AcksArrived(ToSet(net[e]), Waiting(e), rx[Other(e)], Came(e))
    BY DEF Known
  <2> HIDE DEF next, fewer
  <2>3. AcksArrived(fewer, next, rx[Other(e)], Came(e))
    BY <1>1, <1>4, <2>1, <2>2, AcksKept
  <2> QED
    BY <2>3 DEF next, fewer
<1> QED
  BY <1>2, <1>6, <1>7 DEF Known

-----------------------------------------------------------------------------
\* The messages of a packet that are not in use yet are numbered after all that
\* were received, and are new to the other end.
LEMMA SentIsNew ==
    ASSUME NEW e \in Ends, Direction(e), Known(e), NEW m \in SentMessages(e)
    PROVE  \/ m \in Waiting(e)
           \/ /\ m.number \in Nat /\ m.number > Newest(rx[Other(e)])
              /\ m.id # 0 => m.id \notin Came(e) \/ m.id \in zeroed[e]
              /\ IsInOrder(m) => \A i \in Came(e) \cap InOrder(e) : i < m.id
<1>1. PICK i \in 1 .. Sending(e) : m = Numbered(e, i)
  BY DEF SentMessages
<1>2. /\ NumberedAfter(e) \in Nat
      /\ m \in MailOf(e) /\ m.id = Base(e, i).id /\ m.flags = Base(e, i).flags
      /\ Spelled(m, NumberedAfter(e))
      /\ Base(e, i).m_sequence # 0 => m \in Waiting(e)
      /\ Base(e, i).m_sequence = 0 => m.number > numbered[e]
  BY <1>1, NumberedEffect
<1>3. CASE Base(e, i).m_sequence # 0
  BY <1>2, <1>3
<1>4. CASE Base(e, i).m_sequence = 0
  <2>1. m.number \in Nat
    BY <1>2, LinkAssumption DEF Spelled
  <2>2. m.number > Newest(rx[Other(e)])
    <3>1. Newest(rx[Other(e)]) \in Exchanged .. numbered[e] /\ numbered[e] \in Nat
      BY DEF Known, Recorded, EntriesKnown, Direction, SendSide
    <3> QED
      BY <1>2, <1>4, <2>1, <3>1, LinkAssumption
  <2>3. Came(e) = Has(e) \ {0} /\ IDs(Used(e)) \cup Has(e) \subseteq 0 .. accepted[e] /\ accepted[e] \in Nat
    BY ArrivedType, IDsAccepted
  <2>4. CASE i > Retransmitted(e)
    <3>1. /\ IsOrderedOnly(m) => m.id # 0
          /\ m.id # 0 => \A k \in Has(e) : k < m.id
      BY <1>2, <2>4, PendingBehind DEF IsOrderedOnly, IsReliable
    <3>2. m.id \in Nat
      BY <1>2, IDsAccepted
    <3>3. m.id # 0 => m.id \notin Came(e)
      BY <2>3, <3>1, <3>2
    <3>4. IsInOrder(m) => \A k \in Came(e) \cap InOrder(e) : k < m.id
      BY <2>3, <3>1 DEF IsInOrder
    <3> QED
      BY <2>1, <2>2, <3>3, <3>4
  <2>5. CASE ~(i > Retransmitted(e))
    <3>1. Base(e, i) \in Waiting(e)
      BY <2>5, BaseType
    <3>2. Base(e, i).id \in zeroed[e] /\ IsReliable(Base(e, i))
      BY <1>4, <3>1 DEF Direction, Numbering, Consistent, Used, SendSide
    <3>3. m.id \in zeroed[e] /\ ~IsInOrder(m)
      BY <1>2, <3>2 DEF IsInOrder, IsOrderedOnly, IsReliable
    <3> QED
      BY <2>1, <2>2, <3>3
  <2> QED
    BY <2>4, <2>5
<1> QED
  BY <1>3, <1>4

\* Peer::send, for the messages of the end that sends.
LEMMA SendKnown ==
    ASSUME Counting, IInv, WindowInv, NEW e \in Ends, NEW arrives, SendPacket(e, arrives)
    PROVE  Known(e)'
<1> DEFINE o == Other(e)
<1>1. /\ o \in Ends /\ o # e /\ Shape /\ Direction(e) /\ Direction(o) /\ Known(e)
      /\ rx[e] \in Receivers
  BY OtherEnd DEF IInv, WindowInv, Direction, ReceiveSide
<1>2. /\ UNCHANGED <<script, rx, held, processed>>
      /\ numbered'[e] = NumberedAfter(e) /\ zeroed'[e] = ZeroedAfter(e) /\ net'[e] = net[e]
  BY <1>1, SendPacketEffect
<1>3. /\ Waiting(e)' \subseteq Waiting(e) \cup SentMessages(e)
      /\ Used(e)' \subseteq Used(e) \cup SentMessages(e)
  BY <1>1, SendUses DEF Used
<1>4. numbered[e] \in Nat /\ NumberedAfter(e) \in Nat /\ numbered[e] <= NumberedAfter(e)
  BY <1>1, NumberedAfterType
<1>5. Newest(rx[o]) \in Nat
  BY <1>1, NewestType DEF Direction, ReceiveSide
<1>6. InOrder(e)' = InOrder(e) /\ Came(e)' = Came(e)
  BY <1>2 DEF InOrder, GameMessage, Came, Arrived, GameIDs
<1> DEFINE next == Used(e)'
           later == ZeroedAfter(e)
           waiting == Waiting(e)'
           many == NumberedAfter(e)
<1>7. \A m \in next : \/ m \in Used(e)
                      \/ /\ m.number \in Nat /\ m.number > Newest(rx[o])
                         /\ m.id # 0 => m.id \notin Came(e) \/ m.id \in later
                         /\ IsInOrder(m) => \A i \in Came(e) \cap InOrder(e) : i < m.id
  BY <1>1, <1>3, SentIsNew DEF ZeroedAfter, Used
<1>8. \A m \in waiting : m \in Waiting(e) \/ (m.number \in Nat /\ m.number > Newest(rx[o]))
  BY <1>1, <1>3, SentIsNew
<1>9. zeroed[e] \subseteq later
  BY DEF ZeroedAfter
<1>10. \A packet \in ToSet(net[e]) : packet.m_ackbits \subseteq Nat
  BY <1>1, PacketBits
<1>11. /\ Recorded(Used(e), numbered[e], zeroed[e], InOrder(e), rx[o], Came(e))
       /\ AcksArrived(ToSet(net[e]), Waiting(e), rx[o], Came(e))
  BY <1>1 DEF Known
<1> HIDE DEF next, waiting, later, many, o
<1>12. Recorded(next, many, later, InOrder(e), rx[o], Came(e))
  BY <1>4, <1>7, <1>9, <1>11, RecordedKept DEF many
<1>13. AcksArrived(ToSet(net[e]), waiting, rx[o], Came(e))
  BY <1>5, <1>8, <1>10, <1>11, AcksKept
<1> QED
  BY <1>2, <1>6, <1>12, <1>13 DEF Known, next, waiting, later, many, o

\* A new packet acknowledges what has arrived.
LEMMA SentAcks ==
    ASSUME NEW e \in Ends, Direction(e), Direction(Other(e)), Known(Other(e)), rx[e] \in Receivers
    PROVE  LET packet == Sent(e)
           IN  /\ packet.newest \in Exchanged .. Newest(rx[e])
               /\ packet.m_ackseq = Wrap(packet.newest)
               /\ \A m \in Waiting(Other(e)) : m.number \in AckedNumbers(packet) => m.id \in Came(Other(e))
<1> DEFINE o == Other(e)
           receiver == rx[e]
           N == Newest(receiver)
           packet == Sent(e)
<1>1. o \in Ends /\ Other(o) = e
  BY OtherEnd
<1>2. packet.m_ackseq = receiver.m_sequenceIn /\ packet.m_ackbits = GetAckBits(receiver) /\ packet.newest = N
  <2> DEFINE messages == Sent(e).messages
  <2>1. packet = [m_ackseq |-> receiver.m_sequenceIn, m_ackbits |-> GetAckBits(receiver),
                  newest |-> N, messages |-> messages]
    BY StampedEffect
  <2> HIDE DEF messages, packet, receiver, N
  <2> QED
    BY <2>1
<1>3. EntriesKnown(receiver, numbered[o]) /\ EntriesArrived(Used(o), zeroed[o], receiver, Came(o))
  BY <1>1 DEF Known, Recorded
<1>4. /\ N \in Nat /\ Exchanged \in Nat /\ N \in Exchanged .. N
      /\ receiver.m_sequenceIn = Wrap(N)
  <2>1. N \in Nat /\ Exchanged \in Nat
    BY NewestType, LinkAssumption
  <2>2. N >= Exchanged
    BY <1>3 DEF EntriesKnown, Direction, SendSide
  <2>3. receiver.m_sequenceIn \in Sequences16 /\ receiver.m_sequenceRound \in Int
    BY DEF Receivers
  <2>4. N = NumberOf(receiver.m_sequenceRound, receiver.m_sequenceIn)
    BY DEF Newest
  <2> HIDE DEF N, receiver
  <2> QED
    BY <2>1, <2>2, <2>3, <2>4, SpellingUnique
<1> HIDE DEF N
<1>5. ASSUME NEW m \in Waiting(o), m.number \in AckedNumbers(packet)
      PROVE  m.id \in Came(o)
  <2>1. /\ m \in Used(o) /\ m.id # 0 /\ m.number \in Nat /\ m.number > Exchanged
    <3>1. m \in Used(o) /\ IsReliable(m)
      BY <1>1 DEF Used, Direction, SendSide
    <3>2. m \in MailOf(o)
      BY <1>1, <3>1, IDsAccepted
    <3>3. m.number \in Exchanged + 1 .. numbered[o] /\ numbered[o] \in Nat
      BY <1>1, <3>1 DEF Direction, Numbering, Consistent, Spelled, SendSide
    <3> QED
      BY <1>4, <3>1, <3>2, <3>3 DEF MailOf, Mail, IsReliable
  <2>2. HasEntry(receiver, m.number)
    <3>1. CASE m.number = N
      <4>1. N > Exchanged
        BY <2>1, <3>1
      <4> QED
        BY <1>3, <3>1, <4>1 DEF EntriesKnown, N
    <3>2. CASE m.number # N
      <4>1. PICK i \in GetAckBits(receiver) : m.number = N - 1 - i
        BY <1>2, <1>5, <3>2 DEF AckedNumbers
      <4> DEFINE s == AckSequence(receiver, i)
                 round == AckRound(receiver, i)
      <4>2. /\ i \in 0 .. AckBits - 1
            /\ s \in DOMAIN receiver.m_seqtrackReceived
            /\ receiver.m_seqtrackReceived[s] = round
        BY AckBitsUnfolded
      <4>3. /\ s \in Sequences16 /\ round \in Int
            /\ receiver.m_sequenceIn # 0 /\ N - 1 - i >= 0 => NumberOf(round, s) = N - 1 - i
            /\ receiver.m_sequenceIn = 0 \/ N - 1 - i < 0 => NumberOf(round, s) > N
        <5> HIDE DEF receiver
        <5> QED
          BY <4>2, AckSpelling DEF N, receiver
      <4> HIDE DEF s, round
      <4>4. NumberOf(round, s) <= N
        BY <1>3, <4>2 DEF EntriesKnown, N
      <4>5. N - 1 - i >= 0 /\ NumberOf(round, s) \in Int
        BY <2>1, <4>1, <4>3, ModulusType DEF NumberOf, Sequences16
      <4>6. ~(NumberOf(round, s) > N)
        BY <1>4, <4>4, <4>5
      <4>7. NumberOf(round, s) = m.number
        BY <4>1, <4>3, <4>5, <4>6
      <4>8. Wrap(m.number) = s /\ m.number \div Modulus = round
        BY <2>1, <4>3, <4>7, SpellingUnique
      <4> QED
        BY <4>2, <4>8 DEF HasEntry
    <3> QED
      BY <3>1, <3>2
  <2> QED
    BY <1>3, <2>1, <2>2 DEF EntriesArrived
<1>6. packet.newest \in Exchanged .. N /\ packet.m_ackseq = Wrap(packet.newest)
  <2> HIDE DEF packet, receiver
  <2> QED
    BY <1>2, <1>4
<1> QED
  <2> HIDE DEF packet
  <2> QED
    BY <1>5, <1>6 DEF N, packet

\* Peer::send, for the messages of the other end.
LEMMA SendOtherKnown ==
    ASSUME Counting, IInv, WindowInv, NEW e \in Ends, NEW arrives, SendPacket(e, arrives)
    PROVE  Known(Other(e))'
<1> DEFINE o == Other(e)
<1>1. /\ o \in Ends /\ o # e /\ Other(o) = e
      /\ Shape /\ Direction(e) /\ Direction(o) /\ Known(o) /\ rx[e] \in Receivers
  BY OtherEnd DEF IInv, WindowInv, Direction, ReceiveSide
<1>2. /\ UNCHANGED <<script, rx, held, processed>>
      /\ tx'[o] = tx[o] /\ numbered'[o] = numbered[o] /\ zeroed'[o] = zeroed[o]
      /\ net'[e] = net[e]
      /\ ToSet(net'[o]) \subseteq ToSet(net[o]) \cup {Sent(e)}
  BY <1>1, SendPacketEffect, SendUses
<1>3. /\ InOrder(o)' = InOrder(o) /\ Came(o)' = Came(o)
      /\ Waiting(o)' = Waiting(o) /\ Used(o)' = Used(o)
  BY <1>1, <1>2 DEF InOrder, GameMessage, Came, Arrived, GameIDs, Waiting, Carried, Used
<1>4. AcksArrived(ToSet(net[o]), Waiting(o), rx[e], Came(o))
  BY <1>1 DEF Known
<1>5. AcksArrived(ToSet(net'[o]), Waiting(o), rx[e], Came(o))
  <2>1. /\ Sent(e).newest \in Exchanged .. Newest(rx[e])
        /\ Sent(e).m_ackseq = Wrap(Sent(e).newest)
        /\ \A m \in Waiting(o) : m.number \in AckedNumbers(Sent(e)) => m.id \in Came(o)
    BY <1>1, SentAcks
  <2> HIDE DEF o
  <2> QED
    BY <1>2, <1>4, <2>1 DEF AcksArrived
<1> QED
  BY <1>1, <1>2, <1>3, <1>5 DEF Known

-----------------------------------------------------------------------------
\* A message of e may arrive behind these.
Welcome(e, before, i) ==
    /\ i \in 1 .. accepted[e]
    /\ i \in before => i \in zeroed[e] \/ IsUnsequenced(GameMessage(e, i))
    /\ i \in InOrder(e) => \A j \in before \cap InOrder(e) : j < i

\* Only messages of e that may arrive came behind the old ones.
Grown(e, old, new) ==
    /\ old \in Seq(Nat) /\ new \in Seq(Nat) /\ Len(old) <= Len(new)
    /\ \A j \in 1 .. Len(old) : new[j] = old[j]
    /\ \A j \in Len(old) + 1 .. Len(new) : Welcome(e, {new[k] : k \in 1 .. j - 1}, new[j])

\* What the loop of Peer::parseBuffer keeps besides: what has arrived grows, and
\* what the receive side knows stays true.
CameIn(s) == s.processed \o GameIDs(s.held)

RecordedSoFar(s, k, x) ==
    LET d == Other(x.e)
    IN  /\ ParsedSoFar(s, k, x)
        /\ Recorded(Used(d), numbered[d], zeroed[d], InOrder(d), s.rx, ToSet(CameIn(s)))
        /\ Newest(s.rx) >= Newest(x.start.rx)
        /\ Len(s.processed) >= Len(x.start.processed)
        /\ Newest(s.rx) \in {Newest(x.start.rx)} \cup {x.messages[j].number : j \in 1 .. k}
        /\ Grown(d, CameIn(x.start), CameIn(s))

Recording == INSTANCE Loops WITH Step <- ParseNext, Holds <- RecordedSoFar

LEMMA GrownOne ==
    ASSUME NEW e, NEW old, NEW new, Grown(e, old, new), NEW i \in Nat, Welcome(e, ToSet(new), i)
    PROVE  Grown(e, old, Append(new, i))
<1> DEFINE more == Append(new, i)
           n == Len(new)
<1>1. /\ old \in Seq(Nat) /\ new \in Seq(Nat) /\ Len(old) \in Nat /\ n \in Nat /\ Len(old) <= n
      /\ ToSet(new) = {new[j] : j \in 1 .. n}
  BY LenProperties, ToSetType DEF Grown
<1>2. /\ more \in Seq(Nat) /\ Len(more) = n + 1 /\ more[n + 1] = i
      /\ \A j \in 1 .. n : more[j] = new[j]
  BY <1>1, AppendProperties
<1> HIDE DEF more, n
<1>3. \A j \in 1 .. Len(old) : more[j] = old[j]
  BY <1>1, <1>2 DEF Grown, n
<1>4. ASSUME NEW j \in Len(old) + 1 .. n + 1
      PROVE  Welcome(e, {more[k] : k \in 1 .. j - 1}, more[j])
  <2>1. CASE j = n + 1
    <3>1. j - 1 = n
      BY <1>1, <2>1
    <3>2. {more[k] : k \in 1 .. n} = ToSet(new)
      BY <1>1, <1>2
    <3> QED
      BY <1>2, <2>1, <3>1, <3>2
  <2>2. CASE j # n + 1
    <3>1. j \in Len(old) + 1 .. n /\ j \in 1 .. n /\ \A k \in 1 .. j - 1 : k \in 1 .. n
      BY <1>1, <2>2
    <3>2. {more[k] : k \in 1 .. j - 1} = {new[k] : k \in 1 .. j - 1} /\ more[j] = new[j]
      BY <1>2, <3>1
    <3>3. Welcome(e, {new[k] : k \in 1 .. j - 1}, new[j])
      BY <3>1 DEF Grown, n
    <3> QED
      BY <3>2, <3>3
  <2> QED
    BY <2>1, <2>2
<1>5. Len(old) <= Len(more)
  BY <1>1, <1>2
<1> QED
  BY <1>1, <1>2, <1>3, <1>4, <1>5 DEF Grown, more

LEMMA GrownNone ==
    ASSUME NEW e, NEW old \in Seq(Nat)
    PROVE  Grown(e, old, old)
<1>1. Len(old) \in Nat /\ Len(old) + 1 .. Len(old) = {}
  BY LenProperties
<1> QED
  BY <1>1 DEF Grown

LEMMA GameIDsAppend ==
    ASSUME NEW M, \A m \in M : m.id \in Nat, NEW messages \in Seq(M), NEW m \in M
    PROVE  GameIDs(Append(messages, m))
                = IF m.id # 0 THEN Append(GameIDs(messages), m.id) ELSE GameIDs(messages)
<1> DEFINE ids == GameIDs(messages)
           one == <<m>>
<1>1. one \in Seq(M) /\ Append(messages, m) = messages \o one
  BY AppendIsConcat
<1>2. GameIDs(one) = IF m.id # 0 THEN <<m.id>> ELSE <<>>
  BY GameIDsOne
<1>3. ids \in Seq(Nat) /\ m.id \in Nat
  BY GameIDsType
<1> HIDE DEF ids, one
<1>4. GameIDs(Append(messages, m)) = ids \o GameIDs(one)
  BY <1>1, GameIDsJoined DEF ids
<1>5. ids \o <<>> = ids /\ ids \o <<m.id>> = Append(ids, m.id)
  BY <1>3, ConcatEmptySeq, AppendIsConcat
<1> QED
  BY <1>2, <1>4, <1>5 DEF ids

\* What has arrived after one turn of the loop.
LEMMA CameInAfter ==
    ASSUME NEW M, \A m \in M : m.id \in Nat, NEW s, NEW after, NEW m \in M,
           s.held \in Seq(M), s.processed \in Seq(Nat),
           \/ ~Passes(s.rx, m) /\ after.held = s.held /\ after.processed = s.processed
           \/ Passes(s.rx, m) /\ after.held = Append(s.held, m) /\ after.processed = s.processed
           \/ /\ Passes(s.rx, m) /\ m.id # 0 /\ s.held = <<>>
              /\ after.held = s.held /\ after.processed = Append(s.processed, m.id)
           \/ /\ Passes(s.rx, m) /\ m.id = 0 /\ s.held = <<>>
              /\ after.held = s.held /\ after.processed = s.processed
    PROVE  /\ CameIn(s) \in Seq(Nat)
           /\ Passes(s.rx, m) /\ m.id # 0 => CameIn(after) = Append(CameIn(s), m.id)
           /\ ~Passes(s.rx, m) \/ m.id = 0 => CameIn(after) = CameIn(s)
<1> DEFINE ids == GameIDs(s.held)
           read == s.processed
           i == m.id
<1>1. ids \in Seq(Nat) /\ read \in Seq(Nat) /\ i \in Nat
  BY GameIDsType
<1>2. CameIn(s) = read \o ids /\ CameIn(after) = after.processed \o GameIDs(after.held)
  BY DEF CameIn
<1>3. \/ ~Passes(s.rx, m) /\ after.held = s.held /\ after.processed = read
      \/ Passes(s.rx, m) /\ after.held = Append(s.held, m) /\ after.processed = read
      \/ /\ Passes(s.rx, m) /\ i # 0 /\ s.held = <<>>
         /\ after.held = s.held /\ after.processed = Append(read, i)
      \/ /\ Passes(s.rx, m) /\ i = 0 /\ s.held = <<>>
         /\ after.held = s.held /\ after.processed = read
  OBVIOUS
<1>4. GameIDs(Append(s.held, m)) = IF i # 0 THEN Append(ids, i) ELSE ids
  BY GameIDsAppend
<1>5. s.held = <<>> => ids = <<>>
  BY GameIDsEmpty
<1> HIDE DEF ids, read, i
<1>6. read \o Append(ids, i) = Append(read \o ids, i)
  BY <1>1, AppendBehind
<1>7. Append(read, i) \in Seq(Nat)
  BY <1>1, AppendProperties
<1>8. read \o <<>> = read /\ Append(read, i) \o <<>> = Append(read, i)
  BY <1>1, <1>7, ConcatEmptySeq
<1>9. read \o ids \in Seq(Nat)
  BY <1>1, ConcatProperties
<1> DEFINE both == read \o ids
           P == Passes(s.rx, m)
<1>10. P /\ after.held = Append(s.held, m) /\ after.processed = read
            => CameIn(after) = IF i # 0 THEN Append(both, i) ELSE both
  BY <1>2, <1>4, <1>6 DEF ids
<1>11. P /\ ~(after.held = Append(s.held, m) /\ after.processed = read)
            => CameIn(after) = IF i # 0 THEN Append(both, i) ELSE both
  BY <1>2, <1>3, <1>5, <1>8 DEF ids
<1>12. ~P => CameIn(after) = both
  BY <1>2, <1>3 DEF ids
<1> HIDE DEF both, P
<1>13. CameIn(after) = IF P /\ i # 0 THEN Append(both, i) ELSE both
  BY <1>10, <1>11, <1>12
<1> QED
  BY <1>2, <1>9, <1>13 DEF both, P, i

\* The turn of the loop for one message.
LEMMA RecordTurn ==
    ASSUME IInv, NumbersInWindow, NEW e \in Ends, NEW packet \in ToSet(net[e]),
           NEW k \in 1 .. Len(packet.messages), NEW s,
           RecordedSoFar(s, k - 1, ParseInput(e, packet))
    PROVE  RecordedSoFar(ParseNext(s, k, ParseInput(e, packet)), k, ParseInput(e, packet))
<1> DEFINE x == ParseInput(e, packet)
           d == Other(e)
           m == packet.messages[k]
           after == ParseNext(s, k, x)
           delayed == e \in script.delayed
<1>1. /\ d \in Ends /\ Other(d) = e /\ script \in Scripts
      /\ Direction(e) /\ Direction(d)
  BY OtherEnd DEF IInv, Shape
<1>2. /\ x.e = e /\ x.messages = packet.messages /\ x.delayed = delayed
      /\ x.mine = MailOf(e) /\ x.theirs = MailOf(d) /\ x.count = accepted[d]
      /\ x.start.rx = rx[e] /\ x.start.held = held[e] /\ x.start.processed = processed[e]
  BY DEF ParseInput
<1>3. /\ ParsedSoFar(s, k - 1, x)
      /\ Recorded(Used(d), numbered[d], zeroed[d], InOrder(d), s.rx, ToSet(CameIn(s)))
      /\ Newest(s.rx) >= Newest(rx[e])
      /\ Len(s.processed) >= Len(processed[e])
      /\ Newest(s.rx) \in {Newest(rx[e])} \cup {packet.messages[j].number : j \in 1 .. k - 1}
      /\ Grown(d, CameIn(x.start), CameIn(s))
  <2> HIDE DEF x
  <2> QED
    BY <1>2 DEF RecordedSoFar, x
<1>4. /\ s \in ParseStates(MailOf(e), MailOf(d), accepted[d])
      /\ delayed \/ s.held = held[e]
  <2> HIDE DEF x
  <2> QED
    BY <1>2, <1>3 DEF ParsedSoFar
<1>5. ParsedSoFar(after, k, x)
  BY <1>1, <1>3, ParseKeeps
<1>6. /\ Parsed(s, m, delayed, after)
      /\ m \in ToSet(packet.messages) /\ m \in MailOf(d) /\ m.id \in 0 .. accepted[d]
  BY <1>1, <1>4, ParseTurn
<1>7. /\ Consistent(Used(d), numbered[d], zeroed[d]) /\ numbered[d] \in Nat
      /\ \A l \in Used(d) : Within(rx[e], l.number)
      /\ Near(Used(d)) /\ Orders(Used(d), InOrder(d))
  BY <1>1, UsedInReach
<1>8. /\ ToSet(packet.messages) \subseteq Used(d) /\ Ascending(packet.messages)
      /\ DOMAIN packet.messages = 1 .. Len(packet.messages)
      /\ \A j \in 1 .. Len(packet.messages) : packet.messages[j] \in ToSet(packet.messages)
  BY <1>1, PacketType DEF Used
<1>9. s.rx \in Receivers /\ s.held \in Seq(MailOf(d)) /\ s.processed \in Seq(1 .. accepted[d])
  BY <1>4 DEF ParseStates
<1>10. Len(packet.messages) \in Nat /\ rx[e] \in Receivers /\ accepted[d] \in Nat
  BY <1>1, PacketType, IDsAccepted DEF Direction, ReceiveSide
<1> HIDE DEF x, after, d, m
<1>11. Within(s.rx, m.number)
  <2>1. Within(rx[e], m.number) /\ Newest(rx[e]) \in Nat /\ Newest(s.rx) \in Nat
    BY <1>6, <1>7, <1>8, <1>9, <1>10, NewestType
  <2>2. CASE Newest(s.rx) = Newest(rx[e])
    BY <2>1, <2>2 DEF Within
  <2>3. ASSUME NEW j \in 1 .. k - 1, Newest(s.rx) = packet.messages[j].number
        PROVE  Within(s.rx, m.number)
    <3>1. j \in 1 .. Len(packet.messages) /\ j < k
      BY <1>10
    <3>2. packet.messages[j].number < m.number
      BY <1>8, <3>1 DEF Ascending, m
    <3> QED
      <4>1. m.number \in Nat /\ m.number < Newest(rx[e]) + Half /\ m.number < Rounds * Modulus
        BY <2>1 DEF Within
      <4>2. Newest(s.rx) \in Nat /\ Newest(s.rx) >= Newest(rx[e]) /\ Newest(s.rx) < m.number
        BY <1>3, <2>1, <2>3, <3>2
      <4>3. Newest(rx[e]) \in Nat /\ Half \in Nat /\ Half > 0
        BY <2>1, ModulusType, SequenceAssumption
      <4>4. Newest(s.rx) - Half < m.number /\ m.number < Newest(s.rx) + Half
        <5> DEFINE new == Newest(s.rx)
                   old == Newest(rx[e])
                   number == m.number
        <5>1. new \in Nat /\ old \in Nat /\ number \in Nat /\ new >= old /\ new < number /\ number < old + Half
          BY <4>1, <4>2, <4>3
        <5> HIDE DEF new, old, number
        <5>2. new - Half < number /\ number < new + Half
          BY <4>3, <5>1
        <5> QED
          BY <5>2 DEF new, number
      <4> QED
        BY <4>1, <4>4 DEF Within
  <2> QED
    BY <1>3, <2>2, <2>3
<1> DEFINE came == ToSet(CameIn(s))
<1>12. /\ CameIn(s) \in Seq(Nat)
       /\ Passes(s.rx, m) /\ m.id # 0 => CameIn(after) = Append(CameIn(s), m.id)
       /\ ~Passes(s.rx, m) \/ m.id = 0 => CameIn(after) = CameIn(s)
  <2>1. \A l \in MailOf(d) : l.id \in Nat
    BY <1>1, IDsAccepted, <1>10
  <2>2. s.processed \in Seq(Nat)
    <3>1. 1 .. accepted[d] \subseteq Nat
      BY <1>10
    <3> QED
      BY <1>9, <3>1, SeqMonotonic
  <2>3. delayed \/ s.held = <<>>
    BY <1>1, <1>4 DEF Direction, ReceiveSide
  <2>4. \/ ~Passes(s.rx, m) /\ after.held = s.held /\ after.processed = s.processed
        \/ Passes(s.rx, m) /\ after.held = Append(s.held, m) /\ after.processed = s.processed
        \/ /\ Passes(s.rx, m) /\ m.id # 0 /\ s.held = <<>>
           /\ after.held = s.held /\ after.processed = Append(s.processed, m.id)
        \/ /\ Passes(s.rx, m) /\ m.id = 0 /\ s.held = <<>>
           /\ after.held = s.held /\ after.processed = s.processed
    BY <1>6, <2>3 DEF Parsed
  <2> DEFINE M == MailOf(d)
  <2>5. /\ s.held \in Seq(M) /\ m \in M
        /\ \A l \in M : l.id \in Nat
    BY <1>6, <1>9, <2>1
  <2> HIDE DEF M
  <2>6. CameIn(s) \in Seq(Nat)
    BY <2>2, <2>4, <2>5, CameInAfter, SMTT(20), ZenonT(30)
  <2>7. Passes(s.rx, m) /\ m.id # 0 => CameIn(after) = Append(CameIn(s), m.id)
    BY <2>2, <2>4, <2>5, CameInAfter, SMTT(20), ZenonT(30)
  <2>8. ~Passes(s.rx, m) \/ m.id = 0 => CameIn(after) = CameIn(s)
    BY <2>2, <2>4, <2>5, CameInAfter, SMTT(20), ZenonT(30)
  <2> QED
    BY <2>6, <2>7, <2>8
<1>13. ToSet(CameIn(after)) = IF Passes(s.rx, m) THEN With(came, m) ELSE came
  <2>1. ToSet(Append(CameIn(s), m.id)) = ToSet(CameIn(s)) \cup {m.id}
    BY <1>12, ToSetAppend
  <2>2. With(came, m) = IF m.id # 0 THEN came \cup {m.id} ELSE came
    BY DEF With
  <2> QED
    BY <1>12, <2>1, <2>2
<1>14. after.rx = Checked(s.rx, m)
  BY <1>6 DEF Parsed
<1> HIDE DEF came
<1>15. /\ Recorded(Used(d), numbered[d], zeroed[d], InOrder(d), s.rx, came)
       /\ m \in Used(d)
  BY <1>3, <1>6, <1>8 DEF came
<1>16. /\ Recorded(Used(d), numbered[d], zeroed[d], InOrder(d), after.rx, ToSet(CameIn(after)))
       /\ Passes(s.rx, m) => MayCome(m, zeroed[d], InOrder(d), came)
       /\ Newest(after.rx) \in {Newest(s.rx), m.number} /\ Newest(after.rx) >= Newest(s.rx)
       /\ after.rx \in Receivers
  <2> DEFINE later == IF Passes(s.rx, m) THEN With(came, m) ELSE came
  <2>1. /\ Recorded(Used(d), numbered[d], zeroed[d], InOrder(d), Checked(s.rx, m), later)
        /\ Passes(s.rx, m) => MayCome(m, zeroed[d], InOrder(d), came)
        /\ Newest(Checked(s.rx, m)) \in {Newest(s.rx), m.number}
        /\ Newest(Checked(s.rx, m)) >= Newest(s.rx)
        /\ Checked(s.rx, m) \in Receivers
    BY <1>7, <1>9, <1>11, <1>15, CheckedRecorded
  <2>2. later = ToSet(CameIn(after))
    BY <1>13
  <2> HIDE DEF later
  <2> QED
    BY <1>14, <2>1, <2>2
<1>17. Newest(after.rx) >= Newest(rx[e])
  <2>1. Newest(after.rx) \in Nat /\ Newest(s.rx) \in Nat /\ Newest(rx[e]) \in Nat
    BY <1>9, <1>10, <1>16, NewestType
  <2> QED
    BY <1>3, <1>16, <2>1
<1>18. Newest(after.rx) \in {Newest(rx[e])} \cup {packet.messages[j].number : j \in 1 .. k}
  <2>1. k \in 1 .. k /\ \A j \in 1 .. k - 1 : j \in 1 .. k
    BY <1>10
  <2> QED
    BY <1>3, <1>16, <2>1 DEF m
<1>19. Grown(d, CameIn(x.start), CameIn(after))
  <2>1. CASE Passes(s.rx, m) /\ m.id # 0
    <3>1. m.id \in Nat /\ m.id \in 1 .. accepted[d]
      BY <1>6, <1>10, <2>1
    <3>2. IsUnsequenced(m) <=> IsUnsequenced(GameMessage(d, m.id))
      BY <1>6, <2>1 DEF MailOf, Mail, IsUnsequenced, GameMessage
    <3>3. Welcome(d, ToSet(CameIn(s)), m.id)
      BY <1>16, <2>1, <3>1, <3>2 DEF MayCome, Welcome, came
    <3> QED
      BY <1>3, <1>12, <2>1, <3>1, <3>3, GrownOne
  <2>2. CASE ~(Passes(s.rx, m) /\ m.id # 0)
    BY <1>3, <1>12, <2>2
  <2> QED
    BY <2>1, <2>2
<1>20. Len(after.processed) >= Len(processed[e])
  <2> DEFINE read == s.processed
  <2>1. read \in Seq(1 .. accepted[d]) /\ processed[e] \in Seq(1 .. accepted[d])
    BY <1>1, <1>9 DEF Direction, ReceiveSide
  <2>2. after.processed = read \/ (m.id # 0 /\ after.processed = Append(read, m.id))
    BY <1>6 DEF Parsed
  <2>3. m.id # 0 => m.id \in 1 .. accepted[d]
    BY <1>6, <1>10
  <2>4. Len(read) >= Len(processed[e])
    BY <1>3
  <2> HIDE DEF read
  <2>5. m.id # 0 => Len(Append(read, m.id)) = Len(read) + 1
    BY <2>1, <2>3, AppendProperties
  <2>6. Len(read) \in Nat /\ Len(processed[e]) \in Nat
    BY <2>1, LenProperties
  <2> QED
    BY <2>2, <2>4, <2>5, <2>6
<1> QED
  <2>1. Other(x.e) = d
    BY <1>2 DEF d
  <2>2. RecordedSoFar(after, k, x)
    BY <1>2, <1>5, <1>16, <1>17, <1>18, <1>19, <1>20, <2>1 DEF RecordedSoFar
  <2> QED
    BY <2>2 DEF after, x

-----------------------------------------------------------------------------
\* What Peer::parseBuffer leaves.
LEMMA ReceiveRecorded ==
    ASSUME IInv, WindowInv, NumbersInWindow, NEW e \in Ends,
           NEW packet \in ToSet(net[e]), ReceivePacket(e, packet)
    PROVE  \E after :
            /\ RecordedSoFar(after, Len(packet.messages), ParseInput(e, packet))
            /\ UNCHANGED <<script, accepted, numbered, zeroed>>
            /\ rx' = [rx EXCEPT ![e] = after.rx]
            /\ tx' = [tx EXCEPT ![e] = after.tx]
            /\ held' = [held EXCEPT ![e] = after.held]
            /\ processed' = [processed EXCEPT ![e] = after.processed]
<1> DEFINE x == ParseInput(e, packet)
           N == Len(packet.messages)
           d == Other(e)
<1>1. /\ d \in Ends /\ Other(d) = e /\ Shape /\ Direction(e) /\ Direction(d) /\ Known(d)
  BY OtherEnd DEF IInv, WindowInv
<1>2. N \in Nat
  BY <1>1, PacketType
<1>3. PICK r : /\ Parsing!IsLoop(r, N, x.start, x)
               /\ rx' = [rx EXCEPT ![e] = r[N].rx]
               /\ tx' = [tx EXCEPT ![e] = r[N].tx]
               /\ held' = [held EXCEPT ![e] = r[N].held]
               /\ processed' = [processed EXCEPT ![e] = r[N].processed]
               /\ silent' = [silent EXCEPT ![e] = FALSE]
               /\ UNCHANGED <<script, accepted, numbered, zeroed>>
  BY <1>2, ReceivePacketLoop
<1>4. RecordedSoFar(x.start, 0, x)
  <2>1. ParsedSoFar(x.start, 0, x)
    BY <1>1, ParseStart DEF Shape
  <2>2. /\ x.e = e /\ x.start.rx = rx[e] /\ x.start.held = held[e]
        /\ x.start.processed = processed[e]
    BY DEF ParseInput
  <2>3. CameIn(x.start) = Arrived(e)
    BY <2>2 DEF CameIn, Arrived
  <2>4. Arrived(e) \in Seq(Nat) /\ ToSet(Arrived(e)) = Came(d)
    BY <1>1, ArrivedType DEF Came
  <2>5. Recorded(Used(d), numbered[d], zeroed[d], InOrder(d), rx[e], Came(d))
    BY <1>1 DEF Known
  <2>6. Newest(rx[e]) \in Nat
    BY <1>1, NewestType DEF Direction, ReceiveSide
  <2> HIDE DEF x, d
  <2>7. Grown(d, Arrived(e), Arrived(e))
    BY <2>4, GrownNone
  <2>8. Newest(rx[e]) >= Newest(rx[e]) /\ Len(processed[e]) >= Len(processed[e])
    <3>1. Len(processed[e]) \in Nat
      BY <1>1, LenProperties DEF Direction, ReceiveSide
    <3> QED
      BY <2>6, <3>1
  <2>9. Other(x.e) = d
    BY <2>2 DEF d
  <2> QED
    BY <2>1, <2>2, <2>3, <2>4, <2>5, <2>7, <2>8, <2>9 DEF RecordedSoFar
<1>5. \A k \in 1 .. N : \A s : RecordedSoFar(s, k - 1, x) => RecordedSoFar(ParseNext(s, k, x), k, x)
  BY RecordTurn
<1>6. Recording!IsLoop(r, N, x.start, x)
  BY <1>3 DEF Parsing!IsLoop, Recording!IsLoop
<1>7. \A k \in 0 .. N : RecordedSoFar(r[k], k, x)
  <2> HIDE DEF x, N
  <2> QED
    BY <1>2, <1>4, <1>5, <1>6, Recording!LoopInvariant
<1>8. RecordedSoFar(r[N], N, x)
  BY <1>2, <1>7
<1> QED
  BY <1>3, <1>8

\* What reading a packet changes, and what the reader then knows.
LEMMA ReceiveEffect ==
    ASSUME IInv, WindowInv, NumbersInWindow, NEW e \in Ends,
           NEW packet \in ToSet(net[e]), ReceivePacket(e, packet)
    PROVE  LET o == Other(e)
           IN  /\ UNCHANGED <<script, accepted, numbered, zeroed>>
               /\ rx'[o] = rx[o] /\ tx'[o] = tx[o] /\ held'[o] = held[o]
               /\ processed'[o] = processed[o]
               /\ DOMAIN processed' = Ends /\ DOMAIN held' = Ends
               /\ rx'[e] \in Receivers /\ Newest(rx[e]) <= Newest(rx'[e])
               /\ processed'[e] \in Seq(1 .. accepted[o]) /\ held'[e] \in Seq(MailOf(o))
               /\ Len(processed[e]) <= Len(processed'[e])
               /\ Recorded(Used(o), numbered[o], zeroed[o], InOrder(o), rx'[e], Came(o)')
               /\ Grown(o, Arrived(e), Arrived(e)')
               /\ KeepAlivesBehind(Pending(e), Pending(e)')
               /\ tx'[e].m_reliableMessages
                    = ProcessAckBits(tx[e], packet.m_ackseq, packet.m_ackbits).m_reliableMessages
<1> DEFINE x == ParseInput(e, packet)
           o == Other(e)
<1>1. /\ o \in Ends /\ Other(o) = e /\ o # e /\ Shape /\ Direction(e) /\ Direction(o)
      /\ DOMAIN rx = Ends /\ DOMAIN tx = Ends /\ DOMAIN held = Ends /\ DOMAIN processed = Ends
  BY OtherEnd DEF IInv, Shape
<1>2. PICK after :
            /\ RecordedSoFar(after, Len(packet.messages), x)
            /\ UNCHANGED <<script, accepted, numbered, zeroed>>
            /\ rx' = [rx EXCEPT ![e] = after.rx]
            /\ tx' = [tx EXCEPT ![e] = after.tx]
            /\ held' = [held EXCEPT ![e] = after.held]
            /\ processed' = [processed EXCEPT ![e] = after.processed]
  BY ReceiveRecorded
<1>3. /\ x.e = e /\ x.start.rx = rx[e] /\ x.start.held = held[e]
      /\ x.start.processed = processed[e]
      /\ x.start.tx = ProcessAckBits(tx[e], packet.m_ackseq, packet.m_ackbits)
      /\ x.mine = MailOf(e) /\ x.theirs = MailOf(o) /\ x.count = accepted[o]
  BY DEF ParseInput
<1>4. x.start.tx.m_pendingMessages = Pending(e)
  BY <1>1, <1>3, AckedType
<1> HIDE DEF x
<1>5. /\ rx'[e] = after.rx /\ tx'[e] = after.tx /\ held'[e] = after.held
      /\ processed'[e] = after.processed
      /\ rx'[o] = rx[o] /\ tx'[o] = tx[o] /\ held'[o] = held[o] /\ processed'[o] = processed[o]
      /\ DOMAIN processed' = Ends /\ DOMAIN held' = Ends
  BY <1>1, <1>2
<1>6. /\ ParsedSoFar(after, Len(packet.messages), x)
      /\ Recorded(Used(o), numbered[o], zeroed[o], InOrder(o), after.rx, ToSet(CameIn(after)))
      /\ Newest(after.rx) >= Newest(rx[e])
      /\ Len(after.processed) >= Len(processed[e])
      /\ Grown(o, CameIn(x.start), CameIn(after))
  BY <1>2, <1>3 DEF RecordedSoFar
<1>7. CameIn(x.start) = Arrived(e)
  BY <1>3 DEF CameIn, Arrived
<1>8. Arrived(e)' = CameIn(after)
  BY <1>5 DEF CameIn, Arrived, GameIDs
<1>9. Came(o)' = ToSet(CameIn(after))
  BY <1>1, <1>8 DEF Came
<1>10. /\ after \in ParseStates(MailOf(e), MailOf(o), accepted[o])
       /\ after.tx.m_reliableMessages = x.start.tx.m_reliableMessages
       /\ KeepAlivesBehind(Pending(e), after.tx.m_pendingMessages)
  BY <1>3, <1>4, <1>6 DEF ParsedSoFar
<1>11. /\ after.rx \in Receivers /\ after.held \in Seq(MailOf(o))
       /\ after.processed \in Seq(1 .. accepted[o])
  BY <1>10 DEF ParseStates
<1>12. Pending(e)' = after.tx.m_pendingMessages
  BY <1>5 DEF Pending
<1>13. Newest(rx[e]) <= Newest(rx'[e])
  <2>1. Newest(rx[e]) \in Nat /\ Newest(after.rx) \in Nat
    BY <1>1, <1>11, NewestType DEF Direction, ReceiveSide
  <2> QED
    BY <1>5, <1>6, <2>1
<1>14. Len(processed[e]) <= Len(processed'[e])
  <2>1. Len(processed[e]) \in Nat /\ Len(after.processed) \in Nat
    BY <1>1, <1>11, LenProperties DEF Direction, ReceiveSide
  <2> QED
    BY <1>5, <1>6, <2>1
<1> QED
  BY <1>2, <1>3, <1>5, <1>6, <1>7, <1>8, <1>9, <1>10, <1>11, <1>12, <1>13, <1>14

\* What grows keeps what it had.
LEMMA GrownKeeps ==
    ASSUME NEW e, NEW old, NEW new, Grown(e, old, new)
    PROVE  ToSet(old) \subseteq ToSet(new)
<1>1. /\ old \in Seq(Nat) /\ new \in Seq(Nat) /\ Len(old) <= Len(new)
      /\ \A j \in 1 .. Len(old) : new[j] = old[j]
  BY DEF Grown
<1>2. /\ ToSet(old) = {old[j] : j \in 1 .. Len(old)} /\ ToSet(new) = {new[j] : j \in 1 .. Len(new)}
      /\ Len(old) \in Nat /\ Len(new) \in Nat
  BY <1>1, ToSetType, LenProperties
<1>3. \A j \in 1 .. Len(old) : j \in 1 .. Len(new)
  BY <1>1, <1>2
<1> QED
  BY <1>1, <1>2, <1>3

LEMMA ReceiveKnown ==
    ASSUME IInv, WindowInv, NumbersInWindow, NEW e \in Ends,
           NEW packet \in ToSet(net[e]), ReceivePacket(e, packet),
           net'[Other(e)] = net[Other(e)], ToSet(net'[e]) \subseteq ToSet(net[e])
    PROVE  WindowInv'
<1> DEFINE o == Other(e)
<1>1. /\ o \in Ends /\ Other(o) = e /\ o # e /\ Shape /\ Direction(e) /\ Direction(o) /\ Ends = {e, o}
      /\ Known(e) /\ Known(o)
  BY OtherEnd DEF IInv, WindowInv
<1>2. /\ UNCHANGED <<script, accepted, numbered, zeroed>>
      /\ rx'[o] = rx[o] /\ tx'[o] = tx[o] /\ held'[o] = held[o]
      /\ processed'[o] = processed[o]
      /\ rx'[e] \in Receivers /\ Newest(rx[e]) <= Newest(rx'[e])
      /\ Recorded(Used(o), numbered[o], zeroed[o], InOrder(o), rx'[e], Came(o)')
      /\ Grown(o, Arrived(e), Arrived(e)')
      /\ tx'[e].m_reliableMessages
            = ProcessAckBits(tx[e], packet.m_ackseq, packet.m_ackbits).m_reliableMessages
  BY ReceiveEffect
<1>3. Waiting(e)' \subseteq Waiting(e)
  BY <1>1, <1>2, AckedType DEF Waiting
<1>4. Known(e)'
  <2>1. Came(e)' = ToSet(processed'[o] \o GameIDs(held'[o]))
    BY DEF Came, Arrived, GameIDs
  <2>2. Came(e) = ToSet(processed[o] \o GameIDs(held[o]))
    BY DEF Came, Arrived
  <2>3. Came(e)' = Came(e)
    BY <1>2, <2>1, <2>2
  <2>4. Carried(e)' = Carried(e)
    BY DEF Carried
  <2> QED
    BY <1>1, <1>2, <1>3, <2>3, <2>4, KnownKept
<1>5. Known(o)'
  <2>1. Waiting(o)' = Waiting(o) /\ Carried(o)' \subseteq Carried(o)
    BY <1>1, <1>2 DEF Waiting, Carried
  <2>2. Used(o)' \subseteq Used(o)
    BY <2>1 DEF Used
  <2>3. InOrder(o)' = InOrder(o)
    BY <1>2 DEF InOrder, GameMessage
  <2>4. Came(o) \subseteq Came(o)'
    BY <1>1, <1>2, GrownKeeps DEF Came
  <2>5. numbered[o] \in Nat /\ Newest(rx[e]) \in Nat /\ Newest(rx'[e]) \in Nat
    BY <1>1, <1>2, NewestType DEF Direction, SendSide, ReceiveSide
  <2>6. \A q \in ToSet(net[o]) : q.m_ackbits \subseteq Nat
    BY <1>1, PacketBits
  <2> DEFINE next == Used(o)'
             came == Came(o)'
             receiver == rx'[e]
  <2>7. Recorded(next, numbered[o], zeroed[o], InOrder(o), receiver, came)
    <3>1. (\A m \in next : m \in Used(o)) /\ Recorded(Used(o), numbered[o], zeroed[o], InOrder(o), receiver, came)
      BY <1>2, <2>2
    <3> HIDE DEF next, came, receiver, o
    <3> QED
      BY <2>5, <3>1, RecordedKept
  <2>8. AcksArrived(ToSet(net[o]), Waiting(o), receiver, came)
    <3>1. AcksArrived(ToSet(net[o]), Waiting(o), rx[e], Came(o))
      BY <1>1 DEF Known
    <3>2. Came(o) \subseteq came /\ Newest(receiver) \in Nat /\ Newest(rx[e]) <= Newest(receiver)
      BY <1>2, <2>4, <2>5
    <3> HIDE DEF came, receiver, o
    <3> QED
      BY <2>5, <2>6, <3>1, <3>2, AcksKept
  <2> QED
    BY <1>1, <1>2, <2>1, <2>3, <2>7, <2>8 DEF Known
<1> QED
  BY <1>1, <1>4, <1>5 DEF WindowInv

\* A held message that is processed arrived before.
LEMMA ProcessHeldArrived ==
    ASSUME IInv, NEW e \in Ends, ProcessHeld(e)
    PROVE  Arrived(e)' = Arrived(e)
<1> DEFINE o == Other(e)
           M == MailOf(o)
           m == Head(held[e])
           rest == Tail(held[e])
           one == <<m>>
           read == processed[e]
           ids == GameIDs(rest)
<1>1. /\ held[e] \in Seq(M) /\ processed[e] \in Seq(1 .. accepted[o]) /\ accepted[o] \in Nat
      /\ \A l \in M : l.id \in Nat
  BY OtherEnd, IDsAccepted DEF IInv, Direction, ReceiveSide
<1>2. /\ held[e] # <<>> /\ m \in M /\ held'[e] = rest
      /\ \/ m.id # 0 /\ processed'[e] = Append(read, m.id)
         \/ m.id = 0 /\ processed'[e] = read
  BY ProcessHeldEffect
<1>3. one \in Seq(M) /\ rest \in Seq(M) /\ held[e] = one \o rest
  BY <1>1, <1>2
<1>4. read \in Seq(Nat)
  <2>1. 1 .. accepted[o] \subseteq Nat
    BY <1>1
  <2> QED
    BY <1>1, <2>1, SeqMonotonic
<1>5. GameIDs(one) = IF m.id # 0 THEN <<m.id>> ELSE <<>>
  BY <1>1, <1>2, GameIDsOne
<1> HIDE DEF M, m, rest, one, read
<1>6. ids \in Seq(Nat)
  BY <1>1, <1>3, GameIDsType
<1>7. GameIDs(held[e]) = GameIDs(one) \o ids
  BY <1>1, <1>3, GameIDsJoined
<1>8. Arrived(e) = read \o (GameIDs(one) \o ids)
  BY <1>7 DEF Arrived, read
<1>9. Arrived(e)' = processed'[e] \o ids
  BY <1>2 DEF Arrived, GameIDs
<1> HIDE DEF ids
<1>10. CASE m.id # 0
  <2>1. m.id \in Nat
    BY <1>1, <1>2
  <2> DEFINE i == m.id
             t == <<i>>
  <2>2. t \in Seq(Nat)
    BY <2>1
  <2>3. Append(read, i) = read \o t
    BY <1>4, <2>1, AppendIsConcat
  <2>4. GameIDs(one) = t /\ processed'[e] = Append(read, i)
    BY <1>2, <1>5, <1>10
  <2> HIDE DEF i, t
  <2>5. (read \o t) \o ids = read \o (t \o ids)
    BY <1>4, <1>6, <2>2, ConcatAssociative, SMTT(20), ZenonT(30)
  <2> QED
    BY <1>8, <1>9, <2>3, <2>4, <2>5
<1>11. CASE m.id = 0
  <2>1. <<>> \o ids = ids
    BY <1>6, ConcatEmptySeq
  <2> QED
    BY <1>2, <1>5, <1>8, <1>9, <1>11, <2>1
<1> QED
  BY <1>10, <1>11

\* The other actions leave what is known.
LEMMA ProcessHeldKnown ==
    ASSUME IInv, WindowInv, NEW e \in Ends, ProcessHeld(e)
    PROVE  WindowInv'
<1> DEFINE o == Other(e)
<1>1. /\ o \in Ends /\ o # e /\ Other(o) = e /\ Ends = {e, o}
      /\ Direction(e) /\ Direction(o) /\ Known(e) /\ Known(o)
  BY OtherEnd DEF IInv, WindowInv
<1>2. /\ UNCHANGED <<script, rx, silent, net, accepted, numbered, zeroed>>
      /\ held'[o] = held[o] /\ tx'[o] = tx[o] /\ processed'[o] = processed[o]
      /\ tx'[e] = tx[e] \/ \E origin \in Ends : tx'[e] = EnqueueMessage(tx[e], KeepAlive(origin))
  BY ProcessHeldEffect
<1>3. Came(o)' = Came(o)
  BY <1>1, ProcessHeldArrived DEF Came
<1>4. Came(e)' = Came(e)
  BY <1>2 DEF Came, Arrived, GameIDs
<1>5. Waiting(e)' = Waiting(e) /\ Waiting(o)' = Waiting(o)
  <2>1. tx[e] \in Senders(MailOf(e))
    BY <1>1 DEF Direction, SendSide
  <2>2. \A m : EnqueueMessage(tx[e], m).m_reliableMessages = tx[e].m_reliableMessages
    BY <2>1 DEF EnqueueMessage, Senders
  <2> QED
    BY <1>2, <2>2 DEF Waiting
<1>6. Carried(e)' = Carried(e) /\ Carried(o)' = Carried(o)
  BY <1>2 DEF Carried
<1>7. Known(e)'
  BY <1>1, <1>2, <1>4, <1>5, <1>6, KnownKept
<1>8. Known(o)'
  BY <1>1, <1>2, <1>3, <1>5, <1>6, KnownKept
<1> QED
  BY <1>1, <1>7, <1>8 DEF WindowInv

LEMMA EnqueueKnown ==
    ASSUME IInv, WindowInv, NEW e \in Ends, NEW m,
           tx' = [tx EXCEPT ![e] = EnqueueMessage(@, m)] \/ tx' = tx,
           UNCHANGED <<script, rx, net, held, processed, numbered, zeroed>>
    PROVE  WindowInv'
<1> SUFFICES ASSUME NEW f \in Ends PROVE Known(f)'
  BY DEF WindowInv
<1>1. /\ Direction(f) /\ Direction(Other(f)) /\ Known(f) /\ DOMAIN tx = Ends
      /\ tx[e] \in Senders(MailOf(e))
  BY OtherEnd DEF IInv, WindowInv, Shape, Direction, SendSide
<1>2. EnqueueMessage(tx[e], m).m_reliableMessages = tx[e].m_reliableMessages
  BY <1>1 DEF EnqueueMessage, Senders
<1>3. tx'[f].m_reliableMessages = tx[f].m_reliableMessages
  BY <1>1, <1>2
<1>4. Waiting(f)' = Waiting(f) /\ Carried(f)' = Carried(f)
  BY <1>3 DEF Waiting, Carried
<1>5. Came(f)' = Came(f)
  BY DEF Came, Arrived, GameIDs
<1> QED
  BY <1>1, <1>4, <1>5, KnownKept

\* Nothing is known at first but that the exchanged messages arrived.
LEMMA InitKnown == Init /\ NumbersInWindow => WindowInv
<1> SUFFICES ASSUME Init, NumbersInWindow, NEW e \in Ends PROVE Known(e)
  BY DEF WindowInv
<1> DEFINE receiver == rx[Other(e)]
<1>1. Other(e) \in Ends
  BY OtherEnd
<1>2. /\ tx[e] = Sender(Wrap(Exchanged + 1)) /\ receiver = ReceiverOf(Exchanged)
      /\ net[Other(e)] = <<>> /\ net[e] = <<>> /\ held[Other(e)] = <<>>
      /\ processed[Other(e)] = <<>> /\ numbered[e] = Exchanged /\ zeroed[e] = {}
  BY <1>1 DEF Init
<1>3. Exchanged \in Nat /\ Exchanged < Rounds * Modulus
  BY <1>2, LinkAssumption DEF NumbersInWindow
<1>4. /\ Newest(receiver) = Exchanged
      /\ \A s \in DOMAIN receiver.m_seqtrackReceived :
            NumberOf(receiver.m_seqtrackReceived[s], s) <= Newest(receiver)
  BY <1>2, <1>3, ReceiverOfType
<1>5. Used(e) = {} /\ Waiting(e) = {} /\ ToSet(net[e]) = {}
  <2>1. tx[e].m_reliableMessages = <<>>
    BY <1>2 DEF Sender
  <2> QED
    BY <1>2, <2>1, EmptyIsEmpty DEF Used, Waiting, Carried
<1>6. Came(e) = {}
  <2>1. <<>> \o <<>> = <<>>
    OBVIOUS
  <2> QED
    BY <1>2, <2>1, EmptyIsEmpty, GameIDsEmpty DEF Came, Arrived
<1> HIDE DEF receiver
<1>7. EntriesKnown(receiver, Exchanged)
  BY <1>3, <1>4 DEF EntriesKnown
<1> QED
  BY <1>2, <1>5, <1>6, <1>7 DEF Known, Recorded, EntriesArrived, OrderAhead, AcksArrived, receiver

\* The packet that is read was on its way, and stays there or is gone.
LEMMA ReceivedPacket ==
    ASSUME IInv, NEW e \in Ends, Receive(e) \/ ReceiveDuplicate(e)
    PROVE  \E packet \in ToSet(net[e]) :
                /\ ReceivePacket(e, packet)
                /\ net'[Other(e)] = net[Other(e)] /\ ToSet(net'[e]) \subseteq ToSet(net[e])
<1>1. /\ Other(e) \in Ends /\ Other(e) # e /\ DOMAIN net = Ends
      /\ net[e] \in Seq(Datagrams(MailOf(Other(e))))
  BY OtherEnd DEF IInv, Shape, Direction, ReceiveSide
<1>2. PICK i \in Arriving(e) :
        /\ ReceivePacket(e, net[e][i])
        /\ net' = [net EXCEPT ![e] = RemoveAt(@, i)] \/ net' = net
  <2>1. CASE Receive(e)
    BY <2>1 DEF Receive
  <2>2. CASE ReceiveDuplicate(e)
    BY <2>2 DEF ReceiveDuplicate
  <2> QED
    BY <2>1, <2>2
<1>3. i \in DOMAIN net[e] /\ net[e][i] \in ToSet(net[e])
  BY DEF Arriving, ToSet
<1>4. ToSet(RemoveAt(net[e], i)) \subseteq ToSet(net[e])
  <2>1. net[e] \in Seq(ToSet(net[e]))
    BY <1>1, ToSetType
  <2>2. RemoveAt(net[e], i) \in Seq(ToSet(net[e]))
    BY <1>3, <2>1, RemoveAtType
  <2> QED
    BY <2>2, ToSetType
<1> QED
  BY <1>1, <1>2, <1>3, <1>4

LEMMA NextKeepsWindowInv ==
    ASSUME Counting, IInv, WindowInv, NumbersInWindow, [Next]_vars
    PROVE  WindowInv'
<1>1. CASE UNCHANGED vars
  <2> SUFFICES ASSUME NEW f \in Ends PROVE Known(f)'
    BY DEF WindowInv
  <2>1. /\ UNCHANGED <<script, tx, rx, net, held, processed, numbered, zeroed>>
        /\ Direction(f) /\ Direction(Other(f)) /\ Known(f)
    BY <1>1, OtherEnd DEF vars, IInv, WindowInv
  <2>2. Waiting(f)' = Waiting(f) /\ Carried(f)' = Carried(f) /\ Came(f)' = Came(f)
    BY <2>1 DEF Waiting, Carried, Came, Arrived, GameIDs
  <2> QED
    BY <2>1, <2>2, KnownKept
<1>2. ASSUME NEW e \in Ends, Work(e) \/ CountedSilence(e) PROVE WindowInv'
  <2>1. CASE SendTo(e)
    BY <2>1, EnqueueKnown DEF SendTo
  <2>2. CASE SendKeepAlive(e)
    BY <2>2, EnqueueKnown DEF SendKeepAlive
  <2>3. ASSUME NEW arrives, SendPacket(e, arrives) PROVE WindowInv'
    <3>1. Known(e)' /\ Known(Other(e))'
      BY <2>3, SendKnown, SendOtherKnown
    <3>2. Ends = {e, Other(e)}
      BY OtherEnd
    <3> QED
      BY <3>1, <3>2 DEF WindowInv
  <2>4. CASE Send(e) \/ SendLost(e)
    BY <2>3, <2>4 DEF Send, SendLost
  <2>5. CASE Receive(e) \/ ReceiveDuplicate(e)
    <3>1. PICK packet \in ToSet(net[e]) :
            /\ ReceivePacket(e, packet)
            /\ net'[Other(e)] = net[Other(e)] /\ ToSet(net'[e]) \subseteq ToSet(net[e])
      BY <2>5, ReceivedPacket
    <3> QED
      BY <3>1, ReceiveKnown
  <2>6. CASE ProcessHeld(e)
    BY <2>6, ProcessHeldKnown
  <2>7. CASE CountedSilence(e)
    BY <2>7, EnqueueKnown DEF CountedSilence, Silence
  <2> QED
    BY <1>2, <2>1, <2>2, <2>4, <2>5, <2>6, <2>7 DEF Work
<1> QED
  BY <1>1, <1>2 DEF Next

\* What the two ends conclude from sequences and acknowledgements is true, as
\* long as the numbers in use stay in the window.
THEOREM ConclusionsHold == Counting => (Spec /\ []NumbersInWindow => []WindowInv)
<1> SUFFICES ASSUME Counting PROVE Spec /\ []NumbersInWindow => []WindowInv
  OBVIOUS
<1>1. Spec => []IInv
  BY NumbersStayConsistent
<1>2. Init /\ NumbersInWindow => WindowInv
  BY InitKnown
<1>3. IInv /\ NumbersInWindow /\ WindowInv /\ [Next]_vars => WindowInv'
  BY NextKeepsWindowInv
<1> QED
  BY <1>1, <1>2, <1>3, PTL DEF Spec

-----------------------------------------------------------------------------
\* Sequences before others, and the numbers they are of.
LEMMA WrapAround ==
    ASSUME NEW s \in Sequences16
    PROVE  Wrap(s + Modulus) = s
<1>1. NumberOf(1, s) = s + Modulus /\ s + Modulus \in Nat
  BY ModulusType DEF NumberOf, Sequences16
<1> QED
  BY <1>1, SpellingUnique

LEMMA WrapBack ==
    ASSUME NEW a \in Nat, NEW b \in Nat, b < Modulus
    PROVE  Wrap(Wrap(a) - b) = Wrap(a + (Modulus - b))
<1> DEFINE s == Wrap(a)
           x == s - b
<1>1. s \in Sequences16 /\ s \in 0 .. Modulus - 1 /\ Modulus - b \in Nat
  BY Spelling, ModulusType DEF Sequences16
<1>2. Wrap(s + (Modulus - b)) = Wrap(a + (Modulus - b))
  BY <1>1, WrapSum
<1> HIDE DEF s
<1>3. /\ x \in Int /\ s + (Modulus - b) = x + Modulus
      /\ x < Modulus /\ 0 <= x + Modulus /\ x + Modulus \in Int
  BY <1>1, ModulusType
<1> HIDE DEF x
<1>4. Wrap(x) = Wrap(x + Modulus)
  <2>1. CASE x < 0
    <3>1. x + Modulus < Modulus
      BY <1>3, <2>1, ModulusType
    <3> QED
      BY <1>3, <2>1, <3>1, WrapNear
  <2>2. CASE x >= 0
    <3>1. x \in Sequences16
      BY <1>3, <2>2, ModulusType DEF Sequences16
    <3>2. 0 <= x
      BY <1>3, <2>2
    <3> QED
      BY <1>3, <3>1, <3>2, WrapNear, WrapAround
  <2> QED
    BY <1>3, <2>1, <2>2
<1> QED
  BY <1>2, <1>3, <1>4 DEF s, x

LEMMA AckedNumber ==
    ASSUME NEW a \in Nat, NEW b \in Nat, b < Modulus, NEW n \in Nat,
           Wrap(n) = Wrap(Wrap(a) - b), n < a - b + Modulus, a - b < n + Modulus
    PROVE  n = a - b
<1> DEFINE k == a + (Modulus - b)
           l == n + Modulus
<1>1. Wrap(n) \in Sequences16 /\ Modulus \in Nat
  BY Spelling, ModulusType
<1>2. Wrap(l) = Wrap(n)
  <2>1. Wrap(Wrap(n) + Modulus) = Wrap(n + Modulus)
    BY <1>1, WrapSum
  <2> QED
    BY <1>1, <2>1, WrapAround
<1>3. Wrap(k) = Wrap(n)
  BY WrapBack
<1>4. k \in Nat /\ l \in Nat /\ k < l + Modulus /\ l < k + Modulus
  BY <1>1
<1>5. k = l
  <2> HIDE DEF k, l
  <2> QED
    BY <1>2, <1>3, <1>4, NearEqual
<1> QED
  BY <1>1, <1>5

\* What a packet acknowledges has arrived.
LEMMA AckedArrived ==
    ASSUME IInv, WindowInv, NumbersInWindow, NEW e \in Ends, NEW packet \in ToSet(net[e]),
           NEW m \in Waiting(e), m.m_sequence \in AckedSequences(packet.m_ackseq, packet.m_ackbits)
    PROVE  m.id \in Came(e)
<1> DEFINE N == packet.newest
           R == Newest(rx[Other(e)])
<1>1. /\ Direction(e) /\ Direction(Other(e)) /\ Known(e) /\ Other(e) \in Ends /\ Other(Other(e)) = e
  BY OtherEnd DEF IInv, WindowInv
<1>2. /\ N \in Exchanged .. R /\ packet.m_ackseq = Wrap(N)
      /\ m.number \in AckedNumbers(packet) => m.id \in Came(e)
  BY <1>1 DEF Known, AcksArrived
<1>3. packet.m_ackbits \subseteq 0 .. AckBits - 1
  BY <1>1, PacketType DEF Datagrams
<1>4. m.number \in Nat /\ m.m_sequence = Wrap(m.number)
  <2>1. m \in Used(e)
    BY DEF Used
  <2> QED
    BY <1>1, <2>1, UsedInReach DEF Consistent, Spelled, Within
<1>5. R \in Nat /\ N \in Nat
  <2>1. R \in Nat
    BY <1>1, NewestType DEF Direction, ReceiveSide
  <2> QED
    BY <1>2, <2>1, LinkAssumption
<1>6. \A k \in InUse(e) : R - Half < k /\ k < R + Half
  BY DEF NumbersInWindow
<1>7. m.number \in InUse(e) /\ AckedNumbers(packet) \subseteq InUse(e)
  BY DEF InUse, Waiting, AckedNumbers
<1> HIDE DEF N, R
<1>8. CASE m.m_sequence = packet.m_ackseq
  <2>1. N \in AckedNumbers(packet)
    BY DEF AckedNumbers, N
  <2>2. m.number < N + Modulus /\ N < m.number + Modulus
    BY <1>4, <1>5, <1>6, <1>7, <2>1, ModulusType
  <2>3. m.number = N
    BY <1>2, <1>4, <1>5, <1>8, <2>2, NearEqual
  <2> QED
    BY <1>2, <2>1, <2>3
<1>9. ASSUME NEW i \in packet.m_ackbits, m.m_sequence = Wrap(packet.m_ackseq - (i + 1))
      PROVE  m.id \in Came(e)
  <2>1. i \in Nat /\ i + 1 \in Nat /\ i + 1 < Modulus
    BY <1>3, SequenceAssumption, ModulusType
  <2>2. N - 1 - i \in AckedNumbers(packet)
    BY DEF AckedNumbers, N
  <2>3. N - 1 - i = N - (i + 1)
    BY <1>5, <2>1
  <2>4. m.number < N - (i + 1) + Modulus /\ N - (i + 1) < m.number + Modulus
    <3>1. /\ R - Half < N - (i + 1) /\ N - (i + 1) < R + Half
          /\ R - Half < m.number /\ m.number < R + Half
      BY <1>6, <1>7, <2>2, <2>3
    <3> QED
      BY <1>4, <1>5, <2>1, <3>1, ModulusType
  <2>5. m.number = N - (i + 1)
    BY <1>2, <1>4, <1>5, <1>9, <2>1, <2>4, AckedNumber
  <2> QED
    BY <1>2, <2>2, <2>3, <2>5
<1> QED
  BY <1>8, <1>9 DEF AckedSequences

-----------------------------------------------------------------------------
\* The application messages that wait at e, and the reliable ones among them.
Kept(e) == IDs(ToSet(Pending(e))) \cup IDs(Waiting(e))
Outstanding(e) == {i \in Reliables(e) : Waits(e, i)}

LEMMA QueuedAs ==
    ASSUME NEW M, NEW s \in Senders(M), NEW i
    PROVE  (\E m \in ToSet(s.m_pendingMessages \o s.m_reliableMessages) : m.id = i)
                <=> i \in IDs(ToSet(s.m_pendingMessages)) \cup IDs(ToSet(s.m_reliableMessages))
<1>1. s.m_pendingMessages \in Seq(M) /\ s.m_reliableMessages \in Seq(M)
  BY DEF Senders
<1>2. ToSet(s.m_pendingMessages \o s.m_reliableMessages)
            = ToSet(s.m_pendingMessages) \cup ToSet(s.m_reliableMessages)
  BY <1>1, ToSetConcat
<1> QED
  BY <1>2 DEF IDs

LEMMA KeptAs ==
    ASSUME IInv, IInv', NEW e \in Ends
    PROVE  /\ Outstanding(e) = Reliables(e) \cap Kept(e)
           /\ Outstanding(e)' = Reliables(e)' \cap Kept(e)'
<1>1. tx[e] \in Senders(MailOf(e)) /\ tx'[e] \in Senders(MailOf(e)')
  BY DEF IInv, Direction, SendSide
<1>2. Outstanding(e) = Reliables(e) \cap Kept(e)
  <2> DEFINE s == tx[e]
             M == MailOf(e)
  <2>1. s \in Senders(M)
    BY <1>1
  <2> HIDE DEF s, M
  <2>2. \A i : (\E m \in ToSet(s.m_pendingMessages \o s.m_reliableMessages) : m.id = i)
                <=> i \in IDs(ToSet(s.m_pendingMessages)) \cup IDs(ToSet(s.m_reliableMessages))
    BY <2>1, QueuedAs
  <2>3. \A i : Waits(e, i) <=> i \in Kept(e)
    BY <2>2 DEF Waits, Queued, Kept, Pending, Waiting, s
  <2> QED
    BY <2>3 DEF Outstanding
<1>3. Outstanding(e)' = Reliables(e)' \cap Kept(e)'
  <2> DEFINE s == tx'[e]
             M == MailOf(e)'
  <2>1. s \in Senders(M)
    BY <1>1
  <2> HIDE DEF s, M
  <2>2. \A i : (\E m \in ToSet(s.m_pendingMessages \o s.m_reliableMessages) : m.id = i)
                <=> i \in IDs(ToSet(s.m_pendingMessages)) \cup IDs(ToSet(s.m_reliableMessages))
    BY <2>1, QueuedAs
  <2>3. \A i : Waits(e, i)' <=> i \in Kept(e)'
    BY <2>2 DEF Waits, Queued, Kept, Pending, Waiting, s
  <2> QED
    BY <2>3 DEF Outstanding
<1> QED
  BY <1>2, <1>3

\* Messages are as reliable as they are in the script.
LEMMA ReliableAs ==
    ASSUME NEW e \in Ends, NEW m \in MailOf(e), m.id # 0
    PROVE  IsReliable(m) <=> IsReliable(GameMessage(e, m.id))
BY DEF MailOf, Mail, IsReliable, GameMessage

\* Only KeepAlives were queued and nothing else changed.
LEMMA KeptBehind ==
    ASSUME NEW old, NEW new, KeepAlivesBehind(old, new)
    PROVE  IDs(ToSet(new)) \ {0} = IDs(ToSet(old)) \ {0}
<1>1. /\ DOMAIN old \subseteq DOMAIN new /\ \A i \in DOMAIN old : new[i] = old[i]
      /\ \A i \in DOMAIN new \ DOMAIN old : new[i].id = 0
  BY DEF KeepAlivesBehind
<1>2. ToSet(old) = {old[i] : i \in DOMAIN old} /\ ToSet(new) = {new[i] : i \in DOMAIN new}
  BY DEF ToSet
<1>3. IDs(ToSet(old)) = {old[i].id : i \in DOMAIN old} /\ IDs(ToSet(new)) = {new[i].id : i \in DOMAIN new}
  BY <1>2 DEF IDs
<1> QED
  BY <1>1, <1>3

\* Peer::send keeps every reliable message.
LEMMA SendKeeps ==
    ASSUME Counting, IInv, NEW e \in Ends, NEW arrives, SendPacket(e, arrives)
    PROVE  Reliables(e) \cap Kept(e)' = Reliables(e) \cap Kept(e)
<1> DEFINE t == PendingTaken(tx[e])
           r == Retransmitted(e)
           waiting == tx[e].m_reliableMessages
           sent == SentMessages(e)
           left == SubSeq(Pending(e), t + 1, Len(Pending(e)))
           rest == SubSeq(waiting, r + 1, Len(waiting))
<1>1. Shape /\ Direction(e) /\ rx[e] \in Receivers
  BY OtherEnd DEF IInv, Direction, ReceiveSide
<1>2. /\ Pending(e)' = left
      /\ Waiting(e)' = ToSet(rest) \cup {m \in sent : IsReliable(m)}
  BY <1>1, SendPacketEffect
<1>3. Pending(e) \in Seq(MailOf(e)) /\ waiting \in Seq(MailOf(e)) /\ Waiting(e) = ToSet(waiting)
  BY <1>1 DEF Direction, SendSide, Senders, Pending, Waiting
<1>4. /\ r \in {0, 1} /\ t \in 0 .. Len(Pending(e)) /\ r \in 0 .. Len(waiting)
      /\ Sending(e) = r + t
      /\ Len(Pending(e)) \in Nat /\ Len(waiting) \in Nat
  <2>1. Len(Pending(e)) \in Nat /\ Len(waiting) \in Nat
    BY <1>3, LenProperties
  <2>2. r = 1 => waiting # <<>>
    BY <1>1, BaseType
  <2>3. waiting # <<>> => Len(waiting) > 0
    BY <1>3, <2>1, EmptySeq
  <2> QED
    BY <1>1, <2>1, <2>2, <2>3, BaseType DEF Sending
<1>5. /\ Len(left) = Len(Pending(e)) - t /\ left \in Seq(MailOf(e))
      /\ \A i \in 1 .. Len(Pending(e)) - t : left[i] = Pending(e)[t + i]
      /\ ToSet(left) \subseteq ToSet(Pending(e))
  BY <1>3, <1>4, SubSeqElements
<1>6. /\ Len(rest) = Len(waiting) - r /\ rest \in Seq(MailOf(e))
      /\ \A i \in 1 .. Len(waiting) - r : rest[i] = waiting[r + i]
      /\ ToSet(rest) \subseteq Waiting(e)
  <2> HIDE DEF r, waiting
  <2>1. /\ Len(rest) = Len(waiting) - r /\ rest \in Seq(MailOf(e))
        /\ \A i \in 1 .. Len(waiting) - r : rest[i] = waiting[r + i]
        /\ ToSet(rest) \subseteq ToSet(waiting)
    BY <1>3, <1>4, SubSeqElements
  <2> QED
    BY <1>3, <2>1
<1>7. \A i \in 1 .. Sending(e) :
        /\ Numbered(e, i) \in sent /\ Numbered(e, i).id = Base(e, i).id
        /\ Numbered(e, i).flags = Base(e, i).flags
  BY <1>1, NumberedEffect DEF SentMessages
<1> HIDE DEF t, left, rest, waiting, sent
<1>8. ASSUME NEW i \in 1 .. Sending(e), IsReliable(Base(e, i))
      PROVE  Base(e, i).id \in Kept(e)'
  <2>1. Numbered(e, i) \in Waiting(e)'
    BY <1>2, <1>7, <1>8 DEF IsReliable
  <2> QED
    BY <1>7, <2>1 DEF Kept, IDs
<1>9. ASSUME NEW k \in Reliables(e), k \in IDs(ToSet(Pending(e))) PROVE k \in Kept(e)'
  <2>1. PICK j \in 1 .. Len(Pending(e)) : k = Pending(e)[j].id
    <3>1. ToSet(Pending(e)) = {Pending(e)[j] : j \in 1 .. Len(Pending(e))}
      BY <1>3, ToSetType
    <3> QED
      BY <1>9, <3>1 DEF IDs
  <2>2. CASE j > t
    <3>1. j - t \in 1 .. Len(Pending(e)) - t /\ t + (j - t) = j
      BY <1>4, <2>2
    <3>2. left[j - t] = Pending(e)[j] /\ j - t \in 1 .. Len(left)
      BY <1>5, <3>1
    <3>3. Pending(e)[j] \in ToSet(left)
      BY <1>5, <3>2, ToSetType
    <3> QED
      BY <1>2, <2>1, <3>3 DEF Kept, IDs
  <2>3. CASE ~(j > t)
    <3> DEFINE n == r + j
    <3>1. n \in 1 .. Sending(e) /\ n - r = j /\ ~(n <= r)
      BY <1>4, <2>3
    <3> HIDE DEF n
    <3>2. Base(e, n) = Pending(e)[j]
      BY <3>1 DEF Base, r
    <3>3. IsReliable(Pending(e)[j])
      <4>1. k # 0 /\ IsReliable(GameMessage(e, k))
        BY DEF Reliables
      <4>2. Pending(e)[j] \in MailOf(e)
        BY <1>3, ElementOfSeq
      <4> QED
        BY <2>1, <4>1, <4>2, ReliableAs
    <3> QED
      BY <1>8, <2>1, <3>1, <3>2, <3>3
  <2> QED
    BY <2>2, <2>3
<1>10. ASSUME NEW k \in IDs(Waiting(e)) PROVE k \in Kept(e)'
  <2>1. PICK j \in 1 .. Len(waiting) : k = waiting[j].id
    <3>1. ToSet(waiting) = {waiting[j] : j \in 1 .. Len(waiting)}
      BY <1>3, ToSetType
    <3> QED
      BY <1>3, <1>10, <3>1 DEF IDs
  <2>2. CASE j > r
    <3>1. j - r \in 1 .. Len(waiting) - r /\ r + (j - r) = j
      BY <1>4, <2>2
    <3>2. rest[j - r] = waiting[j] /\ j - r \in 1 .. Len(rest)
      BY <1>6, <3>1
    <3>3. waiting[j] \in ToSet(rest)
      BY <1>6, <3>2, ToSetType
    <3> QED
      BY <1>2, <2>1, <3>3 DEF Kept, IDs
  <2>3. CASE ~(j > r)
    <3>1. j = 1 /\ 1 \in 1 .. Sending(e) /\ 1 <= r
      BY <1>4, <2>3
    <3>2. Base(e, 1) = waiting[1]
      BY <3>1, <1>3 DEF Base, waiting
    <3>3. IsReliable(waiting[1])
      <4>1. waiting[1] \in Waiting(e)
        BY <1>3, <2>1, <3>1, ToSetType
      <4> QED
        BY <1>1, <4>1 DEF Direction, SendSide
    <3> QED
      BY <1>8, <2>1, <3>1, <3>2, <3>3
  <2> QED
    BY <2>2, <2>3
<1>11. Kept(e)' \subseteq Kept(e)
  <2>1. \A i \in 1 .. Sending(e) : Base(e, i).id \in Kept(e)
    <3> SUFFICES ASSUME NEW i \in 1 .. Sending(e) PROVE Base(e, i).id \in Kept(e)
      OBVIOUS
    <3>1. i <= r => Base(e, i) \in Waiting(e)
      BY <1>1, BaseType
    <3>2. ~(i <= r) => Base(e, i) \in ToSet(Pending(e))
      <4>1. i > r => i - r \in DOMAIN Pending(e)
        BY <1>1, BaseType
      <4> QED
        BY <1>4, <4>1 DEF Base, ToSet
    <3> QED
      BY <3>1, <3>2 DEF Kept, IDs
  <2>2. IDs(sent) \subseteq Kept(e)
    BY <1>7, <2>1 DEF IDs, sent, SentMessages
  <2>3. IDs(Waiting(e)') \subseteq Kept(e)
    BY <1>2, <1>6, <2>2 DEF IDs, Kept
  <2>4. IDs(ToSet(Pending(e)')) \subseteq Kept(e)
    BY <1>2, <1>5 DEF IDs, Kept
  <2> QED
    BY <2>3, <2>4 DEF Kept
<1> QED
  BY <1>9, <1>10, <1>11 DEF Kept

-----------------------------------------------------------------------------
LEMMA EnqueueKept ==
    ASSUME IInv, NEW e \in Ends, NEW m, tx'[e] = EnqueueMessage(tx[e], m)
    PROVE  Kept(e)' = Kept(e) \cup {m.id}
<1>1. tx[e] \in Senders(MailOf(e)) /\ Pending(e) \in Seq(MailOf(e))
  BY DEF IInv, Direction, SendSide, Senders, Pending
<1>2. /\ tx'[e].m_reliableMessages = tx[e].m_reliableMessages
      /\ Pending(e)' = Append(Pending(e), m)
  BY <1>1 DEF EnqueueMessage, Senders, Pending
<1>3. ToSet(Append(Pending(e), m)) = ToSet(Pending(e)) \cup {m}
  BY <1>1, ToSetAppend
<1>4. Waiting(e)' = Waiting(e) /\ ToSet(Pending(e)') = ToSet(Pending(e)) \cup {m}
  BY <1>2, <1>3 DEF Waiting
<1>5. IDs(ToSet(Pending(e)) \cup {m}) = IDs(ToSet(Pending(e))) \cup {m.id}
  BY DEF IDs
<1> QED
  BY <1>4, <1>5 DEF Kept

\* Reading a packet, an end lets go only of what arrived.
LEMMA ReceiveKept ==
    ASSUME IInv, WindowInv, NumbersInWindow, NEW e \in Ends,
           NEW packet \in ToSet(net[e]), ReceivePacket(e, packet)
    PROVE  /\ Kept(e)' \ {0} \subseteq Kept(e)
           /\ Kept(e) \ Kept(e)' \subseteq Came(e) \cup {0}
           /\ Kept(Other(e))' = Kept(Other(e))
<1> DEFINE o == Other(e)
           left == ProcessAckBits(tx[e], packet.m_ackseq, packet.m_ackbits)
<1>1. o \in Ends /\ o # e /\ Shape /\ Direction(e) /\ Direction(o)
  BY OtherEnd DEF IInv
<1>2. /\ tx'[o] = tx[o]
      /\ KeepAlivesBehind(Pending(e), Pending(e)')
      /\ tx'[e].m_reliableMessages = left.m_reliableMessages
  BY ReceiveEffect
<1>3. /\ ToSet(left.m_reliableMessages) \subseteq Waiting(e)
      /\ \A m \in Waiting(e) :
            m.m_sequence \notin AckedSequences(packet.m_ackseq, packet.m_ackbits) =>
                m \in ToSet(left.m_reliableMessages)
  BY <1>1, AckedType
<1> HIDE DEF left
<1>4. Waiting(e)' = ToSet(left.m_reliableMessages)
  BY <1>2 DEF Waiting
<1>5. ASSUME NEW m \in Waiting(e), m \notin Waiting(e)' PROVE m.id \in Came(e)
  BY <1>3, <1>4, <1>5, AckedArrived
<1>6. IDs(ToSet(Pending(e)')) \ {0} = IDs(ToSet(Pending(e))) \ {0}
  <2> DEFINE old == ToSet(Pending(e))
             new == ToSet(Pending(e)')
             was == Pending(e)
             is == Pending(e)'
  <2>1. KeepAlivesBehind(was, is)
    BY <1>2
  <2> HIDE DEF was, is
  <2>2. IDs(ToSet(is)) \ {0} = IDs(ToSet(was)) \ {0}
    BY <2>1, KeptBehind
  <2> QED
    BY <2>2 DEF was, is
<1>7. Kept(e)' \ {0} \subseteq Kept(e)
  BY <1>3, <1>4, <1>6 DEF Kept, IDs
<1>8. Kept(e) \ Kept(e)' \subseteq Came(e) \cup {0}
  BY <1>5, <1>6 DEF Kept, IDs
<1>9. Kept(o)' = Kept(o)
  BY <1>2 DEF Kept, Pending, Waiting
<1> QED
  BY <1>7, <1>8, <1>9

-----------------------------------------------------------------------------
\* The channel, told in the terms of the link.
LEMMA ChannelOther ==
    ASSUME NEW e \in Ends
    PROVE  Channel!Other(e) = Other(e)
<1>1. \A o \in Ends : o # e <=> o = Other(e)
  BY OtherEnd
<1> QED
  BY <1>1, OtherEnd DEF Channel!Other

LEMMA ChannelFlags ==
    ASSUME script \in Scripts, NEW e \in Ends
    PROVE  /\ Channel!Ordered(e) = InOrder(e)
           /\ \A i \in 1 .. Len(script[e]) :
                /\ i \in Channel!Flagged(e, "unsequenced") <=> IsUnsequenced(GameMessage(e, i))
                /\ i \in Channel!Flagged(e, "reliable") <=> IsReliable(GameMessage(e, i))
<1>1. DOMAIN script[e] = 1 .. Len(script[e])
  BY LenProperties, LinkAssumption
<1>2. \A flag : Channel!Flagged(e, flag) = {i \in 1 .. Len(script[e]) : flag \in script[e][i].flags}
  BY <1>1 DEF Channel!Flagged
<1> QED
  BY <1>2 DEF Channel!Ordered, InOrder, IsInOrder, IsOrderedOnly, IsReliable, IsUnsequenced,
              GameMessage

\* The front of a sequence.
LEMMA FrontElements ==
    ASSUME NEW M, NEW s \in Seq(M), NEW n \in 0 .. Len(s)
    PROVE  /\ SubSeq(s, 1, n) \in Seq(M) /\ Len(SubSeq(s, 1, n)) = n
           /\ \A i \in 1 .. n : SubSeq(s, 1, n)[i] = s[i]
           /\ ToSet(SubSeq(s, 1, n)) = {s[i] : i \in 1 .. n}
<1>1. /\ n \in Int /\ 1 \in Int /\ Len(s) \in Nat /\ n - 1 + 1 = n
      /\ \A i \in 1 .. n : s[i] \in M /\ i \in Int /\ 1 + i - 1 = i
  BY LenProperties, ElementOfSeq
<1>2. /\ SubSeq(s, 1, n) \in Seq(M)
      /\ Len(SubSeq(s, 1, n)) = IF 1 <= n THEN n - 1 + 1 ELSE 0
      /\ \A i \in 1 .. n - 1 + 1 : SubSeq(s, 1, n)[i] = s[1 + i - 1]
  BY <1>1, SubSeqProperties
<1>3. Len(SubSeq(s, 1, n)) = n /\ \A i \in 1 .. n : SubSeq(s, 1, n)[i] = s[i]
  BY <1>1, <1>2
<1>4. ToSet(SubSeq(s, 1, n)) = {SubSeq(s, 1, n)[i] : i \in 1 .. n}
  <2> DEFINE t == SubSeq(s, 1, n)
  <2>1. t \in Seq(M) /\ Len(t) = n
    BY <1>2, <1>3
  <2> HIDE DEF t
  <2>2. ToSet(t) = {t[i] : i \in 1 .. Len(t)}
    BY <2>1, ToSetType
  <2> QED
    BY <2>1, <2>2 DEF t
<1> QED
  BY <1>2, <1>3, <1>4

\* Messages arrive and are let go of as the channel allows.
LEMMA ChannelExchange ==
    ASSUME script \in Scripts, NEW e \in Ends, DOMAIN zeroed = Ends,
           accepted[Other(e)] \in 0 .. Len(script[Other(e)]),
           UNCHANGED <<script, accepted, zeroed>>,
           Grown(Other(e), Arrived(e), Arrived(e)'), Arrived(Other(e))' = Arrived(Other(e)),
           Len(processed'[e]) \in Len(processed[e]) .. Len(Arrived(e)'),
           Len(processed'[Other(e)]) = Len(processed[Other(e)]),
           Outstanding(e)' \subseteq Outstanding(e),
           Outstanding(e) \ Outstanding(e)' \subseteq Came(e),
           Outstanding(Other(e))' = Outstanding(Other(e))
    PROVE  Channel!Exchange(e)
<1> DEFINE o == Other(e)
           old == Arrived(e)
           new == Arrived(e)'
<1>1. o \in Ends /\ o # e /\ Ends = {e, o} /\ Channel!Other(e) = o
  BY OtherEnd, ChannelOther
<1>2. /\ old \in Seq(Nat) /\ new \in Seq(Nat) /\ Len(old) <= Len(new)
      /\ Len(old) \in Nat /\ Len(new) \in Nat
      /\ \A j \in 1 .. Len(old) : new[j] = old[j]
      /\ \A j \in Len(old) + 1 .. Len(new) : Welcome(o, {new[k] : k \in 1 .. j - 1}, new[j])
  BY LenProperties DEF Grown
<1>3. IsPrefix(old, new)
  <2> HIDE DEF old, new
  <2>0. Len(old) \in 0 .. Len(old) /\ Len(old) \in 0 .. Len(new)
    BY <1>2
  <2>1. /\ SubSeq(old, 1, Len(old)) \in Seq(Nat) /\ SubSeq(new, 1, Len(old)) \in Seq(Nat)
        /\ Len(SubSeq(old, 1, Len(old))) = Len(old) /\ Len(SubSeq(new, 1, Len(old))) = Len(old)
        /\ \A j \in 1 .. Len(old) : /\ SubSeq(old, 1, Len(old))[j] = old[j]
                                    /\ SubSeq(new, 1, Len(old))[j] = new[j]
    BY <1>2, <2>0, FrontElements
  <2>2. SubSeq(old, 1, Len(old)) = SubSeq(new, 1, Len(old))
    BY <1>2, <2>1
  <2> QED
    BY <1>2, <2>2 DEF IsPrefix
<1>4. ASSUME NEW k \in Len(old) + 1 .. Len(new)
      PROVE  Channel!MayArrive(e, SubSeq(new, 1, k - 1), new[k])
  <2> DEFINE before == {new[j] : j \in 1 .. k - 1}
             i == new[k]
  <2>1. Welcome(o, before, i)
    BY <1>2
  <2>2. ToSet(SubSeq(new, 1, k - 1)) = before
    <3> HIDE DEF old, new, before
    <3>1. k - 1 \in 0 .. Len(new)
      BY <1>2
    <3> QED
      BY <1>2, <3>1, FrontElements DEF before
  <2>3. i \in 1 .. accepted[o] => i \in 1 .. Len(script[o])
    BY ScriptType, <1>1
  <2>4. Channel!Ordered(o) = InOrder(o)
        /\ (i \in 1 .. Len(script[o]) =>
                (i \in Channel!Flagged(o, "unsequenced") <=> IsUnsequenced(GameMessage(o, i))))
    BY <1>1, ChannelFlags
  <2> HIDE DEF before, i, old, new, o
  <2> QED
    BY <1>1, <2>1, <2>2, <2>3, <2>4 DEF Channel!MayArrive, Welcome, i, Channel!ToSet, ToSet
<1> DEFINE inbox == [f \in Ends |-> Arrived(f)]
           read == [f \in Ends |-> Len(processed[f])]
           outs == [f \in Ends |-> {i \in Reliables(f) : Waits(f, i)}]
<1>5. Channel!Arrivals(e)
  <2>1. inbox[e] = old /\ inbox'[e] = new /\ read[e] = Len(processed[e]) /\ read'[e] = Len(processed'[e])
    OBVIOUS
  <2>2. inbox' = [inbox EXCEPT ![e] = inbox'[e]]
    BY <1>1
  <2>3. read' = [read EXCEPT ![e] = read'[e]]
    BY <1>1
  <2>4. /\ inbox'[e] \in Seq(Nat) /\ IsPrefix(inbox[e], inbox'[e])
        /\ \A k \in Len(inbox[e]) + 1 .. Len(inbox'[e]) :
                Channel!MayArrive(e, SubSeq(inbox'[e], 1, k - 1), inbox'[e][k])
        /\ read'[e] \in read[e] .. Len(inbox'[e])
    BY <1>2, <1>3, <1>4, <2>1
  <2> QED
    BY <2>2, <2>3, <2>4 DEF Channel!Arrivals, Channel!IsPrefix, IsPrefix
<1>6. Channel!Release(e)
  <2>1. outs[e] = Outstanding(e) /\ outs'[e] = Outstanding(e)'
        /\ outs[o] = Outstanding(o) /\ outs'[o] = Outstanding(o)'
    BY <1>1 DEF Outstanding
  <2>2. outs' = [outs EXCEPT ![e] = outs'[e]]
    BY <1>1, <2>1
  <2>3. inbox[Channel!Other(e)] = Arrived(o)
    BY <1>1
  <2> QED
    BY <1>1, <2>1, <2>2, <2>3 DEF Channel!Release, Came, Channel!ToSet, ToSet
<1>7. UNCHANGED <<[f \in Ends |-> script[f]], accepted, zeroed>>
  OBVIOUS
<1> QED
  BY <1>5, <1>6, <1>7 DEF Channel!Exchange

-----------------------------------------------------------------------------
\* Nothing changed that the channel knows of.
LEMMA ChannelSame ==
    ASSUME UNCHANGED <<script, accepted, zeroed, held, processed>>,
           \A f \in Ends : Outstanding(f)' = Outstanding(f)
    PROVE  UNCHANGED Channel!vars
<1>1. \A f \in Ends : Arrived(f)' = Arrived(f)
  BY DEF Arrived, GameIDs
<1>2. UNCHANGED <<[f \in Ends |-> script[f]], accepted, zeroed, [f \in Ends |-> Len(processed[f])]>>
  OBVIOUS
<1>3. [f \in Ends |-> Arrived(f)]' = [f \in Ends |-> Arrived(f)]
  BY <1>1
<1>4. [f \in Ends |-> {i \in Reliables(f) : Waits(f, i)}]' = [f \in Ends |-> {i \in Reliables(f) : Waits(f, i)}]
  BY DEF Outstanding
<1> QED
  BY <1>2, <1>3, <1>4 DEF Channel!vars

\* Peer::SendTo passes a message to the channel.
LEMMA ReliablesAccepted ==
    ASSUME IInv, NEW e \in Ends, SendTo(e)
    PROVE  LET i == accepted[e] + 1
           IN  /\ Reliables(e)' = Reliables(e) \cup (IF IsReliable(GameMessage(e, i)) THEN {i} ELSE {})
               /\ Reliables(Other(e))' = Reliables(Other(e))
<1> DEFINE i == accepted[e] + 1
           o == Other(e)
<1>1. /\ accepted[e] \in Nat /\ accepted'[e] = i /\ accepted'[o] = accepted[o] /\ script' = script
  BY OtherEnd, IDsAccepted DEF IInv, Shape, SendTo
<1>2. 1 .. accepted'[e] = (1 .. accepted[e]) \cup {i}
  BY <1>1
<1>3. \A f, j : GameMessage(f, j)' = GameMessage(f, j)
  BY <1>1 DEF GameMessage
<1>4. /\ Reliables(e)' = {j \in 1 .. accepted'[e] : IsReliable(GameMessage(e, j))}
      /\ Reliables(o)' = {j \in 1 .. accepted'[o] : IsReliable(GameMessage(o, j))}
  BY <1>3 DEF Reliables, IsReliable
<1>5. /\ Reliables(e) = {j \in 1 .. accepted[e] : IsReliable(GameMessage(e, j))}
      /\ Reliables(o) = {j \in 1 .. accepted[o] : IsReliable(GameMessage(o, j))}
  BY DEF Reliables
<1> HIDE DEF i, o
<1>6. Reliables(e)' = Reliables(e) \cup (IF IsReliable(GameMessage(e, i)) THEN {i} ELSE {})
  BY <1>2, <1>4, <1>5
<1>7. Reliables(o)' = Reliables(o)
  BY <1>1, <1>4, <1>5
<1> QED
  BY <1>6, <1>7 DEF i, o

LEMMA SendToAccepts ==
    ASSUME IInv, IInv', NEW e \in Ends, SendTo(e)
    PROVE  Channel!Accept(e)
<1> DEFINE i == accepted[e] + 1
           o == Other(e)
           outs == [f \in Ends |-> {k \in Reliables(f) : Waits(f, k)}]
<1>1. /\ o \in Ends /\ o # e /\ Ends = {e, o} /\ DOMAIN accepted = Ends /\ DOMAIN tx = Ends
      /\ script \in Scripts /\ accepted[e] \in Nat /\ Len(script[e]) \in Nat
  BY OtherEnd, IDsAccepted, ScriptType DEF IInv, Shape
<1>2. /\ accepted[e] < Len(script[e])
      /\ accepted' = [accepted EXCEPT ![e] = i]
      /\ tx' = [tx EXCEPT ![e] = EnqueueMessage(@, GameMessage(e, i))]
      /\ UNCHANGED <<script, rx, silent, net, held, processed, numbered, zeroed>>
  BY DEF SendTo
<1>3. i \in 1 .. Len(script[e])
  BY <1>1, <1>2
<1>4. i \in Channel!Flagged(e, "reliable") <=> IsReliable(GameMessage(e, i))
  BY <1>1, <1>3, ChannelFlags
<1>5. Kept(e)' = Kept(e) \cup {i} /\ Kept(o)' = Kept(o)
  <2>1. tx'[e] = EnqueueMessage(tx[e], GameMessage(e, i)) /\ tx'[o] = tx[o]
    BY <1>1, <1>2
  <2>2. GameMessage(e, i).id = i
    BY DEF GameMessage
  <2> HIDE DEF i
  <2>3. Kept(e)' = Kept(e) \cup {i}
    BY <2>1, <2>2, EnqueueKept
  <2> QED
    BY <2>1, <2>3 DEF Kept, Pending, Waiting
<1>6. /\ Outstanding(e) = Reliables(e) \cap Kept(e) /\ Outstanding(e)' = Reliables(e)' \cap Kept(e)'
      /\ Outstanding(o) = Reliables(o) \cap Kept(o) /\ Outstanding(o)' = Reliables(o)' \cap Kept(o)'
  BY <1>1, KeptAs
<1>7. /\ Reliables(e)' = Reliables(e) \cup (IF IsReliable(GameMessage(e, i)) THEN {i} ELSE {})
      /\ Reliables(o)' = Reliables(o)
  BY ReliablesAccepted
<1> HIDE DEF i, o
<1>8. Outstanding(e)' = IF i \in Channel!Flagged(e, "reliable") THEN Outstanding(e) \cup {i} ELSE Outstanding(e)
  <2>1. CASE IsReliable(GameMessage(e, i))
    <3>1. Reliables(e)' = Reliables(e) \cup {i}
      BY <1>7, <2>1
    <3>2. Outstanding(e)' = Outstanding(e) \cup {i}
      BY <1>5, <1>6, <3>1
    <3> QED
      BY <1>4, <2>1, <3>2
  <2>2. CASE ~IsReliable(GameMessage(e, i))
    <3>1. Reliables(e)' = Reliables(e) /\ i \notin Reliables(e)
      BY <1>7, <2>2 DEF Reliables
    <3>2. Outstanding(e)' = Outstanding(e)
      BY <1>5, <1>6, <3>1
    <3> QED
      BY <1>4, <2>2, <3>2
  <2> QED
    BY <2>1, <2>2
<1>9. Outstanding(o)' = Outstanding(o)
  BY <1>5, <1>6, <1>7
<1>10. outs' = [outs EXCEPT ![e] = IF i \in Channel!Flagged(e, "reliable") THEN @ \cup {i} ELSE @]
  <2>1. /\ outs[e] = Outstanding(e) /\ outs'[e] = Outstanding(e)'
        /\ outs[o] = Outstanding(o) /\ outs'[o] = Outstanding(o)'
    BY <1>1 DEF Outstanding
  <2> DEFINE R == IF i \in Channel!Flagged(e, "reliable") THEN outs[e] \cup {i} ELSE outs[e]
  <2>2. outs'[e] = R
    BY <1>8, <2>1
  <2>3. outs'[o] = outs[o]
    BY <1>9, <2>1
  <2>4. DOMAIN outs' = Ends /\ outs' = [f \in Ends |-> outs'[f]] /\ DOMAIN outs = Ends
    OBVIOUS
  <2> HIDE DEF R, outs
  <2>5. outs' = [outs EXCEPT ![e] = R]
    BY <1>1, <2>2, <2>3, <2>4
  <2> QED
    BY <2>5 DEF R
<1>11. UNCHANGED <<[f \in Ends |-> script[f]], [f \in Ends |-> Arrived(f)],
                   [f \in Ends |-> Len(processed[f])], zeroed>>
  <2>1. \A f \in Ends : Arrived(f)' = Arrived(f)
    BY <1>2 DEF Arrived, GameIDs
  <2> QED
    BY <1>2, <2>1
<1>12. i <= Len([f \in Ends |-> script[f]][e])
  BY <1>3, <1>1
<1> QED
  BY <1>2, <1>10, <1>11, <1>12 DEF Channel!Accept, i

-----------------------------------------------------------------------------
\* Peer::send changes nothing but which messages may arrive again.
LEMMA SendRenumbers ==
    ASSUME Counting, IInv, IInv', NEW e \in Ends, NEW arrives, SendPacket(e, arrives)
    PROVE  Channel!Renumber(e)
<1> DEFINE o == Other(e)
<1>1. /\ o \in Ends /\ o # e /\ Ends = {e, o} /\ Shape /\ Direction(e) /\ Direction(o)
      /\ rx[e] \in Receivers /\ DOMAIN zeroed = Ends
  BY OtherEnd DEF IInv, Shape, Direction, ReceiveSide
<1>2. UNCHANGED <<script, rx, silent, accepted, held, processed>>
  BY DEF SendPacket
<1>3. /\ zeroed[e] \subseteq zeroed'[e] /\ zeroed'[o] = zeroed[o] /\ DOMAIN zeroed' = Ends
      /\ tx'[o] = tx[o]
  <2>1. zeroed'[e] = ZeroedAfter(e)
    BY <1>1, SendPacketEffect
  <2>2. DOMAIN zeroed' = Ends /\ tx'[o] = tx[o] /\ zeroed'[o] = zeroed[o]
    BY <1>1, SendPacketEffect
  <2> QED
    BY <2>1, <2>2 DEF ZeroedAfter
<1>4. zeroed' = [zeroed EXCEPT ![e] = zeroed'[e]]
  <2>1. zeroed' = [f \in DOMAIN zeroed' |-> zeroed'[f]]
    BY DEF SendPacket
  <2> DEFINE z == zeroed'[e]
             next == zeroed'
  <2>2. next = [f \in Ends |-> next[f]] /\ next[e] = z /\ next[o] = zeroed[o]
    BY <1>3, <2>1
  <2>3. DOMAIN zeroed = Ends
    BY <1>1
  <2> HIDE DEF z, next
  <2>4. next = [zeroed EXCEPT ![e] = z]
    BY <1>1, <2>2, <2>3
  <2> QED
    BY <2>4 DEF next, z
<1>5. \A f \in Ends : Outstanding(f)' = Outstanding(f)
  <2>1. \A f \in Ends : Reliables(f)' = Reliables(f)
    BY <1>2 DEF Reliables, IsReliable, GameMessage
  <2>2. /\ Outstanding(e) = Reliables(e) \cap Kept(e) /\ Outstanding(e)' = Reliables(e)' \cap Kept(e)'
        /\ Outstanding(o) = Reliables(o) \cap Kept(o) /\ Outstanding(o)' = Reliables(o)' \cap Kept(o)'
    BY <1>1, KeptAs
  <2>3. Reliables(e) \cap Kept(e)' = Reliables(e) \cap Kept(e)
    BY SendKeeps
  <2>4. Kept(o)' = Kept(o)
    BY <1>3 DEF Kept, Pending, Waiting
  <2> HIDE DEF o
  <2> QED
    BY <1>1, <2>1, <2>2, <2>3, <2>4
<1>6. UNCHANGED <<[f \in Ends |-> script[f]], accepted, [f \in Ends |-> Len(processed[f])]>>
  BY <1>2
<1>7. [f \in Ends |-> Arrived(f)]' = [f \in Ends |-> Arrived(f)]
  <2>1. \A f \in Ends : Arrived(f)' = Arrived(f)
    BY <1>2 DEF Arrived, GameIDs
  <2> QED
    BY <2>1
<1>8. [f \in Ends |-> {k \in Reliables(f) : Waits(f, k)}]' = [f \in Ends |-> {k \in Reliables(f) : Waits(f, k)}]
  BY <1>5 DEF Outstanding
<1> QED
  BY <1>3, <1>4, <1>6, <1>7, <1>8 DEF Channel!Renumber

\* What was processed is in front of what arrived.
LEMMA ProcessedLength ==
    ASSUME NEW M, NEW n \in Nat, \A m \in M : m.id \in Nat, NEW read \in Seq(1 .. n), NEW entries \in Seq(M)
    PROVE  Len(read) <= Len(read \o GameIDs(entries)) /\ Len(read) \in Nat
<1> DEFINE ids == GameIDs(entries)
<1>1. ids \in Seq(Nat)
  BY GameIDsType
<1>2. read \in Seq(Nat)
  <2>1. 1 .. n \subseteq Nat
    OBVIOUS
  <2> QED
    BY <2>1, SeqMonotonic
<1> HIDE DEF ids
<1>3. Len(read \o ids) = Len(read) + Len(ids) /\ Len(ids) \in Nat /\ Len(read) \in Nat
  BY <1>1, <1>2, ConcatProperties, LenProperties
<1> QED
  BY <1>3 DEF ids

\* Peer::parseBuffer takes in what the channel lets arrive, and lets go of what
\* arrived.
LEMMA ReceiveExchanges ==
    ASSUME IInv, IInv', WindowInv, NumbersInWindow, NEW e \in Ends,
           NEW packet \in ToSet(net[e]), ReceivePacket(e, packet)
    PROVE  Channel!Exchange(e)
<1> DEFINE o == Other(e)
<1>1. /\ o \in Ends /\ o # e /\ Other(o) = e /\ Shape /\ Direction(e) /\ Direction(o)
      /\ script \in Scripts /\ DOMAIN zeroed = Ends
  BY OtherEnd DEF IInv, Shape
<1>2. /\ UNCHANGED <<script, accepted, numbered, zeroed>>
      /\ held'[o] = held[o] /\ processed'[o] = processed[o]
      /\ processed'[e] \in Seq(1 .. accepted[o]) /\ held'[e] \in Seq(MailOf(o))
      /\ Len(processed[e]) <= Len(processed'[e])
      /\ Grown(o, Arrived(e), Arrived(e)')
  BY ReceiveEffect
<1>3. Arrived(o)' = Arrived(o)
  BY <1>2 DEF Arrived, GameIDs
<1>4. accepted[o] \in 0 .. Len(script[o]) /\ accepted[o] \in Nat /\ \A m \in MailOf(o) : m.id \in Nat
  BY <1>1, IDsAccepted DEF Direction, SendSide
<1>5. Len(processed'[e]) \in Len(processed[e]) .. Len(Arrived(e)')
  <2> DEFINE read == processed'[e]
             entries == held'[e]
             M == MailOf(o)
             n == accepted[o]
  <2>1. /\ read \in Seq(1 .. n) /\ entries \in Seq(M) /\ n \in Nat
        /\ \A m \in M : m.id \in Nat
    BY <1>2, <1>4
  <2>2. Arrived(e)' = read \o GameIDs(entries)
    BY DEF Arrived, GameIDs
  <2>3. Len(processed[e]) <= Len(read)
    BY <1>2
  <2>4. Len(processed[e]) \in Nat
    BY <1>1, LenProperties DEF Direction, ReceiveSide
  <2>5. Len(Arrived(e)') \in Nat
    <3> DEFINE arrived == Arrived(e)'
    <3>1. arrived \in Seq(Nat)
      BY <1>2 DEF Grown
    <3> HIDE DEF arrived
    <3>2. Len(arrived) \in Nat
      BY <3>1, LenProperties
    <3> QED
      BY <3>2 DEF arrived
  <2> HIDE DEF read, entries, M, n
  <2>6. Len(read) <= Len(read \o GameIDs(entries)) /\ Len(read) \in Nat
    BY <2>1, ProcessedLength
  <2> QED
    BY <2>2, <2>3, <2>4, <2>5, <2>6 DEF read
<1>6. Len(processed'[o]) = Len(processed[o])
  BY <1>2
<1>7. /\ Outstanding(e)' \subseteq Outstanding(e)
      /\ Outstanding(e) \ Outstanding(e)' \subseteq Came(e)
      /\ Outstanding(o)' = Outstanding(o)
  <2>1. \A f \in Ends : Reliables(f)' = Reliables(f)
    BY <1>2 DEF Reliables, IsReliable, GameMessage
  <2>2. /\ Outstanding(e) = Reliables(e) \cap Kept(e) /\ Outstanding(e)' = Reliables(e)' \cap Kept(e)'
        /\ Outstanding(o) = Reliables(o) \cap Kept(o) /\ Outstanding(o)' = Reliables(o)' \cap Kept(o)'
    BY <1>1, KeptAs
  <2>3. /\ Kept(e)' \ {0} \subseteq Kept(e)
        /\ Kept(e) \ Kept(e)' \subseteq Came(e) \cup {0}
        /\ Kept(o)' = Kept(o)
    BY ReceiveKept
  <2>4. 0 \notin Reliables(e)
    BY DEF Reliables
  <2> HIDE DEF o
  <2> QED
    BY <1>1, <2>1, <2>2, <2>3, <2>4
<1> QED
  BY <1>1, <1>2, <1>3, <1>4, <1>5, <1>6, <1>7, ChannelExchange

\* A KeepAlive in a queue changes no reliable message.
LEMMA OutstandingSame ==
    ASSUME IInv, IInv', NEW e \in Ends, UNCHANGED <<script, accepted>>,
           tx'[Other(e)] = tx[Other(e)],
           \/ tx'[e] = tx[e]
           \/ \E origin \in Ends : tx'[e] = EnqueueMessage(tx[e], KeepAlive(origin))
    PROVE  \A f \in Ends : Outstanding(f)' = Outstanding(f)
<1> DEFINE o == Other(e)
<1>0. o \in Ends /\ Ends = {e, o}
  BY OtherEnd
<1>1. \A f \in Ends : Reliables(f)' = Reliables(f)
  BY DEF Reliables, IsReliable, GameMessage
<1>2. /\ Outstanding(e) = Reliables(e) \cap Kept(e) /\ Outstanding(e)' = Reliables(e)' \cap Kept(e)'
      /\ Outstanding(o) = Reliables(o) \cap Kept(o) /\ Outstanding(o)' = Reliables(o)' \cap Kept(o)'
  BY <1>0, KeptAs
<1>3. Kept(o)' = Kept(o)
  BY DEF Kept, Pending, Waiting
<1>4. Kept(e)' = Kept(e) \/ Kept(e)' = Kept(e) \cup {0}
  <2>1. CASE tx'[e] = tx[e]
    BY <2>1 DEF Kept, Pending, Waiting
  <2>2. ASSUME NEW origin, tx'[e] = EnqueueMessage(tx[e], KeepAlive(origin))
        PROVE  Kept(e)' = Kept(e) \cup {0}
    <3> DEFINE l == KeepAlive(origin)
    <3>1. l.id = 0 /\ tx'[e] = EnqueueMessage(tx[e], l)
      BY <2>2 DEF KeepAlive
    <3> HIDE DEF l
    <3>2. Kept(e)' = Kept(e) \cup {l.id}
      BY <3>1, EnqueueKept
    <3> QED
      BY <3>1, <3>2
  <2> QED
    BY <2>1, <2>2
<1>5. 0 \notin Reliables(e)
  BY DEF Reliables
<1> HIDE DEF o
<1> QED
  BY <1>1, <1>2, <1>3, <1>4, <1>5, <1>0

\* Peer::updatePeers processes a held message: it is read.
LEMMA HeldExchanges ==
    ASSUME IInv, IInv', NEW e \in Ends, ProcessHeld(e)
    PROVE  Channel!Exchange(e)
<1> DEFINE o == Other(e)
           m == Head(held[e])
<1>1. /\ o \in Ends /\ o # e /\ Other(o) = e /\ Shape /\ Direction(e) /\ Direction(o)
      /\ script \in Scripts /\ DOMAIN zeroed = Ends
  BY OtherEnd DEF IInv, Shape
<1>2. /\ held[e] # <<>> /\ m \in MailOf(o)
      /\ UNCHANGED <<script, rx, silent, net, accepted, numbered, zeroed>>
      /\ held'[e] = Tail(held[e]) /\ held'[o] = held[o]
      /\ tx'[o] = tx[o] /\ processed'[o] = processed[o]
      /\ \/ /\ m.id # 0 /\ processed'[e] = Append(processed[e], m.id) /\ tx'[e] = tx[e]
         \/ /\ m.id = 0 /\ processed'[e] = processed[e]
            /\ \/ tx'[e] = tx[e]
               \/ \E origin \in Ends : tx'[e] = EnqueueMessage(tx[e], KeepAlive(origin))
  BY ProcessHeldEffect
<1>3. Arrived(o)' = Arrived(o) /\ Arrived(e)' = Arrived(e)
  <2>1. Arrived(o)' = Arrived(o)
    BY <1>2 DEF Arrived, GameIDs
  <2>2. Arrived(e)' = Arrived(e)
    BY ProcessHeldArrived
  <2> QED
    BY <2>1, <2>2
<1>4. /\ accepted[o] \in 0 .. Len(script[o]) /\ accepted[o] \in Nat
      /\ \A l \in MailOf(o) : l.id \in 0 .. accepted[o]
  BY <1>1, IDsAccepted DEF Direction, SendSide
<1>5. Arrived(e) \in Seq(Nat) /\ Grown(o, Arrived(e), Arrived(e)')
  <2>1. Arrived(e) \in Seq(Nat)
    BY <1>1, ArrivedType
  <2> HIDE DEF o
  <2>2. Grown(o, Arrived(e), Arrived(e))
    BY <2>1, GrownNone
  <2> QED
    BY <1>3, <2>1, <2>2
<1>6. Len(processed'[e]) \in Len(processed[e]) .. Len(Arrived(e)')
  <2> DEFINE read == processed[e]
             next == processed'[e]
             rest == held'[e]
             M == MailOf(o)
             n == accepted[o]
             i == m.id
  <2>1. /\ read \in Seq(1 .. n) /\ rest \in Seq(M) /\ n \in Nat
        /\ \A l \in M : l.id \in Nat
        /\ i \in 0 .. n
    BY <1>1, <1>2, <1>4 DEF Direction, ReceiveSide
  <2>2. Arrived(e)' = next \o GameIDs(rest)
    BY DEF Arrived, GameIDs
  <2>3. next = read \/ (i # 0 /\ next = Append(read, i))
    BY <1>2
  <2>4. Len(Arrived(e)') \in Nat
    BY <1>3, <1>5, LenProperties
  <2> HIDE DEF read, next, rest, M, n, i
  <2>5. i # 0 => i \in 1 .. n
    BY <2>1
  <2>6. i # 0 => Append(read, i) \in Seq(1 .. n) /\ Len(Append(read, i)) = Len(read) + 1
    BY <2>1, <2>5, AppendProperties
  <2>7. next \in Seq(1 .. n)
    BY <2>1, <2>3, <2>6
  <2>8. Len(next) <= Len(next \o GameIDs(rest)) /\ Len(next) \in Nat
    BY <2>1, <2>7, ProcessedLength
  <2>9. Len(read) \in Nat /\ Len(read) <= Len(next)
    BY <2>1, <2>3, <2>6, LenProperties
  <2> QED
    BY <2>2, <2>4, <2>8, <2>9 DEF read, next
<1>7. Len(processed'[o]) = Len(processed[o])
  BY <1>2
<1>8. \A f \in Ends : Outstanding(f)' = Outstanding(f)
  BY <1>2, OutstandingSame
<1> QED
  BY <1>1, <1>2, <1>3, <1>4, <1>5, <1>6, <1>7, <1>8, ChannelExchange

-----------------------------------------------------------------------------
\* The two ends begin with an empty channel.
LEMMA InitChannel == Init => Channel!Init
<1> SUFFICES ASSUME Init PROVE Channel!Init
  OBVIOUS
<1>1. ASSUME NEW f \in Ends PROVE Arrived(f) = <<>> /\ Len(processed[f]) = 0 /\ Reliables(f) = {}
  <2>1. held[f] = <<>> /\ processed[f] = <<>> /\ accepted[f] = 0
    BY DEF Init
  <2>2. Arrived(f) = <<>>
    <3>1. <<>> \o <<>> = <<>>
      OBVIOUS
    <3> QED
      BY <2>1, <3>1, GameIDsEmpty DEF Arrived
  <2>3. Reliables(f) = {}
    <3>1. 1 .. 0 = {}
      OBVIOUS
    <3> QED
      BY <2>1, <3>1 DEF Reliables
  <2> QED
    BY <2>1, <2>2, <2>3
<1>2. /\ [f \in Ends |-> Arrived(f)] = [f \in Ends |-> <<>>]
      /\ [f \in Ends |-> Len(processed[f])] = [f \in Ends |-> 0]
  BY <1>1
<1>3. [f \in Ends |-> {i \in Reliables(f) : Waits(f, i)}] = [f \in Ends |-> {}]
  BY <1>1
<1>4. accepted = [f \in Ends |-> 0] /\ zeroed = [f \in Ends |-> {}]
  BY DEF Init
<1> QED
  BY <1>2, <1>3, <1>4 DEF Channel!Init

\* Every step of the link is one of the channel, or none.
LEMMA NextIsChannels ==
    ASSUME Counting, IInv, IInv', WindowInv, NumbersInWindow, [Next]_vars
    PROVE  [Channel!Next]_(Channel!vars)
<1>1. CASE UNCHANGED vars
  <2>1. \A f \in Ends : Outstanding(f)' = Outstanding(f)
    BY <1>1 DEF vars, Outstanding, Reliables, Waits, Queued, IsReliable, GameMessage
  <2>2. UNCHANGED Channel!vars
    BY <1>1, <2>1, ChannelSame DEF vars
  <2> QED
    BY <2>2
<1>2. ASSUME NEW e \in Ends, Work(e) \/ CountedSilence(e)
      PROVE  [Channel!Next]_(Channel!vars)
  <2>1. CASE SendTo(e)
    <3>1. Channel!Accept(e)
      BY <2>1, SendToAccepts
    <3> QED
      BY <3>1 DEF Channel!Next
  <2>2. ASSUME NEW arrives, SendPacket(e, arrives) PROVE [Channel!Next]_(Channel!vars)
    <3>1. Channel!Renumber(e)
      BY <2>2, SendRenumbers
    <3> QED
      BY <3>1 DEF Channel!Next
  <2>3. CASE Send(e) \/ SendLost(e)
    BY <2>2, <2>3 DEF Send, SendLost
  <2>4. CASE Receive(e) \/ ReceiveDuplicate(e)
    <3>1. PICK packet \in ToSet(net[e]) : ReceivePacket(e, packet)
      BY <2>4, ReceivedPacket
    <3>2. Channel!Exchange(e)
      BY <3>1, ReceiveExchanges
    <3> QED
      BY <3>2 DEF Channel!Next
  <2>5. CASE ProcessHeld(e)
    <3>1. Channel!Exchange(e)
      BY <2>5, HeldExchanges
    <3> QED
      BY <3>1 DEF Channel!Next
  <2>6. CASE SendKeepAlive(e)
    <3>1. /\ UNCHANGED <<script, accepted, zeroed, held, processed>>
          /\ tx' = [tx EXCEPT ![e] = EnqueueMessage(@, KeepAlive(e))]
          /\ Other(e) # e /\ Other(e) \in Ends /\ DOMAIN tx = Ends
      BY <2>6, OtherEnd DEF SendKeepAlive, IInv, Shape
    <3>2. tx'[e] = EnqueueMessage(tx[e], KeepAlive(e)) /\ tx'[Other(e)] = tx[Other(e)]
      BY <3>1
    <3>3. \A f \in Ends : Outstanding(f)' = Outstanding(f)
      BY <3>1, <3>2, OutstandingSame
    <3>4. UNCHANGED Channel!vars
      BY <3>1, <3>3, ChannelSame
    <3> QED
      BY <3>4
  <2>7. CASE CountedSilence(e)
    <3>1. UNCHANGED <<script, tx, accepted, zeroed, held, processed>>
      BY <2>7 DEF CountedSilence, Silence
    <3>2. \A f \in Ends : Outstanding(f)' = Outstanding(f)
      BY <3>1 DEF Outstanding, Reliables, Waits, Queued, IsReliable, GameMessage
    <3>3. UNCHANGED Channel!vars
      BY <3>1, <3>2, ChannelSame
    <3> QED
      BY <3>3
  <2> QED
    BY <1>2, <2>1, <2>3, <2>4, <2>5, <2>6, <2>7 DEF Work
<1> QED
  BY <1>1, <1>2 DEF Next

\* The link implements the channel that the applications are promised.
THEOREM LinkImplementsChannel ==
    Counting => (Spec /\ []NumbersInWindow => ImplementsReliableChannel)
<1> SUFFICES ASSUME Counting PROVE Spec /\ []NumbersInWindow => ImplementsReliableChannel
  OBVIOUS
<1>1. Spec => []IInv
  BY NumbersStayConsistent
<1>2. Spec /\ []NumbersInWindow => []WindowInv
  BY ConclusionsHold
<1>3. Init => Channel!Init
  BY InitChannel
<1>4. IInv /\ IInv' /\ WindowInv /\ NumbersInWindow /\ [Next]_vars => [Channel!Next]_(Channel!vars)
  BY NextIsChannels
<1> QED
  BY <1>1, <1>2, <1>3, <1>4, PTL DEF Spec, ImplementsReliableChannel, Channel!Spec

-----------------------------------------------------------------------------
\* What is proved of the channel, for the channel of this link.
Promised == INSTANCE ReliableChannelProofs WITH
    offered     <- [e \in Ends |-> script[e]],
    outstanding <- [e \in Ends |-> {i \in Reliables(e) : Waits(e, i)}],
    inbox       <- [e \in Ends |-> Arrived(e)],
    read        <- [e \in Ends |-> Len(processed[e])],
    renumbered  <- zeroed

LEMMA SameInit == Channel!Init => Promised!Init
BY DEF Channel!Init, Promised!Init

LEMMA SameNext == [Channel!Next]_(Channel!vars) => [Promised!Next]_(Promised!vars)
<1>2. ASSUME NEW e PROVE Promised!Other(e) = Channel!Other(e)
  BY DEF Promised!Other, Channel!Other
<1>3. ASSUME NEW e, NEW flag PROVE Promised!Flagged(e, flag) = Channel!Flagged(e, flag)
  BY DEF Promised!Flagged, Channel!Flagged
<1>4. ASSUME NEW e PROVE Promised!Ordered(e) = Channel!Ordered(e)
  BY <1>3 DEF Promised!Ordered, Channel!Ordered
<1>5. ASSUME NEW e, Channel!Accept(e) PROVE Promised!Accept(e)
  BY <1>3, <1>5 DEF Promised!Accept, Channel!Accept
<1>6. ASSUME NEW e, Channel!Renumber(e) PROVE Promised!Renumber(e)
  BY <1>6 DEF Promised!Renumber, Channel!Renumber
<1>7. ASSUME NEW e, NEW arrived, NEW i, Channel!MayArrive(e, arrived, i) PROVE Promised!MayArrive(e, arrived, i)
  BY <1>2, <1>3, <1>4, <1>7 DEF Promised!MayArrive, Channel!MayArrive, Promised!ToSet, Channel!ToSet
<1>8. ASSUME NEW a, NEW b, Channel!IsPrefix(a, b) PROVE Promised!IsPrefix(a, b)
  BY <1>8 DEF Promised!IsPrefix, Channel!IsPrefix
<1>9. ASSUME NEW e, Channel!Arrivals(e) PROVE Promised!Arrivals(e)
  BY <1>7, <1>8, <1>9 DEF Promised!Arrivals, Channel!Arrivals
<1>10. ASSUME NEW e, Channel!Release(e) PROVE Promised!Release(e)
  <2> DEFINE inbox == [f \in Ends |-> Arrived(f)]
  <2>1. Promised!ToSet(inbox[Channel!Other(e)]) = Channel!ToSet(inbox[Channel!Other(e)])
    BY DEF Promised!ToSet, Channel!ToSet
  <2>2. Promised!ToSet(inbox[Promised!Other(e)]) = Channel!ToSet(inbox[Channel!Other(e)])
    BY <1>2, <2>1
  <2> QED
    BY <1>10, <2>2 DEF Promised!Release, Channel!Release
<1>11. ASSUME NEW e, Channel!Exchange(e) PROVE Promised!Exchange(e)
  BY <1>9, <1>10, <1>11 DEF Promised!Exchange, Channel!Exchange
<1>12. ASSUME UNCHANGED Channel!vars PROVE UNCHANGED Promised!vars
  BY <1>12 DEF Promised!vars, Channel!vars
<1>13. ASSUME Channel!Next PROVE Promised!Next
  BY <1>5, <1>6, <1>11, <1>13 DEF Promised!Next, Channel!Next
<1> QED
  BY <1>12, <1>13

LEMMA SameSpec == Channel!Spec => Promised!Spec
BY SameInit, SameNext, PTL DEF Channel!Spec, Promised!Spec

LEMMA PromisesKept ==
    Counting => (Spec /\ []NumbersInWindow => []Promised!ChannelInv)
<1>1. Promised!TwoEnds
  <2>1. "client" # "server" /\ Ends = {"client", "server"}
    BY DEF Ends
  <2> QED
    BY <2>1 DEF Promised!TwoEnds
<1>2. Promised!Spec => []Promised!ChannelInv
  BY <1>1, Promised!ChannelInvariant
<1> QED
  BY <1>2, LinkImplementsChannel, SameSpec, PTL DEF ImplementsReliableChannel

-----------------------------------------------------------------------------
\* The promises of the channel in the terms of the link.
LEMMA PromisedTerms ==
    ASSUME IInv, NEW e \in Ends
    PROVE  /\ Promised!Other(e) = Other(e)
           /\ Promised!Ordered(e) = InOrder(e)
           /\ \A i \in 1 .. Len(script[e]) :
                /\ i \in Promised!Flagged(e, "unsequenced") <=> IsUnsequenced(GameMessage(e, i))
                /\ i \in Promised!Flagged(e, "reliable") <=> IsReliable(GameMessage(e, i))
<1>1. \A flag : Promised!Flagged(e, flag) = Channel!Flagged(e, flag)
  BY DEF Promised!Flagged, Channel!Flagged
<1>2. Promised!Ordered(e) = Channel!Ordered(e)
  BY <1>1 DEF Promised!Ordered, Channel!Ordered
<1>3. Promised!Other(e) = Channel!Other(e)
  BY DEF Promised!Other, Channel!Other
<1>4. script \in Scripts
  BY DEF IInv, Shape
<1>5. Channel!Other(e) = Other(e)
  BY ChannelOther
<1>6. /\ Channel!Ordered(e) = InOrder(e)
      /\ \A i \in 1 .. Len(script[e]) :
            /\ i \in Channel!Flagged(e, "unsequenced") <=> IsUnsequenced(GameMessage(e, i))
            /\ i \in Channel!Flagged(e, "reliable") <=> IsReliable(GameMessage(e, i))
  BY <1>4, ChannelFlags
<1> QED
  BY <1>1, <1>2, <1>3, <1>5, <1>6

LEMMA OnceFromChannel == IInv /\ Promised!ArrivedOnce => ProcessedOnce
<1> SUFFICES ASSUME IInv, Promised!ArrivedOnce, NEW e \in Ends, NEW i \in Sequenced(e) \ zeroed[e]
             PROVE  Cardinality(Arrivals(e, i)) <= 1
  BY DEF ProcessedOnce
<1> DEFINE o == Other(e)
           arrived == Arrived(o)
<1>1. o \in Ends /\ Other(o) = e /\ Direction(e)
  BY OtherEnd DEF IInv
<1>2. arrived \in Seq(Nat) /\ DOMAIN arrived \subseteq Nat
  <2>1. arrived \in Seq(Nat)
    BY <1>1, ArrivedType
  <2> QED
    BY <2>1, LenProperties
<1>3. i \in 1 .. Len(script[e]) /\ i \in 1 .. accepted[e] /\ ~IsUnsequenced(GameMessage(e, i))
  <2>1. i \in 1 .. accepted[e] /\ ~IsUnsequenced(GameMessage(e, i))
    BY DEF Sequenced
  <2>2. accepted[e] \in 0 .. Len(script[e])
    BY <1>1 DEF Direction, SendSide
  <2>3. Len(script[e]) \in Nat
    BY ScriptType DEF IInv, Shape
  <2> QED
    BY <2>1, <2>2, <2>3
<1>4. Promised!Other(o) = e
  BY <1>1, PromisedTerms
<1>5. i \notin zeroed[e] \cup Promised!Flagged(e, "unsequenced")
  BY <1>3, PromisedTerms
<1>6. \A j, k \in DOMAIN arrived : j < k /\ arrived[j] = arrived[k] =>
            arrived[k] \in zeroed[e] \cup Promised!Flagged(e, "unsequenced")
  BY <1>1, <1>4 DEF Promised!ArrivedOnce
<1>7. Arrivals(e, i) = {k \in DOMAIN arrived : arrived[k] = i}
  BY DEF Arrivals
<1> HIDE DEF arrived
<1>8. \A j, k \in Arrivals(e, i) : ~(j < k) /\ j \in Nat /\ k \in Nat
  BY <1>2, <1>5, <1>6, <1>7
<1>9. \A j, k \in Arrivals(e, i) : j = k
  BY <1>8
<1>10. CASE Arrivals(e, i) = {}
  <2>1. Cardinality({}) = 0
    BY FS_EmptySet
  <2> QED
    BY <1>10, <2>1
<1>11. CASE Arrivals(e, i) # {}
  <2>1. PICK j : Arrivals(e, i) = {j}
    BY <1>9, <1>11
  <2>2. Cardinality({j}) = 1
    BY FS_Singleton
  <2> QED
    BY <2>1, <2>2
<1> QED
  BY <1>10, <1>11

LEMMA OrderFromChannel == IInv /\ Promised!OrderedArrive => OrderedInOrder
<1> SUFFICES ASSUME IInv, Promised!OrderedArrive, NEW e \in Ends,
                    NEW j \in DOMAIN processed[e], NEW k \in DOMAIN processed[e], j < k,
                    IsInOrder(GameMessage(Other(e), processed[e][j])),
                    IsInOrder(GameMessage(Other(e), processed[e][k]))
             PROVE  processed[e][j] < processed[e][k]
  BY DEF OrderedInOrder
<1> DEFINE o == Other(e)
           read == processed[e]
           ids == GameIDs(held[e])
<1>1. /\ o \in Ends /\ Other(o) = e /\ Direction(o) /\ script \in Scripts
      /\ accepted[o] \in 0 .. Len(script[o]) /\ Len(script[o]) \in Nat
      /\ read \in Seq(1 .. accepted[o]) /\ held[e] \in Seq(MailOf(o))
      /\ \A m \in MailOf(o) : m.id \in 0 .. accepted[o]
  BY OtherEnd, ScriptType, IDsAccepted DEF IInv, Shape, Direction, SendSide, ReceiveSide
<1>2. ids \in Seq(Nat)
  <2> DEFINE M == MailOf(o)
  <2>1. held[e] \in Seq(M) /\ \A m \in M : m.id \in Nat
    BY <1>1
  <2> HIDE DEF M
  <2> QED
    BY <2>1, GameIDsType
<1>3. read \in Seq(Nat)
  <2>1. 1 .. accepted[o] \subseteq Nat
    BY <1>1
  <2> QED
    BY <1>1, <2>1, SeqMonotonic
<1>4. Arrived(e) = read \o ids
  BY DEF Arrived
<1> HIDE DEF ids, read
<1>5. /\ DOMAIN read = 1 .. Len(read) /\ Len(read) \in Nat /\ Len(ids) \in Nat
      /\ read \o ids \in Seq(Nat) /\ Len(read \o ids) = Len(read) + Len(ids)
      /\ \A n \in 1 .. Len(read) + Len(ids) : (read \o ids)[n] = IF n <= Len(read) THEN read[n] ELSE ids[n - Len(read)]
  BY <1>2, <1>3, LenProperties, ConcatProperties
<1>6. DOMAIN Arrived(e) = 1 .. Len(read) + Len(ids)
  BY <1>4, <1>5, LenProperties
<1>7. \A n \in DOMAIN read : n \in DOMAIN Arrived(e) /\ Arrived(e)[n] = read[n]
  BY <1>4, <1>5, <1>6
<1>8. \A n \in DOMAIN read : read[n] \in 1 .. Len(script[o])
  <2>1. \A n \in DOMAIN read : read[n] \in 1 .. accepted[o]
    BY <1>1, <1>5, ElementOfSeq
  <2> QED
    BY <1>1, <2>1
<1>9. j \in DOMAIN read /\ k \in DOMAIN read
  BY DEF read
<1>10. {read[j], read[k]} \subseteq InOrder(o)
  BY <1>8, <1>9 DEF InOrder, read
<1>11. Promised!Ordered(Promised!Other(e)) = InOrder(o)
  <2>1. Promised!Other(e) = o
    BY PromisedTerms
  <2>2. Promised!Ordered(o) = InOrder(o)
    BY <1>1, PromisedTerms
  <2> QED
    BY <2>1, <2>2
<1>12. \A l, n \in DOMAIN Arrived(e) :
            l < n /\ {Arrived(e)[l], Arrived(e)[n]} \subseteq InOrder(o) => Arrived(e)[l] < Arrived(e)[n]
  BY <1>11 DEF Promised!OrderedArrive
<1> QED
  BY <1>7, <1>9, <1>10, <1>12 DEF read

LEMMA ReliablesFromChannel == IInv /\ Promised!ReliablesAccountedFor => ReliablesKept
<1> SUFFICES ASSUME IInv, Promised!ReliablesAccountedFor, NEW e \in Ends, NEW i \in Reliables(e)
             PROVE  Waits(e, i) \/ Arrivals(e, i) # {}
  BY DEF ReliablesKept
<1> DEFINE o == Other(e)
<1>1. o \in Ends /\ Direction(e)
  BY OtherEnd DEF IInv
<1>2. i \in 1 .. accepted[e] /\ IsReliable(GameMessage(e, i)) /\ i \in 1 .. Len(script[e])
  <2>1. i \in 1 .. accepted[e] /\ IsReliable(GameMessage(e, i))
    BY DEF Reliables
  <2>2. accepted[e] \in 0 .. Len(script[e])
    BY <1>1 DEF Direction, SendSide
  <2>3. Len(script[e]) \in Nat
    BY ScriptType DEF IInv, Shape
  <2> QED
    BY <2>1, <2>2, <2>3
<1>3. i \in Promised!Flagged(e, "reliable") /\ Promised!Other(e) = o
  BY <1>2, PromisedTerms
<1>4. i \in [f \in Ends |-> {k \in Reliables(f) : Waits(f, k)}][e]
            \cup Promised!ToSet([f \in Ends |-> Arrived(f)][Promised!Other(e)])
  BY <1>2, <1>3 DEF Promised!ReliablesAccountedFor
<1>5. i \in {k \in Reliables(e) : Waits(e, k)} \/ i \in ToSet(Arrived(o))
  <2>1. Promised!ToSet(Arrived(o)) = ToSet(Arrived(o))
    BY DEF Promised!ToSet, ToSet
  <2>2. [f \in Ends |-> Arrived(f)][Promised!Other(e)] = Arrived(o)
    BY <1>1, <1>3
  <2> QED
    BY <1>4, <2>1, <2>2
<1>6. i \in ToSet(Arrived(o)) => Arrivals(e, i) # {}
  BY DEF Arrivals, ToSet
<1> QED
  BY <1>5, <1>6

-----------------------------------------------------------------------------
\* No retransmission and no duplicate of a packet makes the other end take a
\* message twice, if its sequence was never 0.
THEOREM ProcessedAtMostOnce ==
    Counting => (Spec /\ []NumbersInWindow => []ProcessedOnce)
<1>1. Promised!ChannelInv => Promised!ArrivedOnce
  BY DEF Promised!ChannelInv
<1> QED
  BY <1>1, NumbersStayConsistent, PromisesKept, OnceFromChannel, PTL

\* Ordered unreliable messages are processed in the order they were sent.
THEOREM ProcessedInOrder ==
    Counting => (Spec /\ []NumbersInWindow => []OrderedInOrder)
<1>1. Promised!ChannelInv => Promised!OrderedArrive
  BY DEF Promised!ChannelInv
<1> QED
  BY <1>1, NumbersStayConsistent, PromisesKept, OrderFromChannel, PTL

\* A reliable message waits at its sender until the other end has it.
THEOREM ReliablesNeverLost ==
    Counting => (Spec /\ []NumbersInWindow => []ReliablesKept)
<1>1. Promised!ChannelInv => Promised!ReliablesAccountedFor
  BY DEF Promised!ChannelInv
<1> QED
  BY <1>1, NumbersStayConsistent, PromisesKept, ReliablesFromChannel, PTL

-----------------------------------------------------------------------------
\* Each end has numbered less than half a range of messages, the reach of the
\* acknowledgement bits included, since the moment the behaviour begins with,
\* and the round counter has not wrapped.
FewNumbered ==
    \A e \in Ends :
        /\ numbered[e] < Rounds * Modulus
        /\ numbered[e] + AckBits < Exchanged + Half

LEMMA NumbersOfWindow ==
    ASSUME IInv, NEW e \in Ends, NEW n \in InUse(e),
           Newest(rx[Other(e)]) \in Exchanged .. numbered[e],
           \A packet \in ToSet(net[e]) : packet.newest \in Exchanged .. Newest(rx[Other(e)])
    PROVE  n \in Int /\ n >= Exchanged - AckBits /\ n <= numbered[e]
<1>1. Direction(e) /\ Direction(Other(e)) /\ Exchanged \in Nat /\ AckBits \in Nat /\ numbered[e] \in Nat
  BY OtherEnd, LinkAssumption, SequenceAssumption DEF IInv, Direction, SendSide
<1>2. numbered[e] >= Exchanged
  BY <1>1 DEF Direction, SendSide
<1>3. CASE n = numbered[e]
  BY <1>1, <1>2, <1>3
<1>4. ASSUME NEW m \in Used(e), n = m.number PROVE n \in Int /\ n >= Exchanged - AckBits /\ n <= numbered[e]
  <2>1. m.number \in Exchanged + 1 .. numbered[e]
    BY <1>1 DEF Direction, Numbering, Consistent, Spelled
  <2> QED
    BY <1>1, <1>4, <2>1
<1>5. ASSUME NEW packet \in ToSet(net[e]), n \in AckedNumbers(packet)
      PROVE  n \in Int /\ n >= Exchanged - AckBits /\ n <= numbered[e]
  <2>1. packet.m_ackbits \subseteq 0 .. AckBits - 1
    <3>1. net[e] \in Seq(Datagrams(MailOf(Other(e))))
      BY <1>1, PacketBits
    <3>2. packet \in Datagrams(MailOf(Other(e)))
      BY <3>1, ToSetType
    <3> QED
      BY <3>2 DEF Datagrams
  <2>2. packet.newest \in Exchanged .. Newest(rx[Other(e)])
    OBVIOUS
  <2>3. Newest(rx[Other(e)]) \in Int /\ Newest(rx[Other(e)]) <= numbered[e]
    BY <1>1
  <2>4. packet.newest \in Int /\ packet.newest >= Exchanged /\ packet.newest <= numbered[e]
    BY <1>1, <2>2, <2>3
  <2>5. CASE n = packet.newest
    BY <1>1, <2>4, <2>5
  <2>6. ASSUME NEW i \in packet.m_ackbits, n = packet.newest - 1 - i
        PROVE  n \in Int /\ n >= Exchanged - AckBits /\ n <= numbered[e]
    <3>1. i \in 0 .. AckBits - 1
      BY <2>1, <2>6
    <3> QED
      BY <1>1, <2>4, <2>6, <3>1
  <2> QED
    BY <1>5, <2>5, <2>6 DEF AckedNumbers
<1>6. \/ n = numbered[e]
      \/ \E m \in Used(e) : n = m.number
      \/ \E packet \in ToSet(net[e]) : n \in AckedNumbers(packet)
  BY DEF InUse, Used, Waiting, Carried, AckedNumbers
<1> QED
  BY <1>3, <1>4, <1>5, <1>6

\* What the window needs to know of an end that numbered few messages.
LEMMA FewInWindow ==
    ASSUME IInv, FewNumbered,
           \A e \in Ends :
                /\ Newest(rx[Other(e)]) \in Exchanged .. numbered[e]
                /\ \A packet \in ToSet(net[e]) : packet.newest \in Exchanged .. Newest(rx[Other(e)])
    PROVE  NumbersInWindow
<1> SUFFICES ASSUME NEW e \in Ends, NEW n \in InUse(e)
             PROVE  Newest(rx[Other(e)]) - Half < n /\ n < Newest(rx[Other(e)]) + Half
  BY DEF NumbersInWindow, FewNumbered
<1>1. n \in Int /\ n >= Exchanged - AckBits /\ n <= numbered[e]
  BY NumbersOfWindow
<1>2. /\ Exchanged \in Nat /\ AckBits \in Nat /\ Half \in Nat /\ numbered[e] \in Nat
      /\ numbered[e] + AckBits < Exchanged + Half
  BY LinkAssumption, SequenceAssumption DEF FewNumbered, IInv, Direction, SendSide
<1>3. Newest(rx[Other(e)]) \in Exchanged .. numbered[e]
  OBVIOUS
<1>4. Newest(rx[Other(e)]) \in Int /\ Newest(rx[Other(e)]) >= Exchanged /\ Newest(rx[Other(e)]) <= numbered[e]
  BY <1>2, <1>3
<1> QED
  BY <1>1, <1>2, <1>4

LEMMA WindowHolds == IInv /\ WindowInv /\ FewNumbered => NumbersInWindow
<1> SUFFICES ASSUME IInv, WindowInv, FewNumbered PROVE NumbersInWindow
  OBVIOUS
<1>1. \A e \in Ends :
        /\ Newest(rx[Other(e)]) \in Exchanged .. numbered[e]
        /\ \A packet \in ToSet(net[e]) : packet.newest \in Exchanged .. Newest(rx[Other(e)])
  BY DEF WindowInv, Known, Recorded, EntriesKnown, AcksArrived
<1> QED
  BY <1>1, FewInWindow

LEMMA WindowBegins == Init /\ IInv /\ FewNumbered => NumbersInWindow
<1> SUFFICES ASSUME Init, IInv, FewNumbered PROVE NumbersInWindow
  OBVIOUS
<1>1. ASSUME NEW e \in Ends
      PROVE  /\ Newest(rx[Other(e)]) \in Exchanged .. numbered[e]
             /\ \A packet \in ToSet(net[e]) : packet.newest \in Exchanged .. Newest(rx[Other(e)])
  <2>1. rx[Other(e)] = ReceiverOf(Exchanged) /\ net[e] = <<>> /\ numbered[e] = Exchanged
    BY OtherEnd DEF Init
  <2>2. Exchanged \in Nat /\ Exchanged < Rounds * Modulus
    BY <2>1, LinkAssumption DEF FewNumbered
  <2>3. Newest(rx[Other(e)]) = Exchanged
    BY <2>1, <2>2, ReceiverOfType
  <2>4. ToSet(net[e]) = {}
    BY <2>1, EmptyIsEmpty
  <2> QED
    BY <2>1, <2>2, <2>3, <2>4
<1> QED
  BY <1>1, FewInWindow

\* However the network loses, duplicates, delays and reorders packets, the
\* numbers in use stay within half a range of the newest one received for as
\* long as few messages were numbered: an acknowledgement that is late cannot
\* be older than the behaviour.
THEOREM YoungStaysInWindow ==
    Counting => (Spec /\ []FewNumbered => []NumbersInWindow)
<1> SUFFICES ASSUME Counting PROVE Spec /\ []FewNumbered => []NumbersInWindow
  OBVIOUS
<1>1. Spec => []IInv
  BY NumbersStayConsistent
<1>2. Init /\ IInv /\ FewNumbered => WindowInv
  BY WindowBegins, InitKnown
<1>3. IInv /\ WindowInv /\ FewNumbered => NumbersInWindow
  BY WindowHolds
<1>4. IInv /\ FewNumbered /\ WindowInv /\ [Next]_vars => WindowInv'
  BY <1>3, NextKeepsWindowInv
<1> QED
  BY <1>1, <1>2, <1>3, <1>4, PTL DEF Spec

\* So what the applications are promised needs nothing of the network there: a
\* message is taken once, ordered ones in their order, and no reliable one is
\* given up before the other end has it.
THEOREM YoungKeepsPromises ==
    Counting => (Spec /\ []FewNumbered => [](ProcessedOnce /\ OrderedInOrder /\ ReliablesKept))
<1> QED
  BY YoungStaysInWindow, ProcessedAtMostOnce, ProcessedInOrder, ReliablesNeverLost, PTL
=============================================================================
