-------------------------- MODULE RemotePeerProofs --------------------------
(***************************************************************************)
(* What the operators of SequenceNumbers and RemotePeer return: the types  *)
(* of a send side, a receive side and a packet, for messages from any set  *)
(* M that does not tell sequences apart.  Whatever holds of every message  *)
(* a Peer hands to a RemotePeer holds of every message in its packets.     *)
(***************************************************************************)
EXTENDS RemotePeer, FiniteSetTheorems, FunctionTheorems, SequenceTheorems, TLAPS

\* Functions from a part of S.
PartialFunctions(S, T) == UNION {[D -> T] : D \in SUBSET S}

\* Receive sides, send sides and packets.
Receivers ==
    [m_sequenceIn : Sequences16, m_sequenceRound : 0 .. Rounds - 1,
     m_seqtrackReceived : PartialFunctions(Sequences16, 0 .. Rounds - 1)]

Senders(M) ==
    [m_sequenceOut : Sequences16, m_pendingMessages : Seq(M), m_reliableMessages : Seq(M)]

Packets(M) ==
    [m_ackseq : Sequences16, m_ackbits : SUBSET (0 .. AckBits - 1), messages : Seq(M)]

\* Giving a message a sequence does not take it out of M.
Renumbered(M) == \A m \in M, s \in Sequences16 : [m EXCEPT !.m_sequence = s] \in M

\* The rounds of the loops in ProcessAckBits, PendingTaken and AfterSend, and
\* what they keep.
AcknowledgeNext(messages, k, x) ==
    IF k - 1 \in x.ackbits THEN Acknowledge(messages, Wrap(x.ackseq - k)) ELSE messages

AreLeft(messages, k, x) ==
    /\ messages \in Seq(x.messages)
    /\ \A m \in x.waiting : m.m_sequence \notin x.acked => m \in ToSet(messages)

AddSize(size, k, pending) == size + pending[k].size

AnySize(size, k, pending) == TRUE

RequeueNext(messages, k, x) ==
    IF IsReliable(x.packet[k]) THEN Append(messages, x.packet[k]) ELSE messages

AreRequeued(messages, k, x) ==
    /\ messages \in Seq(x.messages)
    /\ ToSet(messages) = x.first \cup {m \in {x.packet[j] : j \in 1 .. k} : IsReliable(m)}

Acknowledging == INSTANCE Loops WITH Step <- AcknowledgeNext, Holds <- AreLeft
Sizing == INSTANCE Loops WITH Step <- AddSize, Holds <- AnySize
Requeueing == INSTANCE Loops WITH Step <- RequeueNext, Holds <- AreRequeued

-----------------------------------------------------------------------------
LEMMA PartialFunctionsType ==
    ASSUME NEW S, NEW T
    PROVE  \A f : f \in PartialFunctions(S, T) <=> DOMAIN f \subseteq S /\ f \in [DOMAIN f -> T]
BY DEF PartialFunctions

LEMMA EmptyPartialFunction == ASSUME NEW S, NEW T PROVE <<>> \in PartialFunctions(S, T)
<1>1. <<>> \in Seq(T) /\ Len(<<>>) = 0
  BY EmptySeq
<1>2. <<>> \in [1 .. 0 -> T]
  BY <1>1, LenProperties
<1>3. 1 .. 0 = {}
  OBVIOUS
<1> QED
  BY <1>2, <1>3 DEF PartialFunctions

LEMMA WrapType == ASSUME NEW n \in Int PROVE Wrap(n) \in Sequences16
<1>1. Modulus \in Nat /\ Modulus > 0
  BY SequenceAssumption DEF Modulus
<1>2. n % Modulus \in 0 .. Modulus - 1
  BY <1>1
<1> QED
  BY <1>2 DEF Wrap, Sequences16

LEMMA WrapRoundType == ASSUME NEW n \in Int PROVE WrapRound(n) \in 0 .. Rounds - 1
<1>1. Rounds \in Nat /\ Rounds > 0
  BY SequenceAssumption
<1> QED
  BY <1>1 DEF WrapRound

\* Arithmetic facts about numbers spelled as a round and a sequence.
LEMMA ModulusType == Modulus \in Nat /\ Modulus > 2 /\ Modulus = 2 * Half /\ Half \in Nat
BY SequenceAssumption DEF Modulus

\* A larger round is a whole Modulus further.
LEMMA RoundStep ==
    ASSUME NEW q \in Int, NEW r \in Int, q > r
    PROVE  q * Modulus >= r * Modulus + Modulus
BY ModulusType

LEMMA RoundBefore == ASSUME NEW r \in Int PROVE (r - 1) * Modulus = r * Modulus - Modulus
BY ModulusType

\* Wrapping a number that is at most one Modulus below range.
LEMMA WrapNear ==
    ASSUME NEW x \in Int
    PROVE  /\ 0 <= x /\ x < Modulus => Wrap(x) = x
           /\ x < 0 /\ 0 <= x + Modulus => Wrap(x) = x + Modulus
<1>0. x \div Modulus \in Int
  BY ModulusType
<1>1. x = (x \div Modulus) * Modulus + (x % Modulus)
  BY ModulusType
<1>2. x % Modulus \in 0 .. Modulus - 1
  BY ModulusType
<1> DEFINE d == x \div Modulus
<1> HIDE DEF d
<1>3. ASSUME 0 <= x, x < Modulus PROVE d = 0
  <2>1. ~(d > 0)
    BY <1>0, <1>1, <1>2, <1>3, RoundStep, ModulusType DEF d
  <2>2. ~(0 > d)
    BY <1>0, <1>1, <1>2, <1>3, RoundStep, ModulusType DEF d
  <2> QED
    BY <1>0, <2>1, <2>2 DEF d
<1>4. ASSUME x < 0, 0 <= x + Modulus PROVE d = -1
  <2>1. ~(d > -1)
    BY <1>0, <1>1, <1>2, <1>4, RoundStep, ModulusType DEF d
  <2>2. ~(-1 > d)
    BY <1>0, <1>1, <1>2, <1>4, RoundStep, ModulusType DEF d
  <2> QED
    BY <1>0, <2>1, <2>2 DEF d
<1>5. 0 * Modulus = 0 /\ (-1) * Modulus = -Modulus /\ Wrap(x) = x % Modulus
  BY ModulusType DEF Wrap
<1>6. x = d * Modulus + Wrap(x) /\ Wrap(x) \in Int
  BY <1>1, <1>2, <1>5 DEF d
<1> QED
  BY <1>3, <1>4, <1>5, <1>6, ModulusType

\* The round counter does not wrap within a connection.
LEMMA RoundRange ==
    ASSUME NEW n \in Nat, n < Rounds * Modulus
    PROVE  n \div Modulus \in 0 .. Rounds - 1
<1>1. n \in Nat /\ n < Rounds * Modulus /\ Rounds \in Nat
  BY SequenceAssumption
<1>2. n = (n \div Modulus) * Modulus + (n % Modulus)
  BY <1>1, ModulusType
<1>3. n % Modulus \in 0 .. Modulus - 1 /\ n \div Modulus \in Nat
  BY <1>1, ModulusType
<1> DEFINE d == n \div Modulus
<1> HIDE DEF d
<1>4. ~(d > Rounds)
  BY <1>1, <1>2, <1>3, RoundStep, ModulusType DEF d
<1>5. d # Rounds
  BY <1>1, <1>2, <1>3, ModulusType DEF d
<1> QED
  BY <1>1, <1>3, <1>4, <1>5 DEF d

LEMMA WrapRoundNear ==
    /\ \A r \in 0 .. Rounds - 1 : WrapRound(r) = r
    /\ WrapRound(-1) = Rounds - 1
BY SequenceAssumption DEF WrapRound

\* Every number is spelled by its round and its sequence.
LEMMA Spelling ==
    ASSUME NEW n \in Nat
    PROVE  /\ Wrap(n) \in Sequences16
           /\ n \div Modulus \in Nat
           /\ NumberOf(n \div Modulus, Wrap(n)) = n
<1>1. n = (n \div Modulus) * Modulus + (n % Modulus)
  BY ModulusType
<1>2. n % Modulus \in 0 .. Modulus - 1
  BY ModulusType
<1>3. n \div Modulus \in Nat
  BY ModulusType
<1> QED
  BY <1>1, <1>2, <1>3 DEF Wrap, Sequences16, NumberOf

\* Two spellings of nearby numbers with the same sequence are the same.
LEMMA SpellingOrder ==
    ASSUME NEW q \in Int, NEW r \in Int, NEW s \in Sequences16,
           NumberOf(q, s) < NumberOf(r, s) + Modulus
    PROVE  q <= r
<1> SUFFICES ASSUME q > r PROVE FALSE
  OBVIOUS
<1>1. q * Modulus >= r * Modulus + Modulus
  BY RoundStep
<1> QED
  BY <1>1, ModulusType DEF NumberOf, Sequences16

LEMMA SpellingUnique ==
    ASSUME NEW r \in Int, NEW s \in Sequences16, NumberOf(r, s) \in Nat
    PROVE  Wrap(NumberOf(r, s)) = s /\ NumberOf(r, s) \div Modulus = r
<1> DEFINE n == NumberOf(r, s)
           q == n \div Modulus
           t == Wrap(n)
<1>1. t \in Sequences16 /\ q \in Int /\ q * Modulus + t = r * Modulus + s
  BY Spelling DEF NumberOf
<1>2. ~(q > r)
  <2> SUFFICES ASSUME q > r PROVE FALSE
    OBVIOUS
  <2>1. q * Modulus >= r * Modulus + Modulus
    BY <1>1, RoundStep
  <2> QED
    BY <2>1, <1>1, ModulusType DEF Sequences16
<1>3. ~(r > q)
  <2> SUFFICES ASSUME r > q PROVE FALSE
    OBVIOUS
  <2>1. r * Modulus >= q * Modulus + Modulus
    BY <1>1, RoundStep
  <2> QED
    BY <2>1, <1>1, ModulusType DEF Sequences16
<1>4. q = r
  BY <1>1, <1>2, <1>3
<1>5. q * Modulus = r * Modulus /\ r * Modulus \in Int
  BY <1>4, ModulusType
<1>6. t = s
  <2> HIDE DEF n, q, t
  <2> QED
    BY <1>1, <1>5 DEF Sequences16
<1> QED
  BY <1>4, <1>6

\* Wrapping a part of a sum first makes no difference.
LEMMA WrapSum ==
    ASSUME NEW a \in Nat, NEW b \in Nat
    PROVE  Wrap(Wrap(a) + b) = Wrap(a + b)
<1> DEFINE q == a \div Modulus
           t == Wrap(a)
           p == (t + b) \div Modulus
           s == Wrap(t + b)
<1>1. q \in Nat /\ t \in Nat /\ q * Modulus + t = a
  <2>1. q \in Nat /\ t \in Sequences16 /\ q * Modulus + t = a
    BY Spelling DEF NumberOf
  <2>2. \A n \in Sequences16 : n \in Nat
    BY ModulusType DEF Sequences16
  <2> QED
    BY <2>1, <2>2
<1> HIDE DEF q, t
<1>2. p \in Nat /\ s \in Sequences16 /\ p * Modulus + s = t + b
  <2>1. t + b \in Nat
    BY <1>1
  <2> QED
    BY <2>1, Spelling DEF NumberOf
<1> HIDE DEF p, s
<1>3. (q + p) * Modulus = q * Modulus + p * Modulus
  BY <1>1, <1>2, ModulusType
<1>4. s \in Nat /\ q * Modulus \in Nat /\ p * Modulus \in Nat
  BY <1>1, <1>2, ModulusType DEF Sequences16
<1>5. NumberOf(q + p, s) = a + b
  BY <1>1, <1>2, <1>3, <1>4 DEF NumberOf
<1>6. Wrap(a + b) = s
  BY <1>1, <1>2, <1>5, SpellingUnique
<1> QED
  BY <1>6 DEF s, t


\* The heart of the wrap-around logic: within Half of the newest number,
\* comparing sequences is comparing numbers, and the round an old sequence is
\* looked up under is its own.
LEMMA Window ==
    ASSUME NEW r \in Int, NEW in \in Sequences16, NEW q \in Int, NEW s \in Sequences16,
           NumberOf(r, in) - Half < NumberOf(q, s),
           NumberOf(q, s) < NumberOf(r, in) + Half
    PROVE  /\ IsSequenceNewer(s, in) <=> NumberOf(q, s) > NumberOf(r, in)
           /\ IsSequenceNewer(s, in) => q = IF s < in THEN r + 1 ELSE r
           /\ ~IsSequenceNewer(s, in) => q = IF s > in THEN r - 1 ELSE r
<1>1. q <= r + 1
  <2> SUFFICES ASSUME q > r + 1 PROVE FALSE
    OBVIOUS
  <2>1. q * Modulus >= (r + 1) * Modulus + Modulus
    BY RoundStep
  <2>2. (r + 1) * Modulus = r * Modulus + Modulus
    BY ModulusType
  <2> QED
    BY <2>1, <2>2, ModulusType DEF NumberOf, Sequences16
<1>2. q >= r - 1
  <2> SUFFICES ASSUME r - 1 > q PROVE FALSE
    OBVIOUS
  <2>1. (r - 1) * Modulus >= q * Modulus + Modulus
    BY RoundStep
  <2>2. (r - 1) * Modulus = r * Modulus - Modulus
    BY ModulusType
  <2> QED
    BY <2>1, <2>2, ModulusType DEF NumberOf, Sequences16
<1>3. CASE q = r
  BY <1>3, ModulusType DEF NumberOf, Sequences16, IsSequenceNewer
<1>4. CASE q = r + 1
  <2>1. q * Modulus = r * Modulus + Modulus
    BY <1>4, ModulusType
  <2> QED
    BY <1>4, <2>1, ModulusType DEF NumberOf, Sequences16, IsSequenceNewer
<1>5. CASE q = r - 1
  <2>1. q * Modulus = r * Modulus - Modulus
    BY <1>5, ModulusType
  <2> QED
    BY <1>5, <2>1, ModulusType DEF NumberOf, Sequences16, IsSequenceNewer
<1> QED
  BY <1>1, <1>2, <1>3, <1>4, <1>5

LEMMA NewReceiverType == NewReceiver \in Receivers
<1>1. 0 \in Sequences16 /\ 0 \in 0 .. Rounds - 1
  BY SequenceAssumption DEF Sequences16, Modulus
<1>2. <<>> \in PartialFunctions(Sequences16, 0 .. Rounds - 1)
  BY EmptyPartialFunction
<1> QED
  BY <1>1, <1>2 DEF NewReceiver, Receiver, Receivers

\* The sequence check of a message leaves a receive side.
LEMMA AfterSequenceCheckType ==
    ASSUME NEW rx \in Receivers, NEW s \in Sequences16, NEW ordered
    PROVE  AfterSequenceCheck(rx, s, ordered) \in Receivers
<1>1. /\ rx.m_sequenceRound \in 0 .. Rounds - 1
      /\ rx.m_sequenceRound \in Int
      /\ rx.m_seqtrackReceived \in PartialFunctions(Sequences16, 0 .. Rounds - 1)
  BY SequenceAssumption DEF Receivers
<1>2. SetSequenceIn(rx, s) \in Receivers
  BY <1>1, WrapRoundType DEF SetSequenceIn, Receivers, Receiver
<1>3. ASSUME NEW y \in Receivers, NEW newer \in BOOLEAN
      PROVE  SaveReceivedSequence(y, s, newer) \in Receivers
  <2> DEFINE entry == IF newer THEN y.m_sequenceRound ELSE RoundOf(y, s)
             old == y.m_seqtrackReceived
             new == [t \in DOMAIN old \cup {s} |-> IF t = s THEN entry ELSE old[t]]
  <2>1. /\ y.m_sequenceRound \in 0 .. Rounds - 1 /\ y.m_sequenceRound \in Int
        /\ old \in PartialFunctions(Sequences16, 0 .. Rounds - 1)
    BY SequenceAssumption DEF Receivers
  <2>2. entry \in 0 .. Rounds - 1
    BY <2>1, WrapRoundType DEF RoundOf
  <2>3. DOMAIN old \subseteq Sequences16 /\ old \in [DOMAIN old -> 0 .. Rounds - 1]
    BY <2>1, PartialFunctionsType
  <2> HIDE DEF entry
  <2>4. new \in [DOMAIN old \cup {s} -> 0 .. Rounds - 1]
    BY <2>2, <2>3
  <2>5. new \in PartialFunctions(Sequences16, 0 .. Rounds - 1)
    <3>1. DOMAIN old \cup {s} \in SUBSET Sequences16
      BY <2>3
    <3> HIDE DEF new, old
    <3> QED
      BY <2>4, <3>1 DEF PartialFunctions
  <2>6. SaveReceivedSequence(y, s, newer) = Receiver(y.m_sequenceIn, y.m_sequenceRound, new)
    BY DEF SaveReceivedSequence, entry
  <2> HIDE DEF new
  <2> QED
    BY <2>5, <2>6 DEF Receivers, Receiver
<1> QED
  BY <1>2, <1>3 DEF AfterSequenceCheck

LEMMA GetAckBitsType == ASSUME NEW rx PROVE GetAckBits(rx) \in SUBSET (0 .. AckBits - 1)
BY DEF GetAckBits

-----------------------------------------------------------------------------
LEMMA SenderType == ASSUME NEW M PROVE Sender(1) \in Senders(M)
<1>1. 1 \in Sequences16
  BY SequenceAssumption DEF Sequences16, Modulus
<1>2. <<>> \in Seq(M)
  BY EmptySeq
<1> QED
  BY <1>1, <1>2 DEF Sender, Senders

LEMMA EnqueueMessageType ==
    ASSUME NEW M, NEW tx \in Senders(M), NEW m \in M
    PROVE  EnqueueMessage(tx, m) \in Senders(M)
<1>1. Append(tx.m_pendingMessages, m) \in Seq(M)
  BY AppendProperties DEF Senders
<1> QED
  BY <1>1 DEF EnqueueMessage, Senders

\* The least element of a set of numbers.
LEMMA MinOfNats ==
    ASSUME NEW T \in SUBSET Nat, T # {}
    PROVE  Min(T) \in T /\ \A m \in T : Min(T) <= m
<1>1. PICK n \in T : \A m \in T : ~(m < n)
  BY Acknowledging!LeastElement
<1>2. \A m \in T : n <= m
  BY <1>1
<1> QED
  BY <1>2 DEF Min

LEMMA RemoveAtType ==
    ASSUME NEW M, NEW messages \in Seq(M), NEW i \in DOMAIN messages
    PROVE  RemoveAt(messages, i) \in Seq(M)
<1>1. Len(messages) \in Nat /\ DOMAIN messages = 1 .. Len(messages)
  BY LenProperties
<1>2. \A j \in 1 .. Len(messages) : messages[j] \in M
  BY ElementOfSeq
<1>3. SubSeq(messages, 1, i - 1) \in Seq(M)
  BY <1>1, <1>2, SubSeqProperties
<1>4. SubSeq(messages, i + 1, Len(messages)) \in Seq(M)
  BY <1>1, <1>2, SubSeqProperties
<1> QED
  BY <1>3, <1>4, ConcatProperties DEF RemoveAt

LEMMA ToSetType ==
    ASSUME NEW M, NEW messages \in Seq(M)
    PROVE  /\ ToSet(messages) = {messages[j] : j \in 1 .. Len(messages)}
           /\ ToSet(messages) \subseteq M
           /\ messages \in Seq(ToSet(messages))
<1>1. Len(messages) \in Nat /\ DOMAIN messages = 1 .. Len(messages)
  BY LenProperties
<1>2. \A j \in 1 .. Len(messages) : messages[j] \in M
  BY ElementOfSeq
<1>3. messages \in [1 .. Len(messages) -> ToSet(messages)]
  BY <1>1, LenProperties DEF ToSet
<1>4. messages \in Seq(ToSet(messages))
  BY <1>1, <1>3
<1> QED
  BY <1>1, <1>2, <1>4 DEF ToSet

LEMMA ToSetAppend ==
    ASSUME NEW M, NEW messages \in Seq(M), NEW m
    PROVE  ToSet(Append(messages, m)) = ToSet(messages) \cup {m}
<1> DEFINE n == Len(messages)
           longer == Append(messages, m)
<1>1. messages \in Seq(M \cup {m}) /\ m \in M \cup {m} /\ n \in Nat /\ DOMAIN messages = 1 .. n
  BY LenProperties, SeqMonotonic
<1>2. /\ longer \in Seq(M \cup {m}) /\ Len(longer) = n + 1
      /\ \A j \in 1 .. n : longer[j] = messages[j]
      /\ longer[n + 1] = m
  BY <1>1, AppendProperties
<1> HIDE DEF longer, n
<1>3. DOMAIN longer = 1 .. n + 1 /\ 1 .. n + 1 = (1 .. n) \cup {n + 1}
  BY <1>1, <1>2, LenProperties
<1>4. ToSet(longer) = ToSet(messages) \cup {m}
  BY <1>1, <1>2, <1>3 DEF ToSet
<1> QED
  BY <1>4 DEF longer

\* Removing one message keeps the others.
LEMMA RemoveAtKeeps ==
    ASSUME NEW M, NEW messages \in Seq(M), NEW i \in DOMAIN messages,
           NEW j \in DOMAIN messages, i # j
    PROVE  messages[j] \in ToSet(RemoveAt(messages, i))
<1> DEFINE n == Len(messages)
           before == SubSeq(messages, 1, i - 1)
           behind == SubSeq(messages, i + 1, n)
<1>1. n \in Nat /\ i \in 1 .. n /\ j \in 1 .. n /\ i \in Int /\ j \in Int
  BY LenProperties
<1>2. \A k \in 1 .. n : messages[k] \in M
  BY ElementOfSeq
<1>3. /\ before \in Seq(M) /\ Len(before) = i - 1
      /\ \A k \in 1 .. i - 1 : before[k] = messages[k]
  BY <1>1, <1>2, SubSeqProperties
<1>4. /\ behind \in Seq(M) /\ Len(behind) = n - i
      /\ \A k \in 1 .. n - i : behind[k] = messages[i + k]
  BY <1>1, <1>2, SubSeqProperties
<1>5. RemoveAt(messages, i) = before \o behind
  BY DEF RemoveAt
<1> HIDE DEF before, behind
<1> DEFINE both == before \o behind
<1>6. /\ both \in Seq(M) /\ Len(both) = n - 1
      /\ \A k \in 1 .. n - 1 : both[k] = IF k <= i - 1 THEN before[k] ELSE behind[k - (i - 1)]
  <2>1. /\ both \in Seq(M) /\ Len(both) = Len(before) + Len(behind)
        /\ \A k \in 1 .. Len(before) + Len(behind) :
                both[k] = IF k <= Len(before) THEN before[k] ELSE behind[k - Len(before)]
    BY <1>3, <1>4, ConcatProperties
  <2>2. Len(before) + Len(behind) = n - 1
    BY <1>1, <1>3, <1>4
  <2> HIDE DEF both, n
  <2> QED
    BY <1>3, <2>1, <2>2
<1>7. DOMAIN both = 1 .. n - 1
  BY <1>6, LenProperties
<1> HIDE DEF both, n
<1>8. \E place \in 1 .. n - 1 : both[place] = messages[j]
  <2>1. CASE j < i
    <3>1. j \in 1 .. n - 1 /\ j \in 1 .. i - 1 /\ j <= i - 1
      BY <1>1, <2>1
    <3> QED
      BY <1>3, <1>6, <3>1
  <2>2. CASE j > i
    <3>1. /\ j - 1 \in 1 .. n - 1 /\ ~(j - 1 <= i - 1) /\ (j - 1) - (i - 1) = j - i
          /\ j - i \in 1 .. n - i /\ i + (j - i) = j
      BY <1>1, <2>2
    <3> QED
      BY <1>4, <1>6, <3>1
  <2> QED
    BY <1>1, <2>1, <2>2
<1> QED
  BY <1>5, <1>7, <1>8 DEF ToSet, both

LEMMA AcknowledgeKeeps ==
    ASSUME NEW M, NEW messages \in Seq(M), NEW s,
           NEW m \in ToSet(messages), m.m_sequence # s
    PROVE  m \in ToSet(Acknowledge(messages, s))
<1> DEFINE found == {i \in DOMAIN messages : messages[i].m_sequence = s}
<1>1. found \subseteq DOMAIN messages /\ found \in SUBSET Nat
  BY LenProperties
<1>2. CASE found = {}
  BY <1>2 DEF Acknowledge
<1>3. CASE found # {}
  <2>1. Min(found) \in found
    <3> HIDE DEF found
    <3> QED
      BY <1>1, <1>3, MinOfNats
  <2>2. PICK j \in DOMAIN messages : m = messages[j]
    BY DEF ToSet
  <2>3. Acknowledge(messages, s) = RemoveAt(messages, Min(found))
    BY <1>3 DEF Acknowledge
  <2>4. Min(found) \in DOMAIN messages /\ Min(found) # j
    BY <2>1, <2>2
  <2> HIDE DEF found
  <2> QED
    BY <2>2, <2>3, <2>4, RemoveAtKeeps
<1> QED
  BY <1>2, <1>3

LEMMA AcknowledgeType ==
    ASSUME NEW M, NEW messages \in Seq(M), NEW s
    PROVE  Acknowledge(messages, s) \in Seq(M)
<1> DEFINE found == {i \in DOMAIN messages : messages[i].m_sequence = s}
<1>1. found \subseteq DOMAIN messages /\ found \in SUBSET Nat
  BY LenProperties
<1>2. CASE found = {}
  BY <1>2 DEF Acknowledge
<1>3. CASE found # {}
  <2>1. Min(found) \in DOMAIN messages
    <3> HIDE DEF found
    <3> QED
      BY <1>1, <1>3, MinOfNats
  <2> QED
    BY <1>3, <2>1, RemoveAtType DEF Acknowledge
<1> QED
  BY <1>2, <1>3

\* The sequences that a packet acknowledges.
AckedSequences(ackseq, ackbits) == {ackseq} \cup {Wrap(ackseq - (i + 1)) : i \in ackbits}

\* Acknowledgements take messages away, but none that they do not name.
LEMMA ProcessAckBitsEffect ==
    ASSUME NEW M, NEW tx \in Senders(M), NEW ackseq, NEW ackbits
    PROVE  \E left \in Seq(M) :
                /\ ProcessAckBits(tx, ackseq, ackbits) = [tx EXCEPT !.m_reliableMessages = left]
                /\ \A m \in ToSet(tx.m_reliableMessages) :
                        m.m_sequence \notin AckedSequences(ackseq, ackbits) => m \in ToSet(left)
<1> DEFINE x == [ackseq |-> ackseq, ackbits |-> ackbits, messages |-> M,
                 waiting |-> ToSet(tx.m_reliableMessages),
                 acked |-> AckedSequences(ackseq, ackbits)]
           first == Acknowledge(tx.m_reliableMessages, ackseq)
           IsAfter(f) == f = [k \in 0 .. AckBits |->
                IF k = 0 THEN Acknowledge(tx.m_reliableMessages, ackseq)
                ELSE IF k - 1 \in ackbits THEN Acknowledge(f[k - 1], Wrap(ackseq - k))
                ELSE f[k - 1]]
           after == CHOOSE f : IsAfter(f)
<1>1. AckBits \in Nat /\ tx.m_reliableMessages \in Seq(M)
  BY SequenceAssumption DEF Senders
<1>2. PICK r : Acknowledging!IsLoop(r, AckBits, first, x)
  BY <1>1, Acknowledging!LoopExists
<1>3. IsAfter(r)
  BY <1>2 DEF Acknowledging!IsLoop, AcknowledgeNext
<1>4. IsAfter(after)
  BY <1>3
<1>5. Acknowledging!IsLoop(after, AckBits, first, x)
  BY <1>4 DEF Acknowledging!IsLoop, AcknowledgeNext
<1>6. AreLeft(first, 0, x)
  <2>1. ackseq \in x.acked
    BY DEF AckedSequences
  <2>2. \A m \in x.waiting : m.m_sequence \notin x.acked => m \in ToSet(first)
    BY <1>1, <2>1, AcknowledgeKeeps
  <2>3. first \in Seq(M)
    BY <1>1, AcknowledgeType
  <2> QED
    BY <2>2, <2>3 DEF AreLeft
<1>7. ASSUME NEW k \in 1 .. AckBits, NEW s, AreLeft(s, k - 1, x)
      PROVE  AreLeft(AcknowledgeNext(s, k, x), k, x)
  <2>1. CASE k - 1 \notin ackbits
    BY <1>7, <2>1 DEF AreLeft, AcknowledgeNext
  <2>2. CASE k - 1 \in ackbits
    <3>1. AcknowledgeNext(s, k, x) = Acknowledge(s, Wrap(ackseq - k))
      BY <2>2 DEF AcknowledgeNext
    <3>2. Wrap(ackseq - k) \in x.acked
      <4>1. (k - 1) + 1 = k
        BY <1>1
      <4> QED
        BY <2>2, <4>1 DEF AckedSequences
    <3>3. s \in Seq(M) /\ \A m \in x.waiting : m.m_sequence \notin x.acked => m \in ToSet(s)
      BY <1>7 DEF AreLeft
    <3> DEFINE t == Acknowledge(s, Wrap(ackseq - k))
    <3>4. t \in Seq(M)
      BY <3>3, AcknowledgeType
    <3>5. \A m \in x.waiting : m.m_sequence \notin x.acked => m \in ToSet(t)
      BY <3>2, <3>3, AcknowledgeKeeps
    <3> QED
      BY <3>1, <3>4, <3>5 DEF AreLeft
  <2> QED
    BY <2>1, <2>2
<1>8. ProcessAckBits(tx, ackseq, ackbits) = [tx EXCEPT !.m_reliableMessages = after[AckBits]]
  BY DEF ProcessAckBits
<1> HIDE DEF after
<1>9. \A k \in 0 .. AckBits : AreLeft(after[k], k, x)
  <2> HIDE DEF x, first
  <2> QED
    BY <1>1, <1>5, <1>6, <1>7, Acknowledging!LoopInvariant
<1>10. AreLeft(after[AckBits], AckBits, x)
  BY <1>1, <1>9
<1> QED
  BY <1>8, <1>10 DEF AreLeft

LEMMA ProcessAckBitsType ==
    ASSUME NEW M, NEW tx \in Senders(M), NEW ackseq, NEW ackbits
    PROVE  ProcessAckBits(tx, ackseq, ackbits) \in Senders(M)
<1>1. PICK left \in Seq(M) :
            ProcessAckBits(tx, ackseq, ackbits) = [tx EXCEPT !.m_reliableMessages = left]
  BY ProcessAckBitsEffect
<1> QED
  BY <1>1 DEF Senders

-----------------------------------------------------------------------------
LEMMA OldestReliableType ==
    ASSUME NEW M, NEW tx \in Senders(M)
    PROVE  /\ OldestReliable(tx) \in Seq(M)
           /\ Len(OldestReliable(tx)) \in 0 .. Len(tx.m_reliableMessages)
<1>1. tx.m_reliableMessages \in Seq(M) /\ Len(tx.m_reliableMessages) \in Nat
  BY LenProperties DEF Senders
<1>2. CASE tx.m_reliableMessages = <<>>
  BY <1>1, <1>2, EmptySeq DEF OldestReliable
<1>3. CASE tx.m_reliableMessages # <<>>
  <2>1. Head(tx.m_reliableMessages) \in M /\ Len(tx.m_reliableMessages) > 0
    BY <1>1, <1>3, EmptySeq, HeadTailProperties
  <2>2. OldestReliable(tx) = <<Head(tx.m_reliableMessages)>>
    BY <1>3 DEF OldestReliable
  <2> QED
    BY <1>1, <2>1, <2>2
<1> QED
  BY <1>2, <1>3

LEMMA PendingTakenType ==
    ASSUME NEW M, NEW tx \in Senders(M)
    PROVE  PendingTaken(tx) \in 0 .. Len(tx.m_pendingMessages)
<1> DEFINE pending == tx.m_pendingMessages
           N == Len(pending)
           first == Size(OldestReliable(tx))
           IsSizes(f) == f = [k \in 0 .. Len(pending) |->
                IF k = 0 THEN Size(OldestReliable(tx)) ELSE f[k - 1] + pending[k].size]
           sizeWith == CHOOSE f : IsSizes(f)
           full == {k \in DOMAIN sizeWith : sizeWith[k] >= MaximumPacketSize}
<1>1. N \in Nat
  BY LenProperties DEF Senders
<1>2. PICK r : Sizing!IsLoop(r, N, first, pending)
  BY <1>1, Sizing!LoopExists
<1>3. IsSizes(r)
  BY <1>2 DEF Sizing!IsLoop, AddSize
<1>4. IsSizes(sizeWith)
  BY <1>3
<1>5. DOMAIN sizeWith = 0 .. N
  BY <1>4
<1>6. PendingTaken(tx) = IF full = {} THEN N ELSE Min(full)
  BY DEF PendingTaken
<1> HIDE DEF sizeWith
<1>7. full \subseteq 0 .. N /\ full \in SUBSET Nat
  BY <1>1, <1>5
<1> HIDE DEF full
<1>8. full # {} => Min(full) \in 0 .. N
  BY <1>7, MinOfNats
<1>9. N \in 0 .. N
  BY <1>1
<1> HIDE DEF N
<1>10. PendingTaken(tx) \in 0 .. N
  BY <1>6, <1>8, <1>9
<1> QED
  BY <1>10 DEF N

LEMMA PacketMessagesType ==
    ASSUME NEW M, NEW tx \in Senders(M)
    PROVE  /\ PacketMessages(tx) \in Seq(M)
           /\ Len(PacketMessages(tx)) = Len(OldestReliable(tx)) + PendingTaken(tx)
<1> DEFINE n == PendingTaken(tx)
           taken == SubSeq(tx.m_pendingMessages, 1, n)
<1>1. tx.m_pendingMessages \in Seq(M)
  BY DEF Senders
<1>2. Len(tx.m_pendingMessages) \in Nat /\ n \in 0 .. Len(tx.m_pendingMessages)
  BY <1>1, LenProperties, PendingTakenType
<1>3. \A i \in 1 .. n : tx.m_pendingMessages[i] \in M
  BY <1>1, <1>2, ElementOfSeq
<1> HIDE DEF n
<1>4. taken \in Seq(M) /\ Len(taken) = n
  BY <1>2, <1>3, SubSeqProperties
<1> HIDE DEF taken
<1>5. PacketMessages(tx) = OldestReliable(tx) \o taken
  BY DEF PacketMessages, taken, n
<1> QED
  BY <1>4, <1>5, OldestReliableType, ConcatProperties DEF n

\* Each fresh message has one more fresh message up to it.
LEMMA FreshUpToGrows ==
    ASSUME NEW messages
    PROVE  /\ \A k \in Nat : FreshUpTo(messages, k) \in Nat
           /\ FreshUpTo(messages, 0) = 0
           /\ \A k \in Nat \ {0} :
                FreshUpTo(messages, k) = FreshUpTo(messages, k - 1)
                                            + (IF IsFresh(messages[k]) THEN 1 ELSE 0)
<1> DEFINE fresh(k) == {j \in 1 .. k : IsFresh(messages[j])}
<1>1. \A k \in Nat : IsFiniteSet(fresh(k)) /\ FreshUpTo(messages, k) = Cardinality(fresh(k))
  <2> TAKE k \in Nat
  <2>1. IsFiniteSet(1 .. k) /\ fresh(k) \subseteq 1 .. k
    BY FS_Interval
  <2> QED
    BY <2>1, FS_Subset DEF FreshUpTo
<1>2. fresh(0) = {}
  OBVIOUS
<1>3. ASSUME NEW k \in Nat \ {0}, IsFresh(messages[k])
      PROVE  Cardinality(fresh(k)) = Cardinality(fresh(k - 1)) + 1
  <2>1. fresh(k) = fresh(k - 1) \cup {k} /\ k \notin fresh(k - 1) /\ k - 1 \in Nat
    BY <1>3
  <2> HIDE DEF fresh
  <2> QED
    BY <1>1, <2>1, FS_AddElement
<1>4. ASSUME NEW k \in Nat \ {0}, ~IsFresh(messages[k]) PROVE fresh(k) = fresh(k - 1)
  <2>1. 1 .. k = (1 .. k - 1) \cup {k}
    OBVIOUS
  <2> QED
    BY <1>4, <2>1
<1>5. \A k \in Nat \ {0} : k - 1 \in Nat
  OBVIOUS
<1> HIDE DEF fresh
<1> QED
  BY <1>1, <1>2, <1>3, <1>4, <1>5, FS_CardinalityType, FS_EmptySet

LEMMA FreshUpToMonotone ==
    ASSUME NEW messages, NEW k \in Nat, NEW j \in 0 .. k
    PROVE  FreshUpTo(messages, j) <= FreshUpTo(messages, k)
<1> DEFINE fresh(i) == {l \in 1 .. i : IsFresh(messages[l])}
<1>1. IsFiniteSet(1 .. k) /\ fresh(k) \subseteq 1 .. k /\ fresh(j) \subseteq fresh(k)
  BY FS_Interval
<1>2. IsFiniteSet(fresh(k))
  BY <1>1, FS_Subset
<1>3. Cardinality(fresh(j)) <= Cardinality(fresh(k))
  <2> HIDE DEF fresh
  <2> QED
    BY <1>1, <1>2, FS_Subset
<1> QED
  BY <1>3 DEF FreshUpTo

\* Where the messages of a packet come from.
LEMMA PacketMessagesAt ==
    ASSUME NEW M, NEW tx \in Senders(M)
    PROVE  LET ms == PacketMessages(tx)
               r == Len(OldestReliable(tx))
               t == PendingTaken(tx)
           IN  /\ r \in {0, 1}
               /\ r = 1 => /\ ms[1] = Head(tx.m_reliableMessages)
                           /\ tx.m_reliableMessages # <<>>
               /\ r = 0 => tx.m_reliableMessages = <<>>
               /\ \A i \in 1 .. t : ms[r + i] = tx.m_pendingMessages[i]
<1> DEFINE r == Len(OldestReliable(tx))
           t == PendingTaken(tx)
           oldest == OldestReliable(tx)
           pending == tx.m_pendingMessages
           taken == SubSeq(pending, 1, t)
<1>1. /\ oldest \in Seq(M) /\ r \in Nat /\ pending \in Seq(M) /\ Len(pending) \in Nat
      /\ t \in 0 .. Len(pending)
  BY OldestReliableType, PendingTakenType, LenProperties DEF Senders
<1>2. /\ r \in {0, 1}
      /\ r = 1 => oldest[1] = Head(tx.m_reliableMessages) /\ tx.m_reliableMessages # <<>>
      /\ r = 0 => tx.m_reliableMessages = <<>>
  BY DEF OldestReliable
<1>3. \A i \in 1 .. Len(pending) : pending[i] \in M
  BY <1>1, ElementOfSeq
<1> HIDE DEF t, oldest, pending
<1>4. taken \in Seq(M) /\ Len(taken) = t /\ \A i \in 1 .. t : taken[i] = pending[i]
  BY <1>1, <1>3, SubSeqProperties
<1>5. PacketMessages(tx) = oldest \o taken
  BY DEF PacketMessages, t, oldest, pending
<1> HIDE DEF taken
<1>6. Len(oldest) = r
  BY DEF oldest
<1> HIDE DEF r
<1>7. /\ \A i \in 1 .. r : (oldest \o taken)[i] = oldest[i]
      /\ \A i \in 1 .. t : (oldest \o taken)[r + i] = taken[i]
  BY <1>1, <1>4, <1>6, ConcatProperties, SMTT(20), ZenonT(30)
<1>8. r = 1 => PacketMessages(tx)[1] = oldest[1]
  <2> SUFFICES ASSUME r = 1 PROVE (oldest \o taken)[1] = oldest[1]
    BY <1>5
  <2>1. 1 \in 1 .. r
    OBVIOUS
  <2> QED
    BY <1>7, <2>1
<1> QED
  BY <1>2, <1>4, <1>5, <1>7, <1>8 DEF r, t, pending

LEMMA GenerateMessageHeadersType ==
    ASSUME NEW M, Renumbered(M), NEW messages \in Seq(M), NEW s \in Sequences16
    PROVE  /\ GenerateMessageHeaders(messages, s) \in Seq(M)
           /\ Len(GenerateMessageHeaders(messages, s)) = Len(messages)
<1> DEFINE n == Len(messages)
           sequence(i) == Wrap(s + FreshUpTo(messages, i - 1))
           numbered(i) == IF IsFresh(messages[i])
                          THEN [messages[i] EXCEPT !.m_sequence = sequence(i)]
                          ELSE messages[i]
           result == [i \in DOMAIN messages |-> numbered(i)]
<1>1. n \in Nat /\ DOMAIN messages = 1 .. n
  BY LenProperties
<1>2. s \in Int
  BY SequenceAssumption DEF Sequences16, Modulus
<1>3. \A i \in 1 .. n : sequence(i) \in Sequences16
  <2> TAKE i \in 1 .. n
  <2>1. FreshUpTo(messages, i - 1) \in Int
    BY FreshUpToGrows
  <2> QED
    BY <1>2, <2>1, WrapType
<1>4. \A i \in 1 .. n : messages[i] \in M
  BY ElementOfSeq
<1> HIDE DEF sequence
<1>5. \A i \in 1 .. n : numbered(i) \in M
  BY <1>3, <1>4 DEF Renumbered
<1>6. GenerateMessageHeaders(messages, s) = result
  BY DEF GenerateMessageHeaders, sequence
<1> HIDE DEF numbered
<1>7. result \in [1 .. n -> M]
  BY <1>1, <1>5
<1> HIDE DEF result
<1>8. result \in Seq(M) /\ Len(result) = n
  BY <1>1, <1>7
<1> QED
  BY <1>6, <1>8

\* A packet holds messages of its RemotePeer only.
LEMMA BuildPacketType ==
    ASSUME NEW M, Renumbered(M), NEW tx \in Senders(M), NEW rx \in Receivers
    PROVE  /\ BuildPacket(tx, rx) \in Packets(M)
           /\ Len(BuildPacket(tx, rx).messages) = Len(PacketMessages(tx))
<1>1. tx.m_sequenceOut \in Sequences16 /\ rx.m_sequenceIn \in Sequences16
  BY DEF Senders, Receivers
<1> DEFINE numbered == GenerateMessageHeaders(PacketMessages(tx), tx.m_sequenceOut)
<1>2. numbered \in Seq(M) /\ Len(numbered) = Len(PacketMessages(tx))
  BY <1>1, PacketMessagesType, GenerateMessageHeadersType
<1>3. BuildPacket(tx, rx) =
        [m_ackseq |-> rx.m_sequenceIn, m_ackbits |-> GetAckBits(rx), messages |-> numbered]
  BY DEF BuildPacket
<1> HIDE DEF numbered
<1> QED
  BY <1>1, <1>2, <1>3, GetAckBitsType DEF Packets

\* What sending leaves: the numbering is as far as there were fresh messages,
\* what was taken is gone from the pending messages, and the reliables of the
\* packet wait again, behind those that did not go out.
LEMMA AfterSendEffect ==
    ASSUME NEW M, NEW tx \in Senders(M), NEW packet, packet.messages \in Seq(M),
           Len(packet.messages) = Len(PacketMessages(tx))
    PROVE  \E requeued \in Seq(M) :
                /\ AfterSend(tx, packet) =
                    [m_sequenceOut |-> Wrap(tx.m_sequenceOut
                                + FreshUpTo(PacketMessages(tx), Len(packet.messages))),
                     m_pendingMessages |-> SubSeq(tx.m_pendingMessages, PendingTaken(tx) + 1,
                                                  Len(tx.m_pendingMessages)),
                     m_reliableMessages |-> requeued]
                /\ ToSet(requeued) =
                        ToSet(SubSeq(tx.m_reliableMessages, Len(OldestReliable(tx)) + 1,
                                     Len(tx.m_reliableMessages)))
                            \cup {m \in ToSet(packet.messages) : IsReliable(m)}
<1> DEFINE messages == packet.messages
           N == Len(messages)
           retransmitted == Len(OldestReliable(tx))
           taken == N - retransmitted
           fresh == FreshUpTo(PacketMessages(tx), Len(packet.messages))
           out == Wrap(tx.m_sequenceOut + fresh)
           pending == SubSeq(tx.m_pendingMessages, taken + 1, Len(tx.m_pendingMessages))
           first == SubSeq(tx.m_reliableMessages, retransmitted + 1, Len(tx.m_reliableMessages))
           x == [packet |-> messages, messages |-> M, first |-> ToSet(first)]
           IsRequeued(f) == f = [k \in 0 .. Len(messages) |->
                IF k = 0
                THEN SubSeq(tx.m_reliableMessages, retransmitted + 1, Len(tx.m_reliableMessages))
                ELSE IF IsReliable(messages[k]) THEN Append(f[k - 1], messages[k])
                ELSE f[k - 1]]
           requeued == CHOOSE f : IsRequeued(f)
<1>1. /\ tx.m_pendingMessages \in Seq(M) /\ tx.m_reliableMessages \in Seq(M)
      /\ messages \in Seq(M) /\ tx.m_sequenceOut \in Sequences16
  BY DEF Senders, Packets
<1>2. /\ Len(tx.m_pendingMessages) \in Nat /\ Len(tx.m_reliableMessages) \in Nat /\ N \in Nat
      /\ \A i \in 1 .. Len(tx.m_pendingMessages) : tx.m_pendingMessages[i] \in M
      /\ \A i \in 1 .. Len(tx.m_reliableMessages) : tx.m_reliableMessages[i] \in M
      /\ \A i \in 1 .. N : messages[i] \in M
  BY <1>1, LenProperties, ElementOfSeq
<1>3. retransmitted \in 0 .. Len(tx.m_reliableMessages) /\ taken \in 0 .. Len(tx.m_pendingMessages)
  BY <1>2, OldestReliableType, PendingTakenType, PacketMessagesType
<1>4. AfterSend(tx, packet) = [m_sequenceOut |-> out, m_pendingMessages |-> pending,
                               m_reliableMessages |-> requeued[N]]
  BY DEF AfterSend
<1>5. PICK r : Requeueing!IsLoop(r, N, first, x)
  BY <1>2, Requeueing!LoopExists
<1>6. IsRequeued(r)
  BY <1>5 DEF Requeueing!IsLoop, RequeueNext
<1>7. IsRequeued(requeued)
  BY <1>6
<1>8. Requeueing!IsLoop(requeued, N, first, x)
  BY <1>7 DEF Requeueing!IsLoop, RequeueNext
<1> HIDE DEF requeued
<1>9. taken = PendingTaken(tx)
  BY <1>2, <1>3, OldestReliableType, PendingTakenType, PacketMessagesType
<1> HIDE DEF retransmitted
<1>10. first \in Seq(M)
  BY <1>2, <1>3, SubSeqProperties
<1>11. AreRequeued(first, 0, x)
  BY <1>10 DEF AreRequeued
<1>12. ASSUME NEW k \in 1 .. N, NEW s, AreRequeued(s, k - 1, x)
       PROVE  AreRequeued(RequeueNext(s, k, x), k, x)
  <2>1. /\ s \in Seq(M)
        /\ ToSet(s) = ToSet(first) \cup {m \in {messages[j] : j \in 1 .. k - 1} : IsReliable(m)}
    BY <1>12 DEF AreRequeued
  <2>2. 1 .. k = (1 .. k - 1) \cup {k} /\ messages[k] \in M
    BY <1>2
  <2> HIDE DEF first, messages
  <2>3. CASE IsReliable(messages[k])
    <3>1. RequeueNext(s, k, x) = Append(s, messages[k])
      BY <2>3 DEF RequeueNext
    <3>2. /\ Append(s, messages[k]) \in Seq(M)
          /\ ToSet(Append(s, messages[k])) = ToSet(s) \cup {messages[k]}
      BY <2>1, <2>2, AppendProperties, ToSetAppend
    <3> QED
      BY <2>1, <2>2, <2>3, <3>1, <3>2, SMTT(20), ZenonT(30) DEF AreRequeued
  <2>4. CASE ~IsReliable(messages[k])
    <3>1. RequeueNext(s, k, x) = s
      BY <2>4 DEF RequeueNext
    <3> QED
      BY <2>1, <2>2, <2>4, <3>1 DEF AreRequeued
  <2> QED
    BY <2>3, <2>4
<1>13. \A k \in 0 .. N : AreRequeued(requeued[k], k, x)
  <2> HIDE DEF x, N, first
  <2> QED
    BY <1>2, <1>8, <1>11, <1>12, Requeueing!LoopInvariant
<1>14. AreRequeued(requeued[N], N, x)
  BY <1>2, <1>13
<1>15. /\ requeued[N] \in Seq(M)
       /\ ToSet(requeued[N]) = ToSet(first) \cup {m \in ToSet(messages) : IsReliable(m)}
  BY <1>1, <1>14, ToSetType DEF AreRequeued
<1> HIDE DEF N, requeued
<1> QED
  BY <1>4, <1>9, <1>15 DEF retransmitted

LEMMA AfterSendType ==
    ASSUME NEW M, NEW tx \in Senders(M), NEW packet \in Packets(M),
           Len(packet.messages) = Len(PacketMessages(tx))
    PROVE  AfterSend(tx, packet) \in Senders(M)
<1> DEFINE pending == tx.m_pendingMessages
           taken == PendingTaken(tx)
           fresh == FreshUpTo(PacketMessages(tx), Len(packet.messages))
           out == Wrap(tx.m_sequenceOut + fresh)
           left == SubSeq(pending, taken + 1, Len(pending))
<1>1. PICK requeued \in Seq(M) :
        AfterSend(tx, packet) = [m_sequenceOut |-> out, m_pendingMessages |-> left,
                                 m_reliableMessages |-> requeued]
  BY AfterSendEffect DEF Packets
<1>2. out \in Sequences16
  <2>1. tx.m_sequenceOut \in Int
    BY SequenceAssumption DEF Senders, Sequences16, Modulus
  <2>2. fresh \in Int
    BY LenProperties, FreshUpToGrows DEF Packets
  <2> HIDE DEF fresh
  <2> QED
    BY <2>1, <2>2, WrapType
<1>3. left \in Seq(M)
  <2>1. /\ pending \in Seq(M) /\ Len(pending) \in Nat /\ taken \in 0 .. Len(pending)
        /\ \A i \in 1 .. Len(pending) : pending[i] \in M
    BY PendingTakenType, LenProperties, ElementOfSeq DEF Senders
  <2> HIDE DEF taken, pending
  <2> QED
    BY <2>1, SubSeqProperties
<1> HIDE DEF out, left
<1> QED
  BY <1>1, <1>2, <1>3 DEF Senders

-----------------------------------------------------------------------------
\* The receive side in message numbers.  A number within Half of the newest one
\* and below the range of the round counter is newer exactly if its sequence
\* is, and the round its sequence is looked up under is its own.
Within(rx, n) ==
    /\ n \in Nat /\ n < Rounds * Modulus
    /\ Newest(rx) - Half < n /\ n < Newest(rx) + Half

LEMMA NewestType ==
    ASSUME NEW rx \in Receivers
    PROVE  Newest(rx) \in Nat /\ Newest(rx) < Rounds * Modulus
<1> DEFINE r == rx.m_sequenceRound
           in == rx.m_sequenceIn
<1>1. r \in 0 .. Rounds - 1 /\ in \in Sequences16 /\ Rounds \in Nat
  BY SequenceAssumption DEF Receivers
<1>2. Newest(rx) = r * Modulus + in
  BY DEF Newest, NumberOf
<1> HIDE DEF r, in
<1>3. r * Modulus \in Nat /\ Rounds * Modulus \in Nat
  BY <1>1, ModulusType
<1>4. Rounds * Modulus >= r * Modulus + Modulus
  BY <1>1, RoundStep
<1> QED
  BY <1>1, <1>2, <1>3, <1>4, ModulusType DEF Sequences16

LEMMA Reached ==
    ASSUME NEW rx \in Receivers, NEW n, Within(rx, n)
    PROVE  /\ Wrap(n) \in Sequences16
           /\ n \div Modulus \in 0 .. Rounds - 1
           /\ NumberOf(n \div Modulus, Wrap(n)) = n
           /\ IsSequenceNewer(Wrap(n), rx.m_sequenceIn) <=> n > Newest(rx)
           /\ n > Newest(rx) =>
                n \div Modulus = IF Wrap(n) < rx.m_sequenceIn
                                THEN WrapRound(rx.m_sequenceRound + 1)
                                ELSE rx.m_sequenceRound
           /\ n <= Newest(rx) => n \div Modulus = RoundOf(rx, Wrap(n))
<1>1. /\ rx.m_sequenceIn \in Sequences16 /\ rx.m_sequenceRound \in Int
      /\ Newest(rx) = NumberOf(rx.m_sequenceRound, rx.m_sequenceIn)
      /\ Newest(rx) \in Nat /\ n \in Nat /\ n < Rounds * Modulus
  BY NewestType DEF Receivers, Newest, Within
<1>2. /\ Wrap(n) \in Sequences16 /\ n \div Modulus \in Nat
      /\ NumberOf(n \div Modulus, Wrap(n)) = n
  BY <1>1, Spelling
<1>3. /\ IsSequenceNewer(Wrap(n), rx.m_sequenceIn) <=> n > Newest(rx)
      /\ IsSequenceNewer(Wrap(n), rx.m_sequenceIn) =>
            n \div Modulus = IF Wrap(n) < rx.m_sequenceIn THEN rx.m_sequenceRound + 1
                                                          ELSE rx.m_sequenceRound
      /\ ~IsSequenceNewer(Wrap(n), rx.m_sequenceIn) =>
            n \div Modulus = IF Wrap(n) > rx.m_sequenceIn THEN rx.m_sequenceRound - 1
                                                          ELSE rx.m_sequenceRound
  BY <1>1, <1>2, Window, n \div Modulus \in Int DEF Within
<1>4. n \div Modulus \in 0 .. Rounds - 1 /\ WrapRound(n \div Modulus) = n \div Modulus
  BY <1>1, RoundRange, WrapRoundNear
<1> QED
  BY <1>1, <1>2, <1>3, <1>4 DEF RoundOf

\* What the sequence check leaves, told in message numbers: a message that
\* passes gets the table entry of its round, and becomes the newest if it is
\* newer; one that does not leaves everything as it was, because it has that
\* entry already or is old and ordered.
Entered(rx, n) ==
    [s \in DOMAIN rx.m_seqtrackReceived \cup {Wrap(n)} |->
        IF s = Wrap(n) THEN n \div Modulus ELSE rx.m_seqtrackReceived[s]]

HasEntry(rx, n) ==
    /\ Wrap(n) \in DOMAIN rx.m_seqtrackReceived
    /\ rx.m_seqtrackReceived[Wrap(n)] = n \div Modulus

LEMMA CheckEffect ==
    ASSUME NEW rx \in Receivers, NEW n, Within(rx, n), NEW orderedOnly \in BOOLEAN
    PROVE  /\ PassesSequenceCheck(rx, Wrap(n), orderedOnly)
                <=> n > Newest(rx) \/ (~orderedOnly /\ ~HasEntry(rx, n))
           /\ n > Newest(rx) =>
                AfterSequenceCheck(rx, Wrap(n), orderedOnly)
                    = Receiver(Wrap(n), n \div Modulus, Entered(rx, n))
           /\ n <= Newest(rx) /\ PassesSequenceCheck(rx, Wrap(n), orderedOnly) =>
                AfterSequenceCheck(rx, Wrap(n), orderedOnly)
                    = Receiver(rx.m_sequenceIn, rx.m_sequenceRound, Entered(rx, n))
           /\ ~PassesSequenceCheck(rx, Wrap(n), orderedOnly) =>
                AfterSequenceCheck(rx, Wrap(n), orderedOnly) = rx
<1> DEFINE s == Wrap(n)
<1>1. /\ n \in Nat /\ Newest(rx) \in Nat
      /\ rx.m_sequenceIn \in Sequences16 /\ rx.m_sequenceRound \in Nat
  BY NewestType DEF Receivers, Within
<1>2. /\ IsSequenceNewer(s, rx.m_sequenceIn) <=> n > Newest(rx)
      /\ n > Newest(rx) =>
           n \div Modulus = IF s < rx.m_sequenceIn THEN WrapRound(rx.m_sequenceRound + 1)
                                                   ELSE rx.m_sequenceRound
      /\ n <= Newest(rx) => n \div Modulus = RoundOf(rx, s)
  BY Reached
<1>3. n <= Newest(rx) => (MessageDuplicated(rx, s) <=> HasEntry(rx, n))
  BY <1>2 DEF MessageDuplicated, HasEntry
<1>4. CASE n > Newest(rx)
  <2>1. AfterSequenceCheck(rx, s, orderedOnly)
            = SaveReceivedSequence(SetSequenceIn(rx, s), s, TRUE)
    BY <1>2, <1>4 DEF AfterSequenceCheck
  <2>2. SetSequenceIn(rx, s) = Receiver(s, n \div Modulus, rx.m_seqtrackReceived)
    <3> HIDE DEF s
    <3> QED
      BY <1>1, <1>2, <1>4 DEF SetSequenceIn
  <2>3. AfterSequenceCheck(rx, s, orderedOnly) = Receiver(s, n \div Modulus, Entered(rx, n))
    BY <2>1, <2>2 DEF SaveReceivedSequence, Receiver, Entered
  <2>4. PassesSequenceCheck(rx, s, orderedOnly)
    BY <1>2, <1>4 DEF PassesSequenceCheck
  <2> QED
    <3>1. n > Newest(rx) /\ ~(n <= Newest(rx))
      BY <1>1, <1>4
    <3> QED
      BY <2>3, <2>4, <3>1
<1>5. CASE ~(n > Newest(rx))
  <2>1. ~IsSequenceNewer(s, rx.m_sequenceIn) /\ n <= Newest(rx)
    BY <1>1, <1>2, <1>5
  <2>2. PassesSequenceCheck(rx, s, orderedOnly) <=> ~orderedOnly /\ ~HasEntry(rx, n)
    BY <1>3, <2>1 DEF PassesSequenceCheck
  <2>3. PassesSequenceCheck(rx, s, orderedOnly) =>
            AfterSequenceCheck(rx, s, orderedOnly) = SaveReceivedSequence(rx, s, FALSE)
    BY <2>1 DEF AfterSequenceCheck
  <2>4. n \div Modulus = RoundOf(rx, s)
    BY <1>2, <2>1
  <2>5. ~PassesSequenceCheck(rx, s, orderedOnly) => AfterSequenceCheck(rx, s, orderedOnly) = rx
    BY <2>1 DEF AfterSequenceCheck
  <2> QED
    BY <1>5, <2>1, <2>2, <2>3, <2>4, <2>5 DEF SaveReceivedSequence, Receiver, Entered
<1> QED
  BY <1>4, <1>5

\* The sequence and the round GetAckBits looks up for bit i.
AckSequence(rx, i) == Wrap(Wrap(rx.m_sequenceIn - 1) - i)
AckRound(rx, i) == IF AckSequence(rx, i) > Wrap(rx.m_sequenceIn - 1)
               THEN WrapRound(rx.m_sequenceRound - 1) ELSE rx.m_sequenceRound

LEMMA AckBitsUnfolded ==
    ASSUME NEW rx
    PROVE  GetAckBits(rx) = {i \in 0 .. AckBits - 1 :
                        /\ AckSequence(rx, i) \in DOMAIN rx.m_seqtrackReceived
                        /\ rx.m_seqtrackReceived[AckSequence(rx, i)] = AckRound(rx, i)}
BY DEF GetAckBits, AckSequence, AckRound

\* Together they spell the number i + 1 before the newest, if there is one;
\* if not, and also with newest sequence 0, a number beyond the newest.
LEMMA AckSpelling ==
    ASSUME NEW rx \in Receivers, NEW i \in 0 .. AckBits - 1
    PROVE  /\ AckSequence(rx, i) \in Sequences16 /\ AckRound(rx, i) \in Int
           /\ rx.m_sequenceIn # 0 /\ Newest(rx) - 1 - i >= 0 =>
                NumberOf(AckRound(rx, i), AckSequence(rx, i)) = Newest(rx) - 1 - i
           /\ rx.m_sequenceIn = 0 \/ Newest(rx) - 1 - i < 0 => NumberOf(AckRound(rx, i), AckSequence(rx, i)) > Newest(rx)
<1> DEFINE in == rx.m_sequenceIn
           r == rx.m_sequenceRound
           first == Wrap(in - 1)
<1>1. /\ in \in Sequences16 /\ r \in 0 .. Rounds - 1
      /\ Newest(rx) = r * Modulus + in /\ r * Modulus \in Nat
      /\ i \in Nat /\ i < Modulus - 1
  BY ModulusType, SequenceAssumption DEF Receivers, Newest, NumberOf
<1>2. CASE in # 0
  <2>1. first = in - 1
    BY <1>1, <1>2, WrapNear, ModulusType DEF Sequences16
  <2>2. CASE i <= first
    <3>1. AckSequence(rx, i) = in - 1 - i
      BY <1>1, <1>2, <2>1, <2>2, WrapNear, ModulusType DEF AckSequence, Sequences16
    <3>2. AckRound(rx, i) = r
      BY <1>1, <2>1, <3>1 DEF AckRound, Sequences16
    <3> HIDE DEF first, in, r
    <3> QED
      BY <1>1, <1>2, <2>1, <2>2, <3>1, <3>2, ModulusType DEF Sequences16, NumberOf, in
  <2>3. CASE i > first
    <3>1. AckSequence(rx, i) = in - 1 - i + Modulus
      BY <1>1, <1>2, <2>1, <2>3, WrapNear, ModulusType DEF AckSequence, Sequences16
    <3>2. AckRound(rx, i) = WrapRound(r - 1)
      BY <1>1, <2>1, <3>1, ModulusType DEF AckRound, Sequences16
    <3>3. CASE r > 0
      <4>1. WrapRound(r - 1) = r - 1
        BY <1>1, <3>3, WrapRoundNear, SequenceAssumption
      <4>2. (r - 1) * Modulus = r * Modulus - Modulus
        BY <1>1, RoundBefore
      <4>3. r * Modulus >= Modulus
        BY <1>1, <3>3, ModulusType
      <4>4. Newest(rx) - 1 - i >= 0
        <5> HIDE DEF first, in, r
        <5> QED
          BY <1>1, <4>3, ModulusType DEF Sequences16
      <4>5. AckRound(rx, i) = r - 1 /\ r - 1 \in Int
        BY <1>1, <3>2, <4>1
      <4>6. NumberOf(AckRound(rx, i), AckSequence(rx, i)) = Newest(rx) - 1 - i
        <5> HIDE DEF first, in, r
        <5> QED
          BY <1>1, <2>1, <3>1, <4>2, <4>5, ModulusType DEF Sequences16, NumberOf
      <4> HIDE DEF first, in, r
      <4> QED
        BY <1>1, <1>2, <2>1, <2>3, <3>1, <4>4, <4>5, <4>6, ModulusType DEF Sequences16, in
    <3>4. CASE r = 0
      <4>1. WrapRound(r - 1) = Rounds - 1
        BY <3>4, WrapRoundNear
      <4>2. (Rounds - 1) * Modulus >= Modulus /\ Rounds - 1 \in Nat
        BY SequenceAssumption, ModulusType
      <4>3. Newest(rx) = in
        BY <1>1, <3>4, ModulusType DEF Sequences16
      <4> HIDE DEF first, in, r
      <4> QED
        BY <1>1, <1>2, <2>1, <2>3, <3>1, <3>2, <4>1, <4>2, <4>3, ModulusType
        DEF Sequences16, NumberOf, in
    <3> QED
      BY <1>1, <3>3, <3>4
  <2> QED
    BY <1>1, <2>1, <2>2, <2>3 DEF Sequences16
<1>3. CASE in = 0
  <2>1. first = Modulus - 1
    BY <1>3, WrapNear, ModulusType
  <2>2. AckSequence(rx, i) = Modulus - 1 - i
    BY <1>1, <2>1, WrapNear, ModulusType DEF AckSequence
  <2>3. AckRound(rx, i) = r
    BY <1>1, <2>1, <2>2, ModulusType DEF AckRound
  <2> HIDE DEF first, in, r
  <2> QED
    BY <1>1, <1>3, <2>2, <2>3, ModulusType DEF Sequences16, NumberOf, in
<1> QED
  BY <1>2, <1>3

\* The receive side after n messages: its newest number is n, and its table
\* spells no other numbers.
LEMMA ReceiverOfType ==
    ASSUME NEW n \in Nat
    PROVE  /\ ReceiverOf(n) \in Receivers
           /\ n < Rounds * Modulus =>
                LET receiver == ReceiverOf(n)
                    table == receiver.m_seqtrackReceived
                IN  /\ Newest(receiver) = n
                    /\ \A s \in DOMAIN table : NumberOf(table[s], s) \in 1 .. n
<1> DEFINE recent == {k \in 1 .. n : k > n - Modulus}
           numberOf == [s \in {Wrap(k) : k \in recent} |-> CHOOSE k \in recent : Wrap(k) = s]
           table == [s \in DOMAIN numberOf |-> WrapRound(numberOf[s] \div Modulus)]
           receiver == ReceiverOf(n)
<1>1. receiver = [m_sequenceIn |-> Wrap(n), m_sequenceRound |-> WrapRound(n \div Modulus),
                  m_seqtrackReceived |-> table]
  BY DEF ReceiverOf, Receiver
<1>2. Wrap(n) \in Sequences16 /\ WrapRound(n \div Modulus) \in 0 .. Rounds - 1
  <2>1. n \div Modulus \in Int
    BY ModulusType
  <2> QED
    BY <2>1, Spelling, WrapRoundType
<1>3. DOMAIN table = {Wrap(k) : k \in recent}
  OBVIOUS
<1>4. ASSUME NEW s \in DOMAIN table
      PROVE  /\ s \in Sequences16
             /\ \E k \in 1 .. n : Wrap(k) = s /\ table[s] = WrapRound(k \div Modulus)
  <2>1. PICK k \in recent : Wrap(k) = s
    BY <1>3, <1>4
  <2>2. numberOf[s] \in recent /\ Wrap(numberOf[s]) = s
    BY <1>3, <1>4, <2>1
  <2>3. numberOf[s] \in 1 .. n /\ table[s] = WrapRound(numberOf[s] \div Modulus)
    BY <1>4, <2>2
  <2> HIDE DEF numberOf, table
  <2> QED
    BY <2>2, <2>3, Spelling
<1> HIDE DEF table, recent, numberOf
<1>5. ASSUME NEW s \in DOMAIN table PROVE table[s] \in 0 .. Rounds - 1
  <2>1. PICK k \in 1 .. n : table[s] = WrapRound(k \div Modulus)
    BY <1>4
  <2>2. k \div Modulus \in Int
    BY ModulusType
  <2> QED
    BY <2>1, <2>2, WrapRoundType
<1>6. table \in PartialFunctions(Sequences16, 0 .. Rounds - 1)
  <2>1. table = [s \in DOMAIN table |-> table[s]]
    BY DEF table
  <2>2. DOMAIN table \subseteq Sequences16 /\ table \in [DOMAIN table -> 0 .. Rounds - 1]
    BY <1>4, <1>5, <2>1
  <2> QED
    BY <2>2, PartialFunctionsType
<1>7. receiver \in Receivers
  BY <1>1, <1>2, <1>6 DEF Receivers
<1>8. ASSUME n < Rounds * Modulus, NEW k \in 0 .. n
      PROVE  WrapRound(k \div Modulus) = k \div Modulus
  <2>1. k \in Nat /\ k < Rounds * Modulus
    <3>1. Rounds * Modulus \in Int
      BY SequenceAssumption, ModulusType
    <3> QED
      BY <1>8, <3>1
  <2> QED
    BY <2>1, RoundRange, WrapRoundNear
<1>9. ASSUME n < Rounds * Modulus
      PROVE  /\ Newest(receiver) = n
             /\ \A s \in DOMAIN table : NumberOf(table[s], s) \in 1 .. n
  <2>1. WrapRound(n \div Modulus) = n \div Modulus
    BY <1>8, <1>9
  <2>2. Newest(receiver) = n
    BY <1>1, <2>1, Spelling DEF Newest
  <2>3. ASSUME NEW s \in DOMAIN table PROVE NumberOf(table[s], s) \in 1 .. n
    <3>1. PICK k \in 1 .. n : Wrap(k) = s /\ table[s] = WrapRound(k \div Modulus)
      BY <1>4
    <3>2. k \in Nat /\ table[s] = k \div Modulus
      BY <1>8, <1>9, <3>1
    <3> QED
      BY <3>1, <3>2, Spelling
  <2> QED
    BY <2>2, <2>3
<1> QED
  BY <1>1, <1>7, <1>9

-----------------------------------------------------------------------------
\* More messages make more send sides and packets.
LEMMA SendersMonotone ==
    ASSUME NEW M, NEW N, M \subseteq N PROVE Senders(M) \subseteq Senders(N)
BY SeqMonotonic DEF Senders

LEMMA PacketsMonotone ==
    ASSUME NEW M, NEW N, M \subseteq N PROVE Packets(M) \subseteq Packets(N)
BY SeqMonotonic DEF Packets
=============================================================================
