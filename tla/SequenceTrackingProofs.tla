----------------------- MODULE SequenceTrackingProofs -----------------------
(***************************************************************************)
(* Proofs about SequenceTracking, for every range of sequence numbers,     *)
(* every width of the acknowledgement bits and every length of connection. *)
(***************************************************************************)
EXTENDS SequenceTracking, RemotePeerProofs

-----------------------------------------------------------------------------
\* The receive side in the terms of RemotePeerProofs.
LEMMA ReceiverType == IInv => rx \in Receivers /\ Newest(rx) = newest
BY DEF IInv, TypeOK, NewestSpelled, Receivers, PartialFunctions

LEMMA InReach ==
    ASSUME IInv, NEW n \in Numbers, InWindow(n)
    PROVE  rx \in Receivers /\ Newest(rx) = newest /\ Within(rx, n)
<1>1. rx \in Receivers /\ Newest(rx) = newest
  BY ReceiverType
<1>2. n \in Nat /\ n < Rounds * Modulus
  BY MaxNumberAssumption, SequenceAssumption, ModulusType DEF Numbers
<1> QED
  BY <1>1, <1>2 DEF InWindow, Within

\* A processed number within reach is found by the duplicate check.
LEMMA ProcessedFound ==
    ASSUME IInv, NEW n \in Numbers, n > newest - Modulus, processed[n] > 0
    PROVE  /\ n <= newest
           /\ Wrap(n) \in DOMAIN rx.m_seqtrackReceived
           /\ rx.m_seqtrackReceived[Wrap(n)] = n \div Modulus
<1> DEFINE s == Wrap(n)
           e == rx.m_seqtrackReceived[s]
<1>1. n \in Nat /\ newest \in Nat
  BY MaxNumberAssumption DEF IInv, TypeOK, Numbers
<1>2. n <= newest /\ s \in DOMAIN rx.m_seqtrackReceived /\ e >= n \div Modulus
  BY DEF IInv, ProcessedHaveEntries
<1>3. s \in Sequences16 /\ n \div Modulus \in Nat /\ NumberOf(n \div Modulus, s) = n
  BY <1>1, Spelling
<1>4. e \in Nat /\ NumberOf(e, s) <= newest
  BY <1>2 DEF IInv, TypeOK, EntriesProcessed
<1>5. NumberOf(e, s) \in Int
  BY <1>3, <1>4, ModulusType DEF NumberOf, Sequences16
<1>6. NumberOf(e, s) < NumberOf(n \div Modulus, s) + Modulus
  <2> HIDE DEF e, s
  <2> QED
    BY <1>1, <1>3, <1>4, <1>5, ModulusType
<1>7. e <= n \div Modulus
  BY <1>3, <1>4, <1>6, SpellingOrder
<1> QED
  BY <1>2, <1>3, <1>4, <1>7

LEMMA DuplicatesFound ==
    ASSUME IInv, NEW n \in Numbers, InWindow(n), processed[n] > 0
    PROVE  n <= newest /\ HasEntry(rx, n)
<1>1. n > newest - Modulus
  BY MaxNumberAssumption, ModulusType DEF InWindow, IInv, TypeOK, Numbers
<1> QED
  BY <1>1, ProcessedFound DEF HasEntry

-----------------------------------------------------------------------------
\* What processing a message does, told in message numbers: a newer one
\* becomes the newest; an old one was not processed before and is not ordered.
\* Either way its table entry becomes its round.
LEMMA ProcessEffect ==
    ASSUME IInv, NEW n \in Numbers, NEW orderedOnly \in BOOLEAN,
           ProcessMessage(n, orderedOnly)
    PROVE  /\ processed[n] = 0
           /\ newest' = IF n > newest THEN n ELSE newest
           /\ n <= newest => ~orderedOnly
           /\ rx' = Receiver(IF n > newest THEN Wrap(n) ELSE rx.m_sequenceIn,
                             IF n > newest THEN n \div Modulus ELSE rx.m_sequenceRound,
                             [s \in DOMAIN rx.m_seqtrackReceived \cup {Wrap(n)} |->
                                 IF s = Wrap(n) THEN n \div Modulus
                                                ELSE rx.m_seqtrackReceived[s]])
<1>1. InWindow(n) /\ PassesSequenceCheck(rx, Wrap(n), orderedOnly)
      /\ rx' = AfterSequenceCheck(rx, Wrap(n), orderedOnly)
      /\ newest' = IF IsSequenceNewer(Wrap(n), rx.m_sequenceIn) THEN n ELSE newest
  BY DEF ProcessMessage
<1>2. n \in Nat /\ newest \in Nat /\ processed[n] \in Nat
  BY MaxNumberAssumption DEF IInv, TypeOK, Numbers
<1>3. rx \in Receivers /\ Newest(rx) = newest /\ Within(rx, n)
  BY <1>1, InReach
<1>4. n > newest \/ (~orderedOnly /\ ~HasEntry(rx, n))
  BY <1>1, <1>3, CheckEffect
<1>5. processed[n] = 0
  BY <1>1, <1>2, <1>4, DuplicatesFound
<1>6. n > newest => rx' = Receiver(Wrap(n), n \div Modulus, Entered(rx, n))
  BY <1>1, <1>3, CheckEffect
<1>7. n <= newest => rx' = Receiver(rx.m_sequenceIn, rx.m_sequenceRound, Entered(rx, n))
  BY <1>1, <1>3, CheckEffect
<1>8. newest' = IF n > newest THEN n ELSE newest
  BY <1>1, <1>3, Reached
<1> QED
  BY <1>2, <1>4, <1>5, <1>6, <1>7, <1>8 DEF Entered

LEMMA SkipEffect ==
    ASSUME NEW n \in Numbers, NEW orderedOnly \in BOOLEAN, SkipMessage(n, orderedOnly)
    PROVE  UNCHANGED vars
BY DEF SkipMessage, AfterSequenceCheck, PassesSequenceCheck, vars

LEMMA InitInvariant == Init => IInv
<1> SUFFICES ASSUME Init PROVE IInv
  OBVIOUS
<1>1. 0 \in Sequences16 /\ 0 \in Numbers
  BY ModulusType, MaxNumberAssumption DEF Sequences16, Numbers
<1>0. 0 \in 0 .. Rounds - 1
  BY SequenceAssumption
<1>2. TypeOK
  BY <1>0, <1>1 DEF Init, NewReceiver, Receiver, TypeOK
<1>3. NewestSpelled
  BY ModulusType DEF Init, NewReceiver, Receiver, NewestSpelled, Newest, NumberOf
<1> QED
  BY <1>2, <1>3 DEF Init, NewReceiver, Receiver, IInv, EntriesProcessed, ProcessedHaveEntries,
                    ProcessedAtMostOnce

LEMMA ProcessPreserves ==
    ASSUME IInv, NEW n \in Numbers, NEW orderedOnly \in BOOLEAN,
           ProcessMessage(n, orderedOnly)
    PROVE  IInv'
<1> DEFINE s == Wrap(n)
           q == n \div Modulus
<1>1. /\ processed[n] = 0
      /\ newest' = IF n > newest THEN n ELSE newest
      /\ rx' = [m_sequenceIn |-> IF n > newest THEN s ELSE rx.m_sequenceIn,
                m_sequenceRound |-> IF n > newest THEN q ELSE rx.m_sequenceRound,
                m_seqtrackReceived |->
                   [t \in DOMAIN rx.m_seqtrackReceived \cup {s} |->
                       IF t = s THEN q ELSE rx.m_seqtrackReceived[t]]]
  BY ProcessEffect DEF Receiver
<1>2. processed' = [processed EXCEPT ![n] = @ + 1] /\ InWindow(n)
      /\ lastOrdered' \in {lastOrdered, n}
  BY DEF ProcessMessage
<1>3. /\ n \in Nat /\ newest \in Nat /\ processed \in [Numbers -> Nat]
      /\ lastOrdered \in Numbers /\ newest \in Numbers
      /\ rx.m_sequenceIn \in Sequences16 /\ rx.m_sequenceRound \in 0 .. Rounds - 1
      /\ DOMAIN rx.m_seqtrackReceived \subseteq Sequences16
      /\ \A t \in DOMAIN rx.m_seqtrackReceived :
            rx.m_seqtrackReceived[t] \in 0 .. Rounds - 1
  BY MaxNumberAssumption DEF IInv, TypeOK, Numbers
<1>4. s \in Sequences16 /\ q \in 0 .. Rounds - 1 /\ NumberOf(q, s) = n
  <2>1. n < Rounds * Modulus
    BY MaxNumberAssumption, SequenceAssumption, ModulusType DEF Numbers
  <2> QED
    BY <1>3, <2>1, Spelling, RoundRange
<1> HIDE DEF s, q
<1> DEFINE table == rx.m_seqtrackReceived
<1>5. /\ DOMAIN table' = DOMAIN table \cup {s}
      /\ table'[s] = q
      /\ \A t \in DOMAIN table : t # s => table'[t] = table[t]
  BY <1>1
<1>6. processed' = [m \in Numbers |-> IF m = n THEN 1 ELSE processed[m]]
  <2>1. processed' = [m \in Numbers |-> IF m = n THEN processed[m] + 1 ELSE processed[m]]
    BY <1>2, <1>3
  <2> QED
    BY <2>1, <1>1
<1>7. newest <= newest' /\ n <= newest'
  BY <1>1, <1>3
<1>8. TypeOK'
  <2>1. rx' \in [m_sequenceIn : Sequences16, m_sequenceRound : 0 .. Rounds - 1,
                 m_seqtrackReceived : {table'}]
    BY <1>1, <1>3, <1>4
  <2>2. table' \in [DOMAIN table' -> 0 .. Rounds - 1] /\ DOMAIN table' \subseteq Sequences16
    BY <1>1, <1>3, <1>4
  <2>3. processed' \in [Numbers -> Nat] /\ newest' \in Numbers /\ lastOrdered' \in Numbers
    BY <1>1, <1>2, <1>3, <1>6
  <2> QED
    BY <2>1, <2>2, <2>3 DEF TypeOK
<1>9. NewestSpelled'
  BY <1>1, <1>3, <1>4 DEF IInv, NewestSpelled, Newest
<1>10. EntriesProcessed'
  <2> SUFFICES ASSUME NEW t \in DOMAIN table'
               PROVE  /\ NumberOf(table'[t], t) \in Numbers
                      /\ NumberOf(table'[t], t) <= newest'
                      /\ processed'[NumberOf(table'[t], t)] > 0
    BY DEF EntriesProcessed
  <2>1. CASE t = s
    BY <2>1, <1>4, <1>5, <1>6, <1>7
  <2>2. CASE t # s
    <3>1. t \in DOMAIN table /\ table'[t] = table[t]
      BY <2>2, <1>5
    <3> DEFINE m == NumberOf(table[t], t)
    <3>2. m \in Numbers /\ m <= newest /\ processed[m] > 0
      BY <3>1 DEF IInv, EntriesProcessed
    <3> HIDE DEF m
    <3>3. m \in Nat /\ newest' \in Nat
      BY <3>2, <1>1, <1>3, MaxNumberAssumption DEF Numbers
    <3>4. m <= newest' /\ processed'[m] > 0
      BY <3>2, <3>3, <1>3, <1>6, <1>7
    <3> QED
      BY <3>1, <3>2, <3>4 DEF m
  <2> QED
    BY <2>1, <2>2
<1>11. ProcessedHaveEntries'
  <2> SUFFICES ASSUME NEW m \in Numbers, processed'[m] > 0
               PROVE  /\ m <= newest'
                      /\ Wrap(m) \in DOMAIN table'
                      /\ table'[Wrap(m)] >= m \div Modulus
    BY DEF ProcessedHaveEntries
  <2>1. m \in Nat /\ newest' \in Nat
    BY <1>1, <1>3, MaxNumberAssumption DEF Numbers
  <2>2. Wrap(m) \in Sequences16 /\ m \div Modulus \in Nat
        /\ NumberOf(m \div Modulus, Wrap(m)) = m
    BY <2>1, Spelling
  <2>3. CASE m = n
    BY <2>3, <1>3, <1>4, <1>5, <1>7 DEF s, q
  <2>4. CASE m # n
    <3>1. m <= newest /\ Wrap(m) \in DOMAIN table /\ table[Wrap(m)] >= m \div Modulus
      BY <2>4, <1>6 DEF IInv, ProcessedHaveEntries
    <3>2. m <= newest'
      BY <3>1, <2>1, <1>3, <1>7
    <3>3. CASE Wrap(m) # s
      BY <3>1, <3>2, <3>3, <1>5
    <3>4. CASE Wrap(m) = s
      <4>1. m < n + Modulus
        BY <3>1, <2>1, <1>2, <1>3, ModulusType DEF InWindow
      <4>2. m \div Modulus <= q
        BY <4>1, <3>4, <2>2, <1>4, SpellingOrder
      <4> QED
        BY <4>2, <3>2, <3>4, <2>2, <1>4, <1>5
    <3> QED
      BY <3>3, <3>4
  <2> QED
    BY <2>3, <2>4
<1>12. ProcessedAtMostOnce'
  BY <1>3, <1>6 DEF IInv, ProcessedAtMostOnce
<1> QED
  BY <1>8, <1>9, <1>10, <1>11, <1>12 DEF IInv

\* The strengthened invariant holds in every reachable state.
THEOREM Invariant == Spec => []IInv
<1>1. IInv /\ [Next]_vars => IInv'
  <2> SUFFICES ASSUME IInv, [Next]_vars PROVE IInv'
    OBVIOUS
  <2>1. ASSUME NEW n \in Numbers, NEW orderedOnly \in BOOLEAN, ProcessMessage(n, orderedOnly)
        PROVE  IInv'
    BY <2>1, ProcessPreserves
  <2>2. CASE UNCHANGED vars
    BY <2>2 DEF vars, IInv, TypeOK, NewestSpelled, EntriesProcessed, ProcessedHaveEntries,
                ProcessedAtMostOnce
  <2>3. ASSUME NEW n \in Numbers, NEW orderedOnly \in BOOLEAN, SkipMessage(n, orderedOnly)
        PROVE  IInv'
    BY <2>2, <2>3, SkipEffect
  <2> QED
    BY <2>1, <2>2, <2>3 DEF Next
<1> QED
  BY InitInvariant, <1>1, PTL DEF Spec

\* The receive-side fields keep their types.
THEOREM TypeCorrect == Spec => []TypeOK
<1>1. IInv => TypeOK
  BY DEF IInv
<1> QED
  BY <1>1, Invariant, PTL

\* However messages are repeated and reordered, none is processed twice.
THEOREM NoDuplicates == Spec => []ProcessedAtMostOnce
<1>1. IInv => ProcessedAtMostOnce
  BY DEF IInv
<1> QED
  BY <1>1, Invariant, PTL

-----------------------------------------------------------------------------
\* An acknowledgement bit never reports a message that was not processed, nor
\* the sequence of an earlier round.
THEOREM AckSoundness == Spec => []AckBitsSound
<1>1. ASSUME IInv PROVE AckBitsSound
  <2> SUFFICES ASSUME NEW i \in GetAckBits(rx)
               PROVE  newest - 1 - i \in Numbers /\ processed[newest - 1 - i] > 0
    BY DEF AckBitsSound
  <2> DEFINE n == NumberOf(AckRound(rx, i), AckSequence(rx, i))
  <2>0. rx \in Receivers /\ Newest(rx) = newest
    BY <1>1, ReceiverType
  <2>1. /\ i \in 0 .. AckBits - 1
        /\ AckSequence(rx, i) \in DOMAIN rx.m_seqtrackReceived
        /\ rx.m_seqtrackReceived[AckSequence(rx, i)] = AckRound(rx, i)
    BY AckBitsUnfolded
  <2>2. n \in Numbers /\ n <= newest /\ processed[n] > 0
    BY <1>1, <2>1 DEF IInv, EntriesProcessed
  <2>3. rx.m_sequenceIn # 0 /\ newest - 1 - i >= 0
    <3>1. n \in Nat /\ newest \in Nat
      BY <2>2, <1>1, MaxNumberAssumption DEF Numbers, IInv, TypeOK
    <3> HIDE DEF n
    <3>2. ~(n > newest)
      BY <2>2, <3>1
    <3>3. i \in Nat
      BY <2>1, SequenceAssumption
    <3> QED
      BY <3>1, <3>2, <3>3, <2>0, <2>1, AckSpelling DEF n
  <2> QED
    BY <2>0, <2>1, <2>2, <2>3, AckSpelling
<1> QED
  BY <1>1, Invariant, PTL

\* Unless the newest sequence is 0, no processed message the bits have room
\* for is left out.
THEOREM AckCompleteness == Spec => []AckBitsComplete
<1>1. ASSUME IInv PROVE AckBitsComplete
  <2> SUFFICES ASSUME rx.m_sequenceIn # 0, NEW i \in 0 .. AckBits - 1,
                      newest - 1 - i \in Numbers, processed[newest - 1 - i] > 0
               PROVE  i \in GetAckBits(rx)
    BY DEF AckBitsComplete
  <2> DEFINE n == newest - 1 - i
  <2>1. n \in Nat /\ newest \in Nat /\ n > newest - Modulus
    <3>1. newest \in Nat /\ n \in Nat
      BY <1>1, MaxNumberAssumption DEF Numbers, IInv, TypeOK
    <3> QED
      BY <3>1, SequenceAssumption, ModulusType
  <2>2. AckSequence(rx, i) \in Sequences16 /\ AckRound(rx, i) \in Int
        /\ NumberOf(AckRound(rx, i), AckSequence(rx, i)) = n
    <3>1. rx \in Receivers /\ Newest(rx) = newest
      BY <1>1, ReceiverType
    <3> QED
      BY <2>1, <3>1, AckSpelling
  <2>3. Wrap(n) = AckSequence(rx, i) /\ n \div Modulus = AckRound(rx, i)
    <3> HIDE DEF n
    <3> QED
      BY <2>1, <2>2, SpellingUnique
  <2>4. /\ Wrap(n) \in DOMAIN rx.m_seqtrackReceived
        /\ rx.m_seqtrackReceived[Wrap(n)] = n \div Modulus
    <3>1. n \in Numbers /\ processed[n] > 0
      OBVIOUS
    <3> HIDE DEF n
    <3> QED
      BY <1>1, <2>1, <3>1, ProcessedFound
  <2> QED
    BY <2>3, <2>4, AckBitsUnfolded
<1> QED
  BY <1>1, Invariant, PTL

-----------------------------------------------------------------------------
\* An ordered unreliable message is processed only if it is newer than all
\* that were processed before.
THEOREM OrderedInOrder == Spec => OrderedAreNewest
<1>1. IInv /\ [Next]_vars => (lastOrdered' # lastOrdered => lastOrdered' > newest) \/ UNCHANGED vars
  <2> SUFFICES ASSUME IInv, Next, lastOrdered' # lastOrdered PROVE lastOrdered' > newest
    OBVIOUS
  <2>1. PICK n \in Numbers, orderedOnly \in BOOLEAN :
            ProcessMessage(n, orderedOnly) \/ SkipMessage(n, orderedOnly)
    BY DEF Next
  <2>2. ProcessMessage(n, orderedOnly)
    BY <2>1 DEF SkipMessage
  <2>3. orderedOnly /\ lastOrdered' = n
    BY <2>2 DEF ProcessMessage
  <2>4. n > newest
    <3>1. n \in Nat /\ newest \in Nat
      BY MaxNumberAssumption DEF Numbers, IInv, TypeOK
    <3>2. n <= newest => ~orderedOnly
      BY <2>2, ProcessEffect
    <3> QED
      BY <2>3, <3>1, <3>2
  <2> QED
    BY <2>3, <2>4
<1> QED
  BY <1>1, Invariant, PTL DEF Spec, OrderedAreNewest

\* The receiver that sees only wrapped sequences implements the one that sees
\* message numbers.
THEOREM Refinement == Spec => ImplementsUniqueDelivery
<1>1. Init => Unwrapped!Init
  BY DEF Init, Unwrapped!Init, Numbers, Unwrapped!Numbers
<1>2. IInv /\ [Next]_vars => [Unwrapped!Next]_Unwrapped!vars
  <2> SUFFICES ASSUME IInv, Next PROVE Unwrapped!Next \/ UNCHANGED Unwrapped!vars
    BY DEF vars, Unwrapped!vars
  <2>1. PICK n \in Numbers, orderedOnly \in BOOLEAN :
            ProcessMessage(n, orderedOnly) \/ SkipMessage(n, orderedOnly)
    BY DEF Next
  <2>2. CASE SkipMessage(n, orderedOnly)
    BY <2>2 DEF SkipMessage, Unwrapped!vars
  <2>3. CASE ProcessMessage(n, orderedOnly)
    <3>1. n \in Nat /\ newest \in Nat /\ processed \in [Numbers -> Nat]
      BY MaxNumberAssumption DEF Numbers, IInv, TypeOK
    <3>2. /\ processed[n] = 0
          /\ newest' = IF n > newest THEN n ELSE newest
          /\ n <= newest => ~orderedOnly
      BY <2>3, ProcessEffect
    <3>3. /\ processed' = [processed EXCEPT ![n] = @ + 1]
          /\ lastOrdered' = IF orderedOnly THEN n ELSE lastOrdered
      BY <2>3 DEF ProcessMessage
    <3>4. /\ processed' = [processed EXCEPT ![n] = 1]
          /\ lastOrdered' \in {lastOrdered, n}
          /\ n <= newest => lastOrdered' = lastOrdered
      BY <3>1, <3>2, <3>3
    <3>5. CASE n > newest
      BY <3>2, <3>4, <3>5 DEF Unwrapped!Next, Unwrapped!DeliverNewer,
                                    Numbers, Unwrapped!Numbers
    <3>6. CASE n <= newest
      <4>1. newest' = newest
        BY <3>1, <3>2, <3>6
      <4> QED
        BY <3>2, <3>4, <3>6, <4>1 DEF Unwrapped!Next, Unwrapped!DeliverLate,
                                      Numbers, Unwrapped!Numbers
    <3> QED
      BY <3>1, <3>5, <3>6
  <2> QED
    BY <2>1, <2>2, <2>3
<1> QED
  BY <1>1, <1>2, Invariant, PTL DEF Spec, ImplementsUniqueDelivery, Unwrapped!Spec
=============================================================================
