----------------------- MODULE ReliableChannelProofs -----------------------
(***************************************************************************)
(* Proofs about ReliableChannel, for all messages the applications offer   *)
(* and every length of connection.  ReliableLink implements ReliableChannel *)
(* (its property ImplementsReliableChannel), so what is proved here is what *)
(* the applications may rely on.                                           *)
(***************************************************************************)
EXTENDS ReliableChannel, SequenceTheorems, TLAPS

\* What the proofs need to know of the values of the variables.
ChannelType ==
    /\ accepted \in [Ends -> Nat]
    /\ inbox \in [Ends -> Seq(Nat)]
    /\ outstanding \in [Ends -> SUBSET Nat]
    /\ DOMAIN renumbered = Ends

TwoEnds == \E a, b : a # b /\ Ends = {a, b}

\* With two ends, each is the other of the other.
LEMMA OtherEnd ==
    ASSUME TwoEnds, NEW e \in Ends
    PROVE  Other(e) \in Ends /\ Other(e) # e /\ Other(Other(e)) = e
BY DEF TwoEnds, Other

\* The elements of a sequence are also at their places in any continuation.
LEMMA PrefixElements ==
    ASSUME NEW s \in Seq(Nat), NEW t \in Seq(Nat), IsPrefix(s, t)
    PROVE  /\ Len(s) <= Len(t)
           /\ \A j \in 1 .. Len(s) : t[j] = s[j]
<1>1. Len(s) \in Nat /\ Len(t) \in Nat /\ Len(s) <= Len(t)
  BY DEF IsPrefix
<1>2. ASSUME NEW j \in 1 .. Len(s) PROVE t[j] = s[j]
  <2>1. SubSeq(s, 1, Len(s))[j] = s[j] /\ SubSeq(t, 1, Len(s))[j] = t[j]
    BY <1>1, <1>2, SubSeqProperties
  <2> QED
    BY <2>1 DEF IsPrefix
<1> QED
  BY <1>1, <1>2

\* Every earlier element is among those before a place.
LEMMA EarlierElements ==
    ASSUME NEW t \in Seq(Nat), NEW k \in 1 .. Len(t), NEW j \in 1 .. k - 1
    PROVE  t[j] \in ToSet(SubSeq(t, 1, k - 1))
<1>1. SubSeq(t, 1, k - 1) \in Seq(Nat) /\ Len(SubSeq(t, 1, k - 1)) = k - 1
  BY SubSeqProperties
<1>2. SubSeq(t, 1, k - 1)[j] = t[j]
  BY SubSeqProperties
<1>3. j \in DOMAIN SubSeq(t, 1, k - 1)
  BY <1>1
<1> QED
  BY <1>2, <1>3 DEF ToSet

-----------------------------------------------------------------------------
ChannelInv == ChannelType /\ ArrivedOnce /\ OrderedArrive /\ ReliablesAccountedFor

LEMMA InitChannel == TwoEnds /\ Init => ChannelInv
BY OtherEnd DEF Init, ChannelInv, ChannelType, ArrivedOnce, OrderedArrive, ReliablesAccountedFor

\* A message is accepted.
LEMMA AcceptChannel ==
    ASSUME TwoEnds, ChannelInv, NEW e \in Ends, Accept(e)
    PROVE  ChannelInv'
<1> DEFINE i == accepted[e] + 1
<1>1. /\ accepted' = [accepted EXCEPT ![e] = i]
      /\ outstanding' = [outstanding EXCEPT
                            ![e] = IF i \in Flagged(e, "reliable") THEN @ \cup {i} ELSE @]
      /\ UNCHANGED <<offered, inbox, read, renumbered>>
  BY DEF Accept
<1>2. ChannelType'
  BY <1>1 DEF ChannelInv, ChannelType
<1>3. ArrivedOnce' /\ OrderedArrive'
  BY <1>1 DEF ChannelInv, ArrivedOnce, OrderedArrive, Ordered, Flagged
<1>4. ReliablesAccountedFor'
  <2> SUFFICES ASSUME NEW f \in Ends
               PROVE  /\ outstanding'[f] \subseteq 1 .. accepted'[f]
                      /\ (1 .. accepted'[f]) \cap Flagged(f, "reliable")
                            \subseteq outstanding'[f] \cup ToSet(inbox[Other(f)])
    BY <1>1 DEF ReliablesAccountedFor, Flagged
  <2>1. /\ outstanding[f] \subseteq 1 .. accepted[f]
        /\ (1 .. accepted[f]) \cap Flagged(f, "reliable")
              \subseteq outstanding[f] \cup ToSet(inbox[Other(f)])
        /\ accepted[f] \in Nat
    BY DEF ChannelInv, ChannelType, ReliablesAccountedFor
  <2>2. CASE f # e
    BY <1>1, <2>1, <2>2 DEF ChannelInv, ChannelType
  <2>3. CASE f = e
    <3>1. accepted'[f] = accepted[f] + 1
      BY <1>1, <2>3 DEF ChannelInv, ChannelType
    <3>2. outstanding'[f] = IF i \in Flagged(f, "reliable") THEN outstanding[f] \cup {i} ELSE outstanding[f]
      BY <1>1, <2>3 DEF ChannelInv, ChannelType
    <3> QED
      BY <2>1, <2>3, <3>1, <3>2
  <2> QED
    BY <2>2, <2>3
<1> QED
  BY <1>2, <1>3, <1>4 DEF ChannelInv

\* More messages may arrive a second time than before.
LEMMA RenumberChannel ==
    ASSUME TwoEnds, ChannelInv, NEW e \in Ends, Renumber(e)
    PROVE  ChannelInv'
<1>1. UNCHANGED <<offered, accepted, outstanding, inbox, read>>
  BY DEF Renumber
<1>2. DOMAIN renumbered' = Ends /\ \A f \in Ends : renumbered[f] \subseteq renumbered'[f]
  <2>1. renumbered' = [renumbered EXCEPT ![e] = renumbered'[e]]
    BY DEF Renumber
  <2>2. DOMAIN renumbered' = Ends
    BY <2>1 DEF ChannelInv, ChannelType
  <2>3. ASSUME NEW f \in Ends PROVE renumbered[f] \subseteq renumbered'[f]
    <3>1. CASE f = e
      BY <3>1 DEF Renumber
    <3>2. CASE f # e
      <4> DEFINE r == renumbered'[e]
      <4>1. renumbered' = [renumbered EXCEPT ![e] = r]
        BY <2>1
      <4> HIDE DEF r
      <4> QED
        BY <3>2, <4>1 DEF ChannelInv, ChannelType
    <3> QED
      BY <3>1, <3>2
  <2> QED
    BY <2>2, <2>3
<1>3. ChannelType' /\ OrderedArrive' /\ ReliablesAccountedFor'
  BY <1>1, <1>2 DEF ChannelInv, ChannelType, OrderedArrive, ReliablesAccountedFor, Ordered, Flagged
<1>4. ArrivedOnce'
  BY <1>1, <1>2, OtherEnd DEF ChannelInv, ArrivedOnce, Flagged
<1> QED
  BY <1>3, <1>4 DEF ChannelInv

\* Messages arrive at one end, which lets go of some of its own.
LEMMA ExchangeChannel ==
    ASSUME TwoEnds, ChannelInv, NEW e \in Ends, Exchange(e)
    PROVE  ChannelInv'
<1> DEFINE old == inbox[e]
           new == inbox'[e]
           kept == outstanding'[e]
           sender == Other(e)
<1>1. UNCHANGED <<offered, accepted, renumbered>>
  BY DEF Exchange
<1>2. /\ new \in Seq(Nat)
      /\ IsPrefix(old, new)
      /\ \A k \in Len(old) + 1 .. Len(new) : MayArrive(e, SubSeq(new, 1, k - 1), new[k])
      /\ inbox' = [inbox EXCEPT ![e] = new]
  BY DEF Exchange, Arrivals
<1>3. /\ kept \subseteq outstanding[e]
      /\ outstanding[e] \ kept \subseteq ToSet(inbox[sender])
      /\ outstanding' = [outstanding EXCEPT ![e] = kept]
  BY DEF Exchange, Release
<1>4. old \in Seq(Nat) /\ sender \in Ends /\ sender # e /\ Other(sender) = e
  BY OtherEnd DEF ChannelInv, ChannelType
<1>5. Len(old) \in Nat /\ Len(new) \in Nat /\ Len(old) <= Len(new)
      /\ \A j \in 1 .. Len(old) : new[j] = old[j]
  BY <1>2, <1>4, PrefixElements
<1>6. ASSUME NEW k \in Len(old) + 1 .. Len(new), NEW j \in 1 .. k - 1
      PROVE  /\ new[j] = new[k] =>
                    new[k] \in renumbered[sender] \cup Flagged(sender, "unsequenced")
             /\ {new[j], new[k]} \subseteq Ordered(sender) => new[j] < new[k]
  <2>1. k \in 1 .. Len(new)
    BY <1>5
  <2>2. new[j] \in ToSet(SubSeq(new, 1, k - 1))
    BY <1>2, <2>1, EarlierElements
  <2>3. MayArrive(e, SubSeq(new, 1, k - 1), new[k])
    BY <1>2
  <2> QED
    BY <2>2, <2>3 DEF MayArrive
<1> HIDE DEF old, new, kept, sender
<1>7. ChannelType'
  BY <1>1, <1>2, <1>3 DEF ChannelInv, ChannelType
<1>8. inbox'[e] = new /\ \A f \in Ends : f # e => inbox'[f] = inbox[f]
  BY <1>2 DEF ChannelInv, ChannelType
<1>9. DOMAIN old = 1 .. Len(old) /\ DOMAIN new = 1 .. Len(new)
  BY <1>2, <1>4
<1>10. ArrivedOnce'
  <2> SUFFICES ASSUME NEW f \in Ends, NEW j \in DOMAIN inbox'[f], NEW k \in DOMAIN inbox'[f],
                      j < k, inbox'[f][j] = inbox'[f][k]
               PROVE  inbox'[f][k] \in renumbered[Other(f)] \cup Flagged(Other(f), "unsequenced")
    BY <1>1 DEF ArrivedOnce, Flagged
  <2>1. CASE f # e
    BY <1>8, <2>1 DEF ChannelInv, ArrivedOnce
  <2>2. CASE f = e
    <3>1. CASE k <= Len(old)
      <4>1. j \in DOMAIN old /\ k \in DOMAIN old /\ old[j] = new[j] /\ old[k] = new[k]
        BY <1>5, <1>8, <1>9, <2>2, <3>1
      <4> QED
        BY <1>8, <2>2, <4>1 DEF ChannelInv, ArrivedOnce, old
    <3>2. CASE k > Len(old)
      <4>1. k \in Len(old) + 1 .. Len(new) /\ j \in 1 .. k - 1
        BY <1>5, <1>8, <1>9, <2>2, <3>2
      <4> QED
        BY <1>6, <1>8, <2>2, <4>1 DEF sender
    <3> QED
      BY <1>5, <1>8, <1>9, <2>2, <3>1, <3>2
  <2> QED
    BY <2>1, <2>2
<1>11. OrderedArrive'
  <2>0. \A f \in Ends : Ordered(Other(f))' = Ordered(Other(f))
    BY <1>1 DEF Ordered, Flagged
  <2> SUFFICES ASSUME NEW f \in Ends, NEW j \in DOMAIN inbox'[f], NEW k \in DOMAIN inbox'[f],
                      j < k, {inbox'[f][j], inbox'[f][k]} \subseteq Ordered(Other(f))
               PROVE  inbox'[f][j] < inbox'[f][k]
    BY <2>0 DEF OrderedArrive
  <2>1. CASE f # e
    BY <1>8, <2>1 DEF ChannelInv, OrderedArrive
  <2>2. CASE f = e /\ k <= Len(old)
    <3>1. j \in DOMAIN old /\ k \in DOMAIN old /\ old[j] = new[j] /\ old[k] = new[k]
      BY <1>5, <1>8, <1>9, <2>2
    <3> QED
      BY <1>8, <2>2, <3>1 DEF ChannelInv, OrderedArrive, old
  <2>3. CASE f = e /\ k > Len(old)
    <3>1. k \in Len(old) + 1 .. Len(new) /\ j \in 1 .. k - 1
      BY <1>5, <1>8, <1>9, <2>3
    <3> QED
      BY <1>6, <1>8, <2>3, <3>1 DEF sender
  <2> QED
    BY <1>5, <1>8, <1>9, <2>1, <2>2, <2>3
<1>12. ReliablesAccountedFor'
  <2> SUFFICES ASSUME NEW f \in Ends
               PROVE  /\ outstanding'[f] \subseteq 1 .. accepted[f]
                      /\ (1 .. accepted[f]) \cap Flagged(f, "reliable")
                            \subseteq outstanding'[f] \cup ToSet(inbox'[Other(f)])
    BY <1>1 DEF ReliablesAccountedFor, Flagged
  <2>1. /\ outstanding[f] \subseteq 1 .. accepted[f]
        /\ (1 .. accepted[f]) \cap Flagged(f, "reliable")
              \subseteq outstanding[f] \cup ToSet(inbox[Other(f)])
    BY DEF ChannelInv, ReliablesAccountedFor
  <2>2. \A g \in Ends : ToSet(inbox[g]) \subseteq ToSet(inbox'[g])
    <3>1. ToSet(old) \subseteq ToSet(new)
      BY <1>5, <1>9 DEF ToSet
    <3> QED
      BY <1>8, <3>1 DEF old
  <2>3. Other(f) \in Ends
    BY OtherEnd
  <2>4. outstanding'[f] \subseteq outstanding[f]
        /\ outstanding[f] \ outstanding'[f] \subseteq ToSet(inbox[Other(f)])
    BY <1>3 DEF ChannelInv, ChannelType, sender
  <2> QED
    BY <2>1, <2>2, <2>3, <2>4
<1> QED
  BY <1>7, <1>10, <1>11, <1>12 DEF ChannelInv

-----------------------------------------------------------------------------
\* The three promises together, for every behaviour.
THEOREM ChannelInvariant == TwoEnds => (Spec => []ChannelInv)
<1> SUFFICES ASSUME TwoEnds PROVE Spec => []ChannelInv
  OBVIOUS
<1>1. Init => ChannelInv
  BY InitChannel
<1>2. ChannelInv /\ [Next]_vars => ChannelInv'
  <2> SUFFICES ASSUME ChannelInv, [Next]_vars PROVE ChannelInv'
    OBVIOUS
  <2>1. ASSUME NEW e \in Ends, Accept(e) PROVE ChannelInv'
    BY <2>1, AcceptChannel
  <2>2. ASSUME NEW e \in Ends, Renumber(e) PROVE ChannelInv'
    BY <2>2, RenumberChannel
  <2>3. ASSUME NEW e \in Ends, Exchange(e) PROVE ChannelInv'
    BY <2>3, ExchangeChannel
  <2>4. CASE UNCHANGED vars
    BY <2>4 DEF vars, ChannelInv, ChannelType, ArrivedOnce, OrderedArrive,
                ReliablesAccountedFor, Ordered, Flagged
  <2> QED
    BY <2>1, <2>2, <2>3, <2>4 DEF Next
<1> QED
  BY <1>1, <1>2, PTL DEF Spec

\* A message arrives twice only if it is unsequenced or renumbered (duplicate
\* detection, README.md:21).
THEOREM ArrivesOnce == TwoEnds => (Spec => []ArrivedOnce)
<1>1. ChannelInv => ArrivedOnce
  BY DEF ChannelInv
<1> QED
  BY <1>1, ChannelInvariant, PTL

\* Ordered unreliable messages arrive in order.
THEOREM ArrivesInOrder == TwoEnds => (Spec => []OrderedArrive)
<1>1. ChannelInv => OrderedArrive
  BY DEF ChannelInv
<1> QED
  BY <1>1, ChannelInvariant, PTL

\* A reliable message is kept until it has arrived.
THEOREM ReliablesNotLost == TwoEnds => (Spec => []ReliablesAccountedFor)
<1>1. ChannelInv => ReliablesAccountedFor
  BY DEF ChannelInv
<1> QED
  BY <1>1, ChannelInvariant, PTL
=============================================================================
