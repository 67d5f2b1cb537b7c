------------------------------- MODULE Loops -------------------------------
(***************************************************************************)
(* The loops of the models are recursive functions of the number of rounds *)
(* done: r[0] is the first state, r[k] the state after round k.  This      *)
(* module proves that such a function exists, so that its equation holds,  *)
(* and that what holds at first and is kept by every round holds at the    *)
(* end.  A module instantiates it once for each of its loops, with the     *)
(* round of the loop and the statement that is kept; x stands for what     *)
(* does not change during the loop.                                        *)
(***************************************************************************)
EXTENDS Integers, NaturalsInduction, WellFoundedInduction, TLAPS

CONSTANTS
    Step(_, _, _),   \* the state after round k, of the one before it, k and x
    Holds(_, _, _)   \* what is kept, of the state after round k, k and x

IsLoop(r, N, first, x) ==
    r = [k \in 0 .. N |-> IF k = 0 THEN first ELSE Step(r[k - 1], k, x)]

LEMMA LeastElement ==
    ASSUME NEW T \in SUBSET Nat, T # {}
    PROVE  \E n \in T : \A m \in T : ~(m < n)
<1>1. PICK n \in T : \A m \in T : ~(<<m, n>> \in OpToRel(<, Nat))
  BY NatLessThanWellFounded, WFMin, Zenon
<1>2. \A m \in T : m < n => <<m, n>> \in OpToRel(<, Nat)
  BY DEF OpToRel
<1> QED
  BY <1>1, <1>2

\* A loop of any length is a function: a shortest one that is not could be built
\* from the one that is a round shorter.
LEMMA LoopExists ==
    ASSUME NEW N \in Nat, NEW first, NEW x
    PROVE  \E r : IsLoop(r, N, first, x)
<1> DEFINE T == {n \in Nat : ~ \E r : IsLoop(r, n, first, x)}
<1>1. SUFFICES ASSUME T # {} PROVE FALSE
  OBVIOUS
<1>2. PICK n \in T : \A m \in T : ~(m < n)
  <2>1. T \in SUBSET Nat
    OBVIOUS
  <2> HIDE DEF T
  <2> QED
    BY <1>1, <2>1, LeastElement
<1>3. n # 0
  <2>1. IsLoop([k \in 0 .. 0 |-> first], 0, first, x)
    BY DEF IsLoop
  <2> QED
    BY <2>1
<1>4. n - 1 \in Nat /\ n - 1 \notin T
  BY <1>2, <1>3
<1>5. PICK g : IsLoop(g, n - 1, first, x)
  BY <1>4
<1> DEFINE h == [k \in 0 .. n |-> IF k = n THEN Step(g[n - 1], n, x) ELSE g[k]]
<1>6. IsLoop(h, n, first, x)
  <2>1. n \in Nat /\ n > 0
    BY <1>2, <1>3
  <2>2. \A k \in 0 .. n - 1 : g[k] = IF k = 0 THEN first ELSE Step(g[k - 1], k, x)
    BY <1>5 DEF IsLoop
  <2>3. \A k \in 0 .. n - 1 : h[k] = g[k]
    BY <2>1
  <2>4. h[n] = Step(h[n - 1], n, x)
    BY <2>1, <2>3
  <2>5. \A k \in 0 .. n : h[k] = IF k = 0 THEN first ELSE Step(h[k - 1], k, x)
    <3> TAKE k \in 0 .. n
    <3>1. CASE k = n
      BY <3>1, <2>4, <2>1
    <3>2. CASE k # n
      <4>1. k \in 0 .. n - 1 /\ (k # 0 => k - 1 \in 0 .. n - 1)
        BY <3>2, <2>1
      <4> QED
        BY <4>1, <2>2, <2>3
    <3> QED
      BY <3>1, <3>2
  <2> HIDE DEF h
  <2>6. h = [k \in 0 .. n |-> h[k]]
    BY DEF h
  <2> QED
    BY <2>5, <2>6 DEF IsLoop
<1> QED
  BY <1>2, <1>6

\* What holds before the first round, and after a round if it held before it,
\* holds after every round.
LEMMA LoopInvariant ==
    ASSUME NEW N \in Nat, NEW first, NEW x, NEW r, IsLoop(r, N, first, x),
           Holds(first, 0, x),
           \A k \in 1 .. N : \A s : Holds(s, k - 1, x) => Holds(Step(s, k, x), k, x)
    PROVE  \A k \in 0 .. N : Holds(r[k], k, x)
<1> DEFINE T == {n \in 0 .. N : ~ Holds(r[n], n, x)}
<1>1. SUFFICES ASSUME T # {} PROVE FALSE
  OBVIOUS
<1>2. PICK n \in T : \A m \in T : ~(m < n)
  <2>1. T \in SUBSET Nat
    OBVIOUS
  <2> HIDE DEF T
  <2> QED
    BY <1>1, <2>1, LeastElement
<1>3. n \in 0 .. N /\ r[n] = IF n = 0 THEN first ELSE Step(r[n - 1], n, x)
  BY DEF IsLoop
<1>4. n # 0
  BY <1>3
<1>5. n \in 1 .. N /\ n - 1 \in 0 .. N /\ n - 1 \notin T
  BY <1>2, <1>3, <1>4
<1>6. Holds(r[n - 1], n - 1, x)
  BY <1>5
<1> QED
  BY <1>3, <1>4, <1>5, <1>6
=============================================================================
