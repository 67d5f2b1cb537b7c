--------------------------- MODULE UniqueDelivery ---------------------------
(***************************************************************************)
(* What the receiving end of a connection promises, told with message      *)
(* numbers that never wrap: a message is processed at most once, and an    *)
(* ordered unreliable message only if nothing newer was processed first.   *)
(***************************************************************************)
EXTENDS Integers

CONSTANT MaxNumber   \* messages are numbered 0 .. MaxNumber

VARIABLES
    processed,     \* how often each message was handed to processMessage
    newest,        \* the highest number processed so far
    lastOrdered    \* the last ordered unreliable message processed

vars == <<processed, newest, lastOrdered>>

Numbers == 0 .. MaxNumber

Init ==
    /\ processed = [n \in Numbers |-> 0]
    /\ newest = 0
    /\ lastOrdered = 0

\* A message newer than all before it is processed.
DeliverNewer(n) ==
    /\ n > newest
    /\ processed[n] = 0
    /\ processed' = [processed EXCEPT ![n] = 1]
    /\ newest' = n
    /\ lastOrdered' \in {lastOrdered, n}

\* A late message is processed if it was not processed before; it is not an
\* ordered unreliable one.
DeliverLate(n) ==
    /\ n <= newest
    /\ processed[n] = 0
    /\ processed' = [processed EXCEPT ![n] = 1]
    /\ UNCHANGED <<newest, lastOrdered>>

Next == \E n \in Numbers : DeliverNewer(n) \/ DeliverLate(n)

Spec == Init /\ [][Next]_vars
=============================================================================
