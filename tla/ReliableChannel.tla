-------------------------- MODULE ReliableChannel --------------------------
(***************************************************************************)
(* What a connection promises to the two applications, without packets,    *)
(* sequence numbers or acknowledgements.  Each end passes messages to its  *)
(* channel one after the other; some of them arrive in the inbox of the    *)
(* other end and are read from it in the order of arrival.  No message     *)
(* arrives twice, ordered ones arrive in order, and a reliable message is  *)
(* kept by its sender until it has arrived.                                *)
(*                                                                         *)
(* The exception is a renumbered message: the detailed specification says  *)
(* which ones may arrive more than once.                                   *)
(***************************************************************************)
EXTENDS Integers, SequencesExt

CONSTANT Ends   \* the two ends of the connection

VARIABLES
    offered,     \* for each end, the messages its application will send
    accepted,    \* for each end, how many of them the channel has taken
    outstanding, \* for each end, its reliable messages that it still keeps
    inbox,       \* for each end, the messages of the other that arrived
    read,        \* for each end, how many of those were processed
    renumbered   \* for each end, its messages that may arrive again

vars == <<offered, accepted, outstanding, inbox, read, renumbered>>

Other(e) == CHOOSE o \in Ends : o # e

\* The messages of an end with a flag, and those that are ordered and neither
\* reliable nor unsequenced.
Flagged(e, flag) == {i \in DOMAIN offered[e] : flag \in offered[e][i].flags}
Ordered(e) == Flagged(e, "ordered") \ (Flagged(e, "reliable") \cup Flagged(e, "unsequenced"))

Init ==
    /\ accepted = [e \in Ends |-> 0]
    /\ outstanding = [e \in Ends |-> {}]
    /\ inbox = [e \in Ends |-> <<>>]
    /\ read = [e \in Ends |-> 0]
    /\ renumbered = [e \in Ends |-> {}]

\* The application passes its next message to the channel.
Accept(e) ==
    LET i == accepted[e] + 1
    IN  /\ i <= Len(offered[e])
        /\ accepted' = [accepted EXCEPT ![e] = i]
        /\ outstanding' = [outstanding EXCEPT ![e] = IF i \in Flagged(e, "reliable") THEN @ \cup {i} ELSE @]
        /\ UNCHANGED <<offered, inbox, read, renumbered>>

\* Some of its messages become ones that may arrive again.
Renumber(e) ==
    /\ renumbered[e] \subseteq renumbered'[e]
    /\ renumbered' = [renumbered EXCEPT ![e] = renumbered'[e]]
    /\ UNCHANGED <<offered, accepted, outstanding, inbox, read>>

MayArrive(e, arrived, i) ==
    LET before == ToSet(arrived)
    IN  /\ i \in 1 .. accepted[Other(e)]
        /\ i \in before => i \in renumbered[Other(e)] \/ i \in Flagged(Other(e), "unsequenced")
        /\ i \in Ordered(Other(e)) => \A j \in before \cap Ordered(Other(e)) : j < i

\* Some messages arrive, and some are read, from the front of the inbox.
Arrivals(e) ==
    LET old == Len(inbox[e])
    IN  /\ inbox'[e] \in Seq(Nat)
        /\ IsPrefix(inbox[e], inbox'[e])
        /\ \A k \in old + 1 .. Len(inbox'[e]) :
                MayArrive(e, SubSeq(inbox'[e], 1, k - 1), inbox'[e][k])
        /\ inbox' = [inbox EXCEPT ![e] = inbox'[e]]
        /\ read'[e] \in read[e] .. Len(inbox'[e])
        /\ read' = [read EXCEPT ![e] = read'[e]]

\* An end lets go only of messages that have arrived.
Release(e) ==
    /\ outstanding'[e] \subseteq outstanding[e]
    /\ outstanding[e] \ outstanding'[e] \subseteq ToSet(inbox[Other(e)])
    /\ outstanding' = [outstanding EXCEPT ![e] = outstanding'[e]]

\* One packet brings messages of the other end and news of one's own.
Exchange(e) == Arrivals(e) /\ Release(e) /\ UNCHANGED <<offered, accepted, renumbered>>

Next == \E e \in Ends : Accept(e) \/ Renumber(e) \/ Exchange(e)

Spec == Init /\ [][Next]_vars

-----------------------------------------------------------------------------
\* What follows from this for the two applications.  A message arrives a
\* second time only if it is unsequenced or one of the exceptions.
ArrivedOnce ==
    \A e \in Ends : \A j, k \in DOMAIN inbox[e] :
        j < k /\ inbox[e][j] = inbox[e][k] =>
            inbox[e][k] \in renumbered[Other(e)] \cup Flagged(Other(e), "unsequenced")

\* Ordered unreliable messages arrive in the order in which they were accepted.
OrderedArrive ==
    \A e \in Ends : \A j, k \in DOMAIN inbox[e] :
        j < k /\ {inbox[e][j], inbox[e][k]} \subseteq Ordered(Other(e))
            => inbox[e][j] < inbox[e][k]

\* An accepted reliable message is still kept by its sender or has arrived: it
\* is never lost, and what is kept was accepted.
ReliablesAccountedFor ==
    \A e \in Ends :
        /\ outstanding[e] \subseteq 1 .. accepted[e]
        /\ (1 .. accepted[e]) \cap Flagged(e, "reliable")
                \subseteq outstanding[e] \cup ToSet(inbox[Other(e)])
=============================================================================
