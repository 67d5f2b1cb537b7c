--------------------------- MODULE MCReliableLink ---------------------------
(***************************************************************************)
(* ReliableLink for TLC: what the applications send in each run.           *)
(***************************************************************************)
EXTENDS ReliableLink

Message(flags) == [flags |-> flags, size |-> 2]
Reliable == Message({"reliable"})
Ordered == Message({"ordered"})

OneWay(messages) == [client |-> messages, server |-> <<>>, delayed |-> {}]
Delayed(s, ends) == [s EXCEPT !.delayed = ends]

\* Reliable and ordered messages one way, a reliable one both ways, two of each
\* kind to an end with fake latency, and ordered ones of which one is unsequenced.
SafetyScripts ==
    {OneWay(<<Reliable, Ordered, Ordered>>),
     [client |-> <<Reliable>>, server |-> <<Reliable>>, delayed |-> {}],
     Delayed(OneWay(<<Reliable, Reliable>>), {"server"}),
     Delayed(OneWay(<<Ordered, Ordered>>), {"server"}),
     OneWay(<<Ordered, Message({"ordered", "unsequenced"}), Ordered>>)}

\* Reliable messages one way, KeepAlives the other way.
LiveScripts ==
    {OneWay(<<Reliable, Reliable>>), Delayed(OneWay(<<Reliable>>), {"server"})}

\* A reliable message with more messages behind it than AckBits reach.
CrowdedScripts == {OneWay(<<Reliable, Message({}), Message({}), Message({})>>)}

\* A reliable message that leaves less room in a packet than a KeepAlive needs.
LargeScripts == {OneWay(<<[flags |-> {"reliable"}, size |-> 5]>>)}
=============================================================================
