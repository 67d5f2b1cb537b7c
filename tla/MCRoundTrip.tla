---------------------------- MODULE MCRoundTrip -----------------------------
(***************************************************************************)
(* RoundTrip for TLC: the clocks, the latencies and the faults.            *)
(***************************************************************************)
EXTENDS RoundTrip

\* Two ends whose clocks started at different moments within a second.
Undisturbed ==
    [first |-> [client |-> -3, server |-> -8], latency |-> [client |-> 0, server |-> 0],
     messages |-> [client |-> 0, server |-> 0], frames |-> 11,
     losses |-> 0, stalls |-> 0, endures |-> 0]

Reliables(n, losses) == [Undisturbed EXCEPT !.messages["client"] = n, !.losses = losses]
Latencies(c, s) == [Undisturbed EXCEPT !.latency["client"] = c, !.latency["server"] = s]

TimedScenarios ==
    {Reliables(2, 1),
     [Latencies(3, 0) EXCEPT !.frames = 20],
     [Latencies(2, 3) EXCEPT !.frames = 20],
     [Reliables(1, 0) EXCEPT !.messages["server"] = 1],
     [Reliables(1, 1) EXCEPT !.stalls = 3],
     [Undisturbed EXCEPT !.frames = 16, !.losses = 2],
     [Undisturbed EXCEPT !.frames = 20, !.losses = 1, !.stalls = 1, !.endures = 2]}

QuietScenarios == {Undisturbed}
=============================================================================
