------------------------------- MODULE MCPeer -------------------------------
(***************************************************************************)
(* Peer for TLC: the servers and clients, what the applications may call   *)
(* and how often the network and the clocks interfere.                     *)
(***************************************************************************)
EXTENDS Peer

CONSTANTS server, other, alice, bob

OneServer == {server}
TwoServers == {server, other}
OneClient == {alice}
TwoClients == {alice, bob}

\* One slot, nobody calls anything and nothing goes wrong.
Quiet ==
    [slots |-> 1, delayed |-> {}, calls |-> [a \in Addresses |-> <<>>],
     probes |-> 0, losses |-> 0, duplicates |-> 0, timeouts |-> 0, silences |-> 0]

\* A client that comes by discovery or directly and goes or asks again,
\* another one, and a server that may be switched off and on.
Rivals ==
    [Quiet EXCEPT !.probes = 1,
                  !.calls[alice] = <<{"FindServers", "ConnectTo"}, {"DisconnectAll", "ConnectTo"}>>,
                  !.calls[bob] = <<{"ConnectTo"}>>,
                  !.calls[server] = <<{"DisconnectAll", "SetServerMode"}>>]

\* One client that comes, goes or asks again, and comes back, over a network
\* that loses and duplicates.
ComeBack(losses, duplicates, timeouts) ==
    [Quiet EXCEPT !.losses = losses, !.duplicates = duplicates, !.timeouts = timeouts,
                  !.calls[alice] = <<{"ConnectTo"}, {"DisconnectAll", "ConnectTo"}, {"ConnectTo"}>>]

\* The same client, which comes by discovery at first.
Found(b) ==
    [b EXCEPT !.probes = 1, !.calls[alice] = <<{"FindServers", "ConnectTo"}>> \o Tail(@)]

\* A handshake whose packets are lost and sent again with KeepAlives.
Retransmitted ==
    [Quiet EXCEPT !.losses = 1, !.silences = 2, !.calls[alice] = <<{"ConnectTo"}>>]

\* Two slots, two clients, one of which asks again.
AskAgain(losses, timeouts) ==
    [Quiet EXCEPT !.slots = 2, !.losses = losses, !.timeouts = timeouts,
                  !.calls[alice] = <<{"ConnectTo"}, {"ConnectTo"}>>,
                  !.calls[bob] = <<{"ConnectTo"}>>]

\* One slot whose client may time out while the server still holds messages
\* of it, and another client that takes the slot.
Inherited ==
    [Quiet EXCEPT !.delayed = {server}, !.losses = 1, !.timeouts = 1,
                  !.calls[alice] = <<{"ConnectTo"}>>, !.calls[bob] = <<{"ConnectTo"}>>]

ConnectionBudgets ==
    {Rivals, Found(ComeBack(1, 1, 0)), ComeBack(0, 1, 1), ComeBack(1, 0, 1),
     Retransmitted, AskAgain(1, 0), AskAgain(0, 1), Inherited}

\* Handshakes over a network with losses: one client that comes by discovery,
\* one that has fake latency, like the server, and two that want the same slot
\* or have one each.
HandshakeBudgets ==
    {[Quiet EXCEPT !.probes = 1, !.losses = 3, !.calls[alice] = <<{"FindServers", "ConnectTo"}>>],
     [Quiet EXCEPT !.losses = 2, !.delayed = {alice, server}, !.calls[alice] = <<{"ConnectTo"}>>],
     [Quiet EXCEPT !.losses = 1, !.calls[alice] = <<{"ConnectTo"}>>,
                   !.calls[bob] = <<{"ConnectTo"}>>],
     [Quiet EXCEPT !.slots = 2, !.losses = 1, !.calls[alice] = <<{"ConnectTo"}>>,
                   !.calls[bob] = <<{"ConnectTo"}>>]}

\* Two slots, another client, and one that goes and then asks twice; nothing is
\* lost or duplicated.
AskTwiceBudgets ==
    {[Quiet EXCEPT !.slots = 2, !.calls[bob] = <<{"ConnectTo"}>>,
                   !.calls[alice] = <<{"ConnectTo"}, {"DisconnectAll"}, {"ConnectTo"}, {"ConnectTo"}>>]}

DiscoveryBudgets == {[Quiet EXCEPT !.probes = 1, !.calls[alice] = <<{"FindServers"}>>]}
=============================================================================
