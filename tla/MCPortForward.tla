--------------------------- MODULE MCPortForward ---------------------------
(* Instances of PortForward for TLC, over an address space of 5 bits. *)
EXTENDS PortForward, TLC

CONSTANTS c1, c2, c3

\* USB is 8/2 (8..15, gateway 9), Wi-Fi is 16/2 (16..23).
MCRule(lport, tip) ==
    [enabled |-> 1, listen_port |-> lport, target_ip |-> tip, target_port |-> 22]

MCNoRule == [enabled |-> 0, listen_port |-> 0, target_ip |-> 0, target_port |-> 0]

MCNetwork(rules) ==
    [usb_subnet |-> 8, usb_prefix_len |-> 2, wifi_subnet |-> 16, wifi_prefix_len |-> 2,
     port_forwards |-> rules]

\* One rule; two rules and an unused one between them.
MCOneRule == MCNetwork([r \in {0} |-> MCRule(1, 10)])
MCThreeRules ==
    MCNetwork([r \in 0 .. 2 |-> IF r = 1 THEN MCNoRule ELSE MCRule(r + 1, 10 + r)])

\* c1 and c2 are Wi-Fi stations; c3 is one too, or a host behind USB, which
\* routing lets reach the listener's address as well.
MCPeerAddr == (c1 :> 18) @@ (c2 :> 19) @@ (c3 :> 10)
MCAllWifi == (c1 :> 18) @@ (c2 :> 19) @@ (c3 :> 20)
MCAllDialOne == (c1 :> 1) @@ (c2 :> 1) @@ (c3 :> 1)
MCDialBoth == (c1 :> 1) @@ (c2 :> 1) @@ (c3 :> 3)

Symmetric == Permutations(Sessions)
=============================================================================
