---------------------------- MODULE MCAddressing ----------------------------
(* The subnet arithmetic and the route options against their meaning as sets  *)
(* of addresses, for every pair of networks of a small address space: each    *)
(* state asks about one pair.                                                 *)
EXTENDS RouteOptions

VARIABLES
    usb,    \* <<address, prefix>>, host bits included
    wifi    \* the same, host bits cleared as config_sanitize leaves them

Networks == Addresses \X (MinPrefix .. MaxPrefix)

Init == usb = <<0, MinPrefix>> /\ wifi = <<0, MinPrefix>>

AskUsb == usb' \in Networks /\ usb'[1] \in {usb[1], (usb[1] + 1) % 2 ^ AddrBits}
          /\ UNCHANGED wifi
AskWifi == wifi' \in {net \in Networks : network_is_valid(net[1], net[2])}
           /\ UNCHANGED usb

\* The Wi-Fi network is chosen first, then every USB network is gone through.
Next == AskUsb \/ (usb = <<0, MinPrefix>> /\ AskWifi)

Spec == Init /\ [][Next]_<<usb, wifi>>

Members(net) == {ip \in Addresses : ip_in_subnet(ip, net[1], net[2])}

\* The overlap test that config_sanitize, config_post_handler and the route
\* injection rely on says exactly whether some address belongs to both networks,
\* whichever of the two is the larger.
OverlapIsIntersection ==
    subnets_overlap(usb[1], usb[2], wifi[1], wifi[2])
        <=> Members(usb) \cap Members(wifi) # {}

\* On every prefix the firmware accepts, the DHCP pool has an address and holds
\* only addresses of the network that a client may have; and the network whose
\* host bits were cleared is one that config_sanitize keeps.
PoolIsUsable ==
    /\ network_is_valid(Masked(usb[1], usb[2]), usb[2])
    /\ DhcpPool(usb[1], usb[2]) # {}
    /\ DhcpPool(usb[1], usb[2]) \subseteq
          Members(usb) \ {NetworkOf(usb[1], usb[2]), GatewayOf(usb[1], usb[2]),
                          BroadcastOf(usb[1], usb[2])}

Reply == router_append_dhcps_routes(usb, wifi)

\* Every route a client on the USB side gets leads to the Wi-Fi network, to all
\* of it and to nothing else, although only some octets of it are sent, or, for
\* clients that know only the old option, no prefix at all; its router is on the
\* client's link and no client.
RoutesLeadToTheOtherSide ==
    \A i \in 1 .. Len(Reply) :
        /\ WellFormed(Reply[i])
        /\ Destination(Reply[i]) = Members(wifi)
        /\ Reply[i].router \in Members(usb) \ DhcpPool(usb[1], usb[2])
=============================================================================
