---------------------------- MODULE RouteOptions ----------------------------
(***************************************************************************)
(* The routes a DHCP reply carries (router_append_dhcps_routes): a client  *)
(* on one side learns the way to the other side's network.  The options    *)
(* are records; of a network only the leading octets its prefix reaches    *)
(* into are sent.                                                          *)
(***************************************************************************)
EXTENDS Addressing, Sequences

CONSTANT OctetBits      \* bits of an octet: 8 in the code

ASSUME RouteOptionsAssumption == OctetBits \in Nat \ {0} /\ AddrBits % OctetBits = 0

AddrOctets == AddrBits \div OctetBits

\* The prefix older clients take an address to have; 0 stands for no class.
classful_prefix_len(subnet) ==
    LET below(n) == subnet * 8 < n * 2 ^ AddrBits IN
    CASE below(4)              -> OctetBits
      [] below(6) /\ ~below(4) -> 2 * OctetBits
      [] below(7) /\ ~below(6) -> 3 * OctetBits
      [] ~below(7)             -> 0

\* Faulty variant: the octets the prefix reaches into only partly are not sent.
subnet_octets_RoundedDown(p) == p \div OctetBits

\* (prefix_len + 7) / 8
subnet_octets(p) == (p + OctetBits - 1) \div OctetBits

append_classless_route_option(option, subnet, p, router) ==
    LET n == subnet_octets(p) IN
    [option |-> option, length |-> 1 + n + AddrOctets, prefix_len |-> p,
     subnet |-> Masked(subnet, n * OctetBits), router |-> router]

append_static_route_option(subnet, router) ==
    [option |-> 33, length |-> 2 * AddrOctets, subnet |-> subnet, router |-> router]

\* Faulty variant: the old option, which has no prefix, is always sent.
append_route_options_AlwaysStatic(subnet, p, router) ==
    <<append_classless_route_option(121, subnet, p, router),
      append_classless_route_option(249, subnet, p, router),
      append_static_route_option(subnet, router)>>

append_route_options(subnet, p, router) ==
    <<append_classless_route_option(121, subnet, p, router),
      append_classless_route_option(249, subnet, p, router)>>
    \o (IF p = classful_prefix_len(subnet)
        THEN <<append_static_route_option(subnet, router)>> ELSE <<>>)

\* What an OFFER or ACK carries for a client on the network own, given the other
\* side's network; both are pairs <<subnet, prefix>>.
router_append_dhcps_routes(own, other) ==
    IF subnets_overlap(own[1], own[2], other[1], other[2]) THEN <<>>
    ELSE append_route_options(other[1], other[2], GatewayOf(own[1], own[2]))
-----------------------------------------------------------------------------
(* The client, by RFC 3442 and RFC 2132: an option is read by its length, a    *)
(* classless one then by its prefix; what does not fit is no route.           *)

WellFormed(opt) ==
    opt.length = IF opt.option = 33 THEN 2 * AddrOctets
                 ELSE 1 + ((opt.prefix_len + OctetBits - 1) \div OctetBits) + AddrOctets

Destination(opt) ==
    LET p == IF opt.option = 33 THEN classful_prefix_len(opt.subnet) ELSE opt.prefix_len
    IN  {ip \in Addresses : ip_in_subnet(ip, opt.subnet, p)}
=============================================================================
