----------------------------- MODULE Addressing -----------------------------
(***************************************************************************)
(* IPv4 subnet arithmetic.  The firmware keeps three copies of it          *)
(* (nvs_config.c, router.c, port_forward.c) that agree on every prefix;    *)
(* the address width and the accepted prefix range are constants here      *)
(* (32, 8 and 29 in the code), so that small address spaces can be         *)
(* enumerated.  An address is a number; "& mask" clears its host bits.     *)
(***************************************************************************)
EXTENDS Naturals

CONSTANTS
    AddrBits,      \* bits of an address: 32 in the code
    MinPrefix,     \* shortest accepted prefix: 8 in the code
    MaxPrefix,     \* longest accepted prefix: 29 in the code
    PoolLast       \* host number of the last pooled address: 11 in the code

\* A network always keeps at least three host bits, as /29 does.
ASSUME AddressingAssumption ==
    /\ AddrBits \in Nat /\ MinPrefix \in Nat /\ MaxPrefix \in Nat
    /\ MinPrefix <= MaxPrefix /\ MaxPrefix + 3 <= AddrBits
    /\ PoolLast \in Nat /\ PoolLast >= 2

\* Facts of arithmetic the provers do not have.
ASSUME PowersOfTwo ==
    /\ \A n \in 0 .. AddrBits : 2 ^ n \in Nat \ {0}
    /\ \A m, n \in 0 .. AddrBits : m + n <= AddrBits => 2 ^ (m + n) = 2 ^ m * 2 ^ n
    /\ 2 ^ 3 = 8

Addresses == 0 .. (2 ^ AddrBits) - 1

\* The number of addresses under a prefix: ~prefix_to_netmask(p) + 1.
BlockSize(p) == IF p >= AddrBits THEN 1 ELSE 2 ^ (AddrBits - p)

\* ip & prefix_to_netmask(p)
Masked(ip, p) == ip - (ip % BlockSize(p))

ip_in_subnet(ip, subnet, p) == Masked(ip, p) = Masked(subnet, p)

\* Faulty variant: the networks are compared under one mask only.
subnets_overlap_OneMask(a, pa, b, pb) == Masked(a, pa) = Masked(b, pa)

subnets_overlap(a, pa, b, pb) ==
    \/ Masked(a, pa) = Masked(b, pa)
    \/ Masked(a, pb) = Masked(b, pb)

network_is_valid(subnet, p) ==
    /\ p \in MinPrefix .. MaxPrefix
    /\ subnet % BlockSize(p) = 0

\* The three addresses of a subnet that no client can have or be given.
NetworkOf(subnet, p) == Masked(subnet, p)
GatewayOf(subnet, p) == Masked(subnet, p) + 1
BroadcastOf(subnet, p) == Masked(subnet, p) + BlockSize(p) - 1

\* Faulty variant: only the network address is left out.
host_count_WithBroadcast(p) == BlockSize(p) - 1

\* The addresses router_configure_dhcps hands to the DHCP server.
host_count(p) == BlockSize(p) - 2
pool_end_host(p) == IF host_count(p) < PoolLast THEN host_count(p) ELSE PoolLast
DhcpPool(subnet, p) ==
    (NetworkOf(subnet, p) + 2) .. (NetworkOf(subnet, p) + pool_end_host(p))
=============================================================================
