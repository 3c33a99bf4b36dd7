------------------------- MODULE Addressing_proofs -------------------------
(***************************************************************************)
(* Proofs about the subnet arithmetic and the route options, for addresses *)
(* of any width, any range of prefixes and any pair of networks.           *)
(***************************************************************************)
EXTENDS MCAddressing, Integers, TLAPS

-----------------------------------------------------------------------------
(* Rounding down to a multiple *)

Floor(x, b) == x - (x % b)

\* Floor(x, b) is the one multiple of b that is at most b - 1 below x.
LEMMA FloorBounds ==
    ASSUME NEW x \in Nat, NEW b \in Nat \ {0}
    PROVE  \E q \in Nat : Floor(x, b) = b * q /\ b * q <= x /\ x < b * q + b
<1>1. PICK q \in Int : q = x \div b
  OBVIOUS
<1>2. x = b * q + (x % b) /\ x % b \in 0 .. b - 1
  BY <1>1
<1>3. PICK r \in 0 .. b - 1 : r = x % b
  BY <1>2
<1>4. x = b * q + r
  BY <1>2, <1>3
<1>5. q >= 0
  <2>1. SUFFICES ASSUME q <= -1 PROVE FALSE
    OBVIOUS
  <2>2. b * q <= b * (-1)
    BY <2>1
  <2> QED BY <1>4, <2>2
<1>6. Floor(x, b) = b * q
  <2>1. Floor(x, b) = x - r
    BY <1>3 DEF Floor
  <2> QED BY <1>4, <2>1
<1>7. q \in Nat /\ b * q <= x /\ x < b * q + b
  BY <1>4, <1>5
<1> QED BY <1>6, <1>7

LEMMA MultiplesApart ==
    ASSUME NEW b \in Nat \ {0}, NEW p \in Int, NEW q \in Int, b * p < b * q + b
    PROVE  p <= q
<1>1. SUFFICES ASSUME q + 1 <= p PROVE FALSE
  OBVIOUS
<1>2. b * (q + 1) <= b * p
  BY <1>1
<1> QED BY <1>2

LEMMA FloorIsUnique ==
    ASSUME NEW x \in Nat, NEW b \in Nat \ {0}, NEW q \in Nat,
           b * q <= x, x < b * q + b
    PROVE  Floor(x, b) = b * q
<1>1. PICK p \in Nat : Floor(x, b) = b * p /\ b * p <= x /\ x < b * p + b
  BY FloorBounds
<1>2. b * p \in Nat /\ b * q \in Nat
  OBVIOUS
<1>3. b * p < b * q + b /\ b * q < b * p + b
  BY <1>1, <1>2
<1>4. p = q
  BY <1>3, MultiplesApart
<1> QED BY <1>1, <1>4

LEMMA FloorType == ASSUME NEW x \in Nat, NEW b \in Nat \ {0} PROVE Floor(x, b) \in Nat
BY FloorBounds

\* A multiple stays as it is.
LEMMA FloorOfMultiple ==
    ASSUME NEW b \in Nat \ {0}, NEW q \in Nat
    PROVE  Floor(b * q, b) = b * q
<1>1. PICK x \in Nat : x = b * q
  OBVIOUS
<1> QED BY <1>1, FloorIsUnique

\* Rounding to a coarser grid may begin with a finer one.
LEMMA FloorOfFloor ==
    ASSUME NEW x \in Nat, NEW b \in Nat \ {0}, NEW k \in Nat \ {0}
    PROVE  Floor(Floor(x, b), b * k) = Floor(x, b * k)
<1>1. PICK u \in Nat : Floor(x, b) = b * u /\ b * u <= x /\ x < b * u + b
  BY FloorBounds
<1>2. PICK c \in Nat \ {0} : c = b * k
  OBVIOUS
<1>3. PICK v \in Nat : Floor(x, c) = c * v /\ c * v <= x /\ x < c * v + c
  BY FloorBounds
<1>4. PICK y \in Nat : y = b * u
  OBVIOUS
<1>5. c * v <= y
  <2>1. c * v = b * (k * v)
    BY <1>2
  <2>2. PICK w \in Nat : w = k * v
    OBVIOUS
  <2>3. b * w < b * u + b
    BY <1>1, <1>3, <2>1, <2>2
  <2>4. w <= u
    BY <2>3, MultiplesApart
  <2>5. b * w <= b * u
    BY <2>4
  <2> QED BY <1>4, <2>1, <2>2, <2>5
<1>6. y < c * v + c
  BY <1>1, <1>3, <1>4
<1>7. Floor(y, c) = c * v
  BY <1>5, <1>6, FloorIsUnique
<1> QED BY <1>1, <1>2, <1>3, <1>4, <1>7
-----------------------------------------------------------------------------
(* Networks as sets of addresses *)

LEMMA MaskedIsFloor == ASSUME NEW ip, NEW p PROVE Masked(ip, p) = Floor(ip, BlockSize(p))
BY DEF Masked, Floor

LEMMA BlockPositive == ASSUME NEW p \in Nat PROVE BlockSize(p) \in Nat \ {0}
<1>1. CASE p >= AddrBits
  BY <1>1 DEF BlockSize
<1>2. CASE ~ (p >= AddrBits)
  <2>1. AddrBits - p \in 0 .. AddrBits
    BY <1>2, AddressingAssumption
  <2>2. 2 ^ (AddrBits - p) \in Nat \ {0}
    BY <2>1, PowersOfTwo
  <2> QED BY <1>2, <2>2 DEF BlockSize
<1> QED BY <1>1, <1>2

\* A longer prefix cuts the block into whole blocks.
LEMMA BlocksNest ==
    ASSUME NEW p \in 0 .. AddrBits, NEW q \in Nat, p <= q
    PROVE  \E k \in Nat \ {0} : BlockSize(p) = BlockSize(q) * k
<1>0. AddrBits \in Nat
  BY AddressingAssumption
<1>1. PICK n \in Nat \ {0} : n = BlockSize(p)
  BY BlockPositive
<1>2. CASE q >= AddrBits
  <2>1. BlockSize(q) = 1
    BY <1>2 DEF BlockSize
  <2>2. n = 1 * n
    OBVIOUS
  <2> QED BY <1>1, <2>1, <2>2
<1>3. CASE q < AddrBits
  <2>1. AddrBits - q \in 0 .. AddrBits /\ q - p \in 0 .. AddrBits
        /\ AddrBits - p = (AddrBits - q) + (q - p) /\ AddrBits - p <= AddrBits
    BY <1>0, <1>3
  <2>2. 2 ^ ((AddrBits - q) + (q - p)) = 2 ^ (AddrBits - q) * 2 ^ (q - p)
    BY <2>1, PowersOfTwo
  <2>3. 2 ^ (q - p) \in Nat \ {0}
    BY <2>1, PowersOfTwo
  <2>4. BlockSize(q) = 2 ^ (AddrBits - q) /\ BlockSize(p) = 2 ^ (AddrBits - p)
    BY <1>0, <1>3 DEF BlockSize
  <2> QED BY <2>1, <2>2, <2>3, <2>4
<1> QED BY <1>0, <1>2, <1>3

\* The address space is a whole number of blocks.
LEMMA BlocksFill ==
    ASSUME NEW p \in 0 .. AddrBits
    PROVE  \E k \in Nat \ {0} : 2 ^ AddrBits = BlockSize(p) * k
<1>1. AddrBits \in Nat \ {0}
  BY AddressingAssumption
<1>2. 0 \in 0 .. AddrBits /\ 0 <= p
  BY <1>1
<1>3. BlockSize(0) = 2 ^ AddrBits
  BY <1>1 DEF BlockSize
<1> QED BY <1>2, <1>3, BlocksNest

\* Every accepted prefix leaves room for at least eight addresses.
LEMMA BlockHasRoom ==
    ASSUME NEW p \in MinPrefix .. MaxPrefix
    PROVE  BlockSize(p) >= 8
<1>1. /\ p \in Nat /\ AddrBits \in Nat /\ p < AddrBits
      /\ 3 \in 0 .. AddrBits /\ AddrBits - p - 3 \in 0 .. AddrBits
      /\ AddrBits - p = 3 + (AddrBits - p - 3) /\ AddrBits - p <= AddrBits
  BY AddressingAssumption
<1>2. 2 ^ (3 + (AddrBits - p - 3)) = 2 ^ 3 * 2 ^ (AddrBits - p - 3)
  BY <1>1, PowersOfTwo
<1>3. PICK k \in Nat \ {0} : k = 2 ^ (AddrBits - p - 3)
  BY <1>1, PowersOfTwo
<1>4. BlockSize(p) = 8 * k
  BY <1>1, <1>2, <1>3, PowersOfTwo DEF BlockSize
<1> QED BY <1>3, <1>4

\* The addresses of a network are the block its network address begins.
LEMMA BlockOfNetwork ==
    ASSUME NEW ip \in Addresses, NEW p \in MinPrefix .. MaxPrefix
    PROVE  \E q \in Nat : /\ Masked(ip, p) = BlockSize(p) * q
                          /\ Masked(ip, p) \in Nat
                          /\ Masked(ip, p) + BlockSize(p) <= 2 ^ AddrBits
<1>1. p \in 0 .. AddrBits /\ p \in Nat /\ AddrBits \in Nat
  BY AddressingAssumption
<1>2. PICK b \in Nat \ {0} : b = BlockSize(p)
  BY <1>1, BlockPositive
<1>3. PICK k \in Nat \ {0} : 2 ^ AddrBits = b * k
  BY <1>1, <1>2, BlocksFill
<1>4. ip \in Nat /\ ip < b * k
  BY <1>3 DEF Addresses
<1>5. PICK q \in Nat : Floor(ip, b) = b * q /\ b * q <= ip /\ ip < b * q + b
  BY <1>4, FloorBounds
<1>6. ~ (k <= q)
  <2>1. SUFFICES ASSUME k <= q PROVE FALSE
    OBVIOUS
  <2>2. b * k <= b * q
    BY <2>1
  <2> QED BY <1>4, <1>5, <2>2
<1>7. b * (q + 1) <= b * k
  BY <1>6
<1>8. b * q + b <= b * k
  BY <1>7
<1> QED BY <1>2, <1>3, <1>5, <1>8, MaskedIsFloor

LEMMA InBlockIsMember ==
    ASSUME NEW ip \in Addresses, NEW p \in MinPrefix .. MaxPrefix,
           NEW n \in 0 .. BlockSize(p) - 1
    PROVE  Masked(ip, p) + n \in Addresses /\ ip_in_subnet(Masked(ip, p) + n, ip, p)
<1>1. p \in Nat
  BY AddressingAssumption
<1>2. PICK b \in Nat \ {0} : b = BlockSize(p)
  BY <1>1, BlockPositive
<1>3. PICK q \in Nat : /\ Masked(ip, p) = b * q
                       /\ Masked(ip, p) \in Nat
                       /\ Masked(ip, p) + b <= 2 ^ AddrBits
  BY <1>2, BlockOfNetwork
<1>4. PICK x \in Nat : x = b * q + n
  BY <1>2, <1>3
<1>5. Floor(x, b) = b * q
  BY <1>2, <1>4, FloorIsUnique
<1>6. 2 ^ AddrBits \in Nat
  BY AddressingAssumption, PowersOfTwo
<1>7. x \in Addresses
  BY <1>2, <1>3, <1>4, <1>6 DEF Addresses
<1> QED BY <1>2, <1>3, <1>4, <1>5, <1>7, MaskedIsFloor DEF ip_in_subnet
-----------------------------------------------------------------------------
(* Every pair of networks *)

Asked == usb \in Networks /\ wifi \in Networks /\ network_is_valid(wifi[1], wifi[2])

LEMMA AskedInvariant == Spec => []Asked
<1>1. ASSUME Init PROVE Asked
  <2>1. MinPrefix \in MinPrefix .. MaxPrefix /\ MinPrefix \in Nat
    BY AddressingAssumption
  <2>2. 0 \in Addresses
    BY AddressingAssumption, PowersOfTwo DEF Addresses
  <2>3. PICK b \in Nat \ {0} : b = BlockSize(MinPrefix)
    BY <2>1, BlockPositive
  <2>4. 0 % b = 0
    OBVIOUS
  <2> QED BY <1>1, <2>1, <2>2, <2>3, <2>4 DEF Init, Asked, Networks, network_is_valid
<1>2. Asked /\ [Next]_<<usb, wifi>> => Asked'
  BY DEF Asked, Next, AskUsb, AskWifi
<1> QED BY <1>1, <1>2, PTL DEF Spec

\* Addresses that share a block share every larger one.
LEMMA SharedBlock ==
    ASSUME NEW p \in MinPrefix .. MaxPrefix, NEW q \in MinPrefix .. MaxPrefix, p <= q,
           NEW x \in Addresses, NEW y \in Addresses, Masked(x, q) = Masked(y, q)
    PROVE  Masked(x, p) = Masked(y, p)
<1>1. p \in 0 .. AddrBits /\ q \in Nat /\ x \in Nat /\ y \in Nat
  BY AddressingAssumption DEF Addresses
<1>2. PICK b \in Nat \ {0} : b = BlockSize(q)
  BY <1>1, BlockPositive
<1>3. PICK k \in Nat \ {0} : BlockSize(p) = b * k
  BY <1>1, <1>2, BlocksNest
<1>4. Floor(Floor(x, b), b * k) = Floor(x, b * k) /\ Floor(Floor(y, b), b * k) = Floor(y, b * k)
  BY <1>1, FloorOfFloor
<1> QED BY <1>2, <1>3, <1>4, MaskedIsFloor

\* The overlap test says whether some address belongs to both networks.
LEMMA OverlapMeansShared ==
    ASSUME NEW a \in Addresses, NEW pa \in MinPrefix .. MaxPrefix,
           NEW b \in Addresses, NEW pb \in MinPrefix .. MaxPrefix
    PROVE  subnets_overlap(a, pa, b, pb)
             <=> \E ip \in Addresses : ip_in_subnet(ip, a, pa) /\ ip_in_subnet(ip, b, pb)
<1>0. MinPrefix \in Nat /\ MaxPrefix \in Nat
  BY AddressingAssumption
<1>1. ASSUME subnets_overlap(a, pa, b, pb)
      PROVE  \E ip \in Addresses : ip_in_subnet(ip, a, pa) /\ ip_in_subnet(ip, b, pb)
  <2>1. CASE Masked(a, pa) = Masked(b, pa)
    BY <2>1 DEF ip_in_subnet
  <2>2. CASE Masked(a, pb) = Masked(b, pb)
    BY <2>2 DEF ip_in_subnet
  <2> QED BY <1>1, <2>1, <2>2 DEF subnets_overlap
<1>2. ASSUME NEW ip \in Addresses, ip_in_subnet(ip, a, pa), ip_in_subnet(ip, b, pb)
      PROVE  subnets_overlap(a, pa, b, pb)
  <2>1. Masked(ip, pa) = Masked(a, pa) /\ Masked(ip, pb) = Masked(b, pb)
    BY <1>2 DEF ip_in_subnet
  <2>2. CASE pa <= pb
    <3>1. Masked(ip, pa) = Masked(b, pa)
      BY <2>1, <2>2, SharedBlock
    <3> QED BY <2>1, <3>1 DEF subnets_overlap
  <2>3. CASE pb <= pa
    <3>1. Masked(ip, pb) = Masked(a, pb)
      BY <2>1, <2>3, SharedBlock
    <3> QED BY <2>1, <3>1 DEF subnets_overlap
  <2> QED BY <1>0, <2>2, <2>3
<1> QED BY <1>1, <1>2

\* The test on which a configuration is refused, and routes are left out, is exact
\* for any two accepted networks, whichever is the larger.
THEOREM OverlapAlwaysIntersection == Spec => []OverlapIsIntersection
<1>1. ASSUME Asked PROVE OverlapIsIntersection
  <2>1. /\ usb[1] \in Addresses /\ usb[2] \in MinPrefix .. MaxPrefix
        /\ wifi[1] \in Addresses /\ wifi[2] \in MinPrefix .. MaxPrefix
    BY <1>1 DEF Asked, Networks
  <2>2. subnets_overlap(usb[1], usb[2], wifi[1], wifi[2])
          <=> \E ip \in Addresses : /\ ip_in_subnet(ip, usb[1], usb[2])
                                    /\ ip_in_subnet(ip, wifi[1], wifi[2])
    BY <2>1, OverlapMeansShared
  <2> QED BY <2>2 DEF OverlapIsIntersection, Members
<1> QED BY <1>1, AskedInvariant, PTL

\* router_configure_dhcps finds a pool on every accepted network, without the three
\* addresses no client may have, for any width of addresses.
THEOREM PoolAlwaysUsable == Spec => []PoolIsUsable
<1>1. ASSUME Asked PROVE PoolIsUsable
  <2>1. PICK ip \in Addresses, p \in MinPrefix .. MaxPrefix : usb[1] = ip /\ usb[2] = p
    BY <1>1 DEF Asked, Networks
  <2>2. p \in Nat /\ PoolLast \in Nat /\ PoolLast >= 2
    BY AddressingAssumption
  <2>3. PICK b \in Nat \ {0} : b = BlockSize(p) /\ b >= 8
    BY <2>2, BlockPositive, BlockHasRoom
  <2>4. PICK q \in Nat : Masked(ip, p) = b * q /\ Masked(ip, p) \in Nat
    BY <2>3, BlockOfNetwork
  <2>5. network_is_valid(Masked(ip, p), p)
    <3>1. PICK s \in Nat : s = b * q
      BY <2>4
    <3>2. Floor(s, b) = s
      BY <3>1, FloorOfMultiple
    <3>3. s % b \in 0 .. b - 1
      BY <3>1
    <3>4. s % b = 0
      BY <3>1, <3>2, <3>3 DEF Floor
    <3> QED BY <2>3, <2>4, <3>1, <3>4 DEF network_is_valid
  <2>6. PICK e \in 2 .. b - 2 : e = pool_end_host(p)
    BY <2>2, <2>3 DEF pool_end_host, host_count
  <2>7. PICK s \in Nat : s = Masked(ip, p)
    BY <2>4
  <2>8. DhcpPool(ip, p) = (s + 2) .. (s + e)
    BY <2>6, <2>7 DEF DhcpPool, NetworkOf
  <2>9. s + 2 \in DhcpPool(ip, p)
    BY <2>8
  <2>10. ASSUME NEW x \in DhcpPool(ip, p)
         PROVE  /\ x \in Addresses /\ ip_in_subnet(x, ip, p)
                /\ x \notin {NetworkOf(ip, p), GatewayOf(ip, p), BroadcastOf(ip, p)}
    <3>1. PICK n \in 2 .. b - 2 : x = s + n
      <4>1. x \in (s + 2) .. (s + e)
        BY <2>8, <2>10
      <4> QED BY <4>1
    <3>2. n \in 0 .. BlockSize(p) - 1
      BY <2>3
    <3>3. x \in Addresses /\ ip_in_subnet(x, ip, p)
      BY <2>7, <3>1, <3>2, InBlockIsMember
    <3>4. NetworkOf(ip, p) = s /\ GatewayOf(ip, p) = s + 1 /\ BroadcastOf(ip, p) = s + b - 1
      BY <2>3, <2>7 DEF NetworkOf, GatewayOf, BroadcastOf
    <3>5. x # s /\ x # s + 1 /\ x # s + b - 1
      BY <3>1
    <3> QED BY <3>3, <3>4, <3>5
  <2> HIDE DEF DhcpPool
  <2> QED BY <2>1, <2>5, <2>9, <2>10 DEF PoolIsUsable, Members
<1> QED BY <1>1, AskedInvariant, PTL
-----------------------------------------------------------------------------
(* The routes of a reply *)

\* The octets that are sent hold the whole prefix.
LEMMA OctetsHoldPrefix ==
    ASSUME NEW p \in Nat
    PROVE  subnet_octets(p) * OctetBits \in Nat /\ subnet_octets(p) * OctetBits >= p
<1>1. PICK w \in Nat \ {0} : w = OctetBits
  BY RouteOptionsAssumption
<1>2. PICK x \in Nat : x = p + w - 1
  BY <1>1
<1>3. PICK q \in Nat : Floor(x, w) = w * q /\ w * q <= x /\ x < w * q + w
  BY <1>2, FloorBounds
<1>4. x \div w = q
  <2>1. PICK d \in Int : d = x \div w
    OBVIOUS
  <2>2. x = w * d + (x % w) /\ x % w \in 0 .. w - 1
    BY <2>1
  <2>3. PICK r \in 0 .. w - 1 : r = x % w
    BY <2>2
  <2>4. w * d + r = x
    BY <2>2, <2>3
  <2>5. w * d < w * q + w /\ w * q < w * d + w
    BY <1>3, <2>4
  <2>6. d = q
    BY <2>5, MultiplesApart
  <2> QED BY <2>1, <2>6
<1>5. subnet_octets(p) = q
  BY <1>1, <1>2, <1>4 DEF subnet_octets
<1>6. q * w = w * q /\ w * q \in Nat
  OBVIOUS
<1>7. w * q >= p
  BY <1>2, <1>3
<1> QED BY <1>1, <1>5, <1>6, <1>7

\* Sending only those octets drops no bit of a network whose host bits are cleared.
LEMMA OctetsHoldNetwork ==
    ASSUME NEW subnet \in Nat, NEW p \in MinPrefix .. MaxPrefix, network_is_valid(subnet, p)
    PROVE  Masked(subnet, subnet_octets(p) * OctetBits) = subnet
<1>1. p \in Nat /\ p \in 0 .. AddrBits
  BY AddressingAssumption
<1>2. PICK m \in Nat : m = subnet_octets(p) * OctetBits /\ m >= p
  BY <1>1, OctetsHoldPrefix
<1>3. PICK b \in Nat \ {0} : b = BlockSize(m)
  BY BlockPositive
<1>4. PICK k \in Nat \ {0} : BlockSize(p) = b * k
  BY <1>1, <1>2, <1>3, BlocksNest
<1>5. PICK c \in Nat \ {0} : c = b * k
  OBVIOUS
<1>6. subnet % c = 0
  BY <1>4, <1>5 DEF network_is_valid
<1>7. PICK v \in Nat : Floor(subnet, c) = c * v
  BY FloorBounds
<1>8. subnet = b * (k * v)
  <2>1. subnet = c * v
    BY <1>6, <1>7 DEF Floor
  <2> QED BY <1>5, <2>1
<1>9. PICK w \in Nat : w = k * v
  OBVIOUS
<1>10. Floor(subnet, b) = subnet
  BY <1>8, <1>9, FloorOfMultiple
<1> QED BY <1>2, <1>3, <1>10, MaskedIsFloor

\* The gateway is an address of the network, and the pool begins above it.
LEMMA GatewayIsNoClient ==
    ASSUME NEW ip \in Addresses, NEW p \in MinPrefix .. MaxPrefix
    PROVE  /\ GatewayOf(ip, p) \in Addresses /\ ip_in_subnet(GatewayOf(ip, p), ip, p)
           /\ GatewayOf(ip, p) \notin DhcpPool(ip, p)
<1>1. p \in Nat
  BY AddressingAssumption
<1>2. BlockSize(p) \in Nat /\ BlockSize(p) >= 8
  BY <1>1, BlockPositive, BlockHasRoom
<1>3. 1 \in 0 .. BlockSize(p) - 1
  BY <1>2
<1>4. Masked(ip, p) + 1 \in Addresses /\ ip_in_subnet(Masked(ip, p) + 1, ip, p)
  BY <1>3, InBlockIsMember
<1>5. PICK s \in Nat : s = Masked(ip, p)
  BY BlockOfNetwork
<1>6. s + 1 \notin (s + 2) .. (s + pool_end_host(p))
  OBVIOUS
<1> QED BY <1>4, <1>5, <1>6 DEF GatewayOf, DhcpPool, NetworkOf

\* What each of the two kinds of option tells a client.
LEMMA OptionLeadsThere ==
    ASSUME NEW subnet \in Nat, NEW p \in MinPrefix .. MaxPrefix, network_is_valid(subnet, p),
           NEW router,
           NEW opt \in {append_classless_route_option(121, subnet, p, router),
                        append_classless_route_option(249, subnet, p, router),
                        append_static_route_option(subnet, router)},
           opt.option = 33 => p = classful_prefix_len(subnet)
    PROVE  /\ WellFormed(opt) /\ opt.router = router
           /\ Destination(opt) = {ip \in Addresses : ip_in_subnet(ip, subnet, p)}
<1>1. Masked(subnet, subnet_octets(p) * OctetBits) = subnet
  BY OctetsHoldNetwork
<1>2. ASSUME NEW n \in {121, 249}, opt = append_classless_route_option(n, subnet, p, router)
      PROVE  /\ opt.option # 33 /\ opt.length = 1 + subnet_octets(p) + AddrOctets
             /\ opt.prefix_len = p /\ opt.subnet = subnet /\ opt.router = router
  BY <1>1, <1>2 DEF append_classless_route_option
<1>3. ASSUME opt = append_static_route_option(subnet, router)
      PROVE  /\ opt.option = 33 /\ opt.length = 2 * AddrOctets
             /\ opt.subnet = subnet /\ opt.router = router
  BY <1>3 DEF append_static_route_option
<1>4. opt.option = 33 \/ opt.option # 33
  OBVIOUS
<1>5. ASSUME NEW n \in {121, 249}, opt = append_classless_route_option(n, subnet, p, router)
      PROVE  WellFormed(opt) /\ Destination(opt) = {ip \in Addresses : ip_in_subnet(ip, subnet, p)}
  BY <1>2, <1>5 DEF WellFormed, Destination, subnet_octets
<1>6. ASSUME opt = append_static_route_option(subnet, router)
      PROVE  WellFormed(opt) /\ Destination(opt) = {ip \in Addresses : ip_in_subnet(ip, subnet, p)}
  BY <1>3, <1>6 DEF WellFormed, Destination
<1> QED BY <1>2, <1>3, <1>5, <1>6

\* Every route of a reply leads to the whole network of the other side and to
\* nothing else, through the gateway on the client's own link, for any width of
\* addresses and octets; so also where the prefix ends within an octet.
THEOREM RoutesAlwaysLeadToTheOtherSide == Spec => []RoutesLeadToTheOtherSide
<1>1. ASSUME Asked, NEW i \in 1 .. Len(Reply)
      PROVE  /\ WellFormed(Reply[i])
             /\ Destination(Reply[i]) = Members(wifi)
             /\ Reply[i].router \in Members(usb) \ DhcpPool(usb[1], usb[2])
  <2>1. /\ usb[1] \in Addresses /\ usb[2] \in MinPrefix .. MaxPrefix
        /\ wifi[1] \in Nat /\ wifi[2] \in MinPrefix .. MaxPrefix
        /\ network_is_valid(wifi[1], wifi[2])
    BY <1>1 DEF Asked, Networks, Addresses
  <2> DEFINE router == GatewayOf(usb[1], usb[2])
             classless(n) == append_classless_route_option(n, wifi[1], wifi[2], router)
             static == append_static_route_option(wifi[1], router)
  <2>2. Reply = append_route_options(wifi[1], wifi[2], router)
    BY <1>1 DEF Reply, router_append_dhcps_routes
  <2>3. /\ Reply[i] \in {classless(121), classless(249), static}
        /\ Reply[i].option = 33 => wifi[2] = classful_prefix_len(wifi[1])
    <3>1. CASE wifi[2] = classful_prefix_len(wifi[1])
      <4>1. Reply = <<classless(121), classless(249)>> \o <<static>>
        BY <2>2, <3>1 DEF append_route_options
      <4> HIDE DEF classless, static
      <4>2. Len(Reply) = 3
        BY <4>1
      <4>3. Reply[1] = classless(121) /\ Reply[2] = classless(249) /\ Reply[3] = static
        BY <4>1
      <4>4. i = 1 \/ i = 2 \/ i = 3
        BY <1>1, <4>2
      <4> QED BY <3>1, <4>3, <4>4
    <3>2. CASE wifi[2] # classful_prefix_len(wifi[1])
      <4>1. Reply = <<classless(121), classless(249)>> \o <<>>
        BY <2>2, <3>2 DEF append_route_options
      <4>2. classless(121).option # 33 /\ classless(249).option # 33
        BY DEF append_classless_route_option
      <4> HIDE DEF classless, static
      <4>3. Reply = <<classless(121), classless(249)>>
        BY <4>1
      <4>4. i \in 1 .. 2
        BY <1>1, <4>3
      <4> QED BY <4>2, <4>3, <4>4
    <3> QED BY <3>1, <3>2
  <2>4. /\ WellFormed(Reply[i]) /\ Reply[i].router = router
        /\ Destination(Reply[i]) = {ip \in Addresses : ip_in_subnet(ip, wifi[1], wifi[2])}
    BY <2>1, <2>3, OptionLeadsThere
  <2>5. /\ router \in Addresses /\ ip_in_subnet(router, usb[1], usb[2])
        /\ router \notin DhcpPool(usb[1], usb[2])
    BY <2>1, GatewayIsNoClient
  <2> HIDE DEF router
  <2> QED BY <2>4, <2>5 DEF Members
<1>2. Asked => RoutesLeadToTheOtherSide
  BY <1>1 DEF RoutesLeadToTheOtherSide
<1> QED BY <1>2, AskedInvariant, PTL
=============================================================================
