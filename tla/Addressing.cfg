SPECIFICATION Spec
CONSTANTS
    AddrBits = 8
    OctetBits = 2
    MinPrefix = 2
    MaxPrefix = 5
    PoolLast = 11
INVARIANTS OverlapIsIntersection PoolIsUsable RoutesLeadToTheOtherSide
