SPECIFICATION Spec
CONSTANTS
    AddrBits = 5
    MinPrefix = 1
    MaxPrefix = 2
    PoolLast = 3
    NRules = 1
    SessionsPerRule = 2
    Cfg <- MCOneRule
    Sessions = {s1, s2, s3}
    NFds = 7
    HttpdSocks = {}
    c1 = c1
    c2 = c2
    c3 = c3
    Conns = {c1, c2, c3}
    PeerAddr <- MCPeerAddr
    Dials <- MCAllDialOne
    NoConn = NoConn
SYMMETRY Symmetric
INVARIANTS TypeOK SlotAccounting FdOwnership HeldWhileUsed
PROPERTY ImplementsService
CHECK_DEADLOCK FALSE
