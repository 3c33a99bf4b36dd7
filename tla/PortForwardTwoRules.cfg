SPECIFICATION Spec
CONSTANTS
    AddrBits = 5
    MinPrefix = 1
    MaxPrefix = 2
    PoolLast = 3
    NRules = 3
    SessionsPerRule = 1
    Cfg <- MCThreeRules
    Sessions = {s1, s2}
    NFds = 5
    HttpdSocks = {}
    c1 = c1
    c2 = c2
    c3 = c3
    Conns = {c1, c2, c3}
    PeerAddr <- MCAllWifi
    Dials <- MCDialBoth
    NoConn = NoConn
SYMMETRY Symmetric
INVARIANTS RelaysItsOwnClient RuleSocketBudget
PROPERTY ImplementsService
CHECK_DEADLOCK FALSE
