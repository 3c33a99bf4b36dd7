SPECIFICATION FairSpec
CONSTANTS
    AddrBits = 5
    MinPrefix = 1
    MaxPrefix = 2
    PoolLast = 3
    NRules = 1
    SessionsPerRule = 1
    Cfg <- MCOneRule
    Sessions = {s1, s2}
    NFds = 4
    HttpdSocks = {h1}
    c1 = c1
    c2 = c2
    c3 = c3
    Conns = {c1, c2, c3}
    PeerAddr <- MCPeerAddr
    Dials <- MCAllDialOne
    NoConn = NoConn
PROPERTIES HangupIsNoticed QueueIsDrained
