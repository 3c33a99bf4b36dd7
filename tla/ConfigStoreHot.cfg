SPECIFICATION HotSpec
CONSTANTS
    AddrBits = 5
    MinPrefix = 1
    MaxPrefix = 2
    PoolLast = 3
    NRules = 2
    Defaults <- MCDefaults
    MinTx = 8
    MaxTx = 80
    PostNets <- MCPostNets
    PostTx <- MCPostTx
    PostRules <- MCPostRules
    FirstNvs <- MCFirstNvs
    EraseKeeps <- MCEraseKeeps
    MaxSaves = 2
    Absent = Absent
    NoCfg = NoCfg
    NoCall = NoCall
INVARIANT ChangesNeedReboot
