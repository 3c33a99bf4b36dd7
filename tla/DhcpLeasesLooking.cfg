SPECIFICATION Spec
CONSTANTS
    NSlots = 2
    LeaseTicks = 2
    TickMod = 3
    MaxTime = 3
    MaxWait = 1
    QueueLen = 1
    w1 = w1
    w2 = w2
    a1 = a1
    a2 = a2
    a3 = a3
    Macs = {w1, w2}
    Port <- MCPort
    Pool <- MCPool
    NoRow = NoRow
    NoCall = NoCall
PROPERTY LookingKeepsLeases
