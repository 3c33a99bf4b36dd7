SPECIFICATION LoopSpec
CONSTANTS
    MaxAttempts = 3
    a = a
    b = b
    Stations = {a, b}
    MaxConnection = 1
    QueueLen = 2
    StartMayFail = TRUE
    TimerMayFail = TRUE
    r1 = r1
    Rebooters = {r1}
INVARIANTS TypeOK OneRestartPending StationsCounted LinkAgrees
PROPERTIES ComesBack StartIsHandled
CHECK_DEADLOCK FALSE
