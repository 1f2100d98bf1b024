CONSTANTS
    Escrows = {e1}
    Calls = {c1, c2, c3}
    Pool = 3
    Attempts = 2
    MaxErrors = 1
    Callers = {b1, b2, b3}
    Threshold = 2
    MaxRpcErrors = 5
    Sockets = {s1, s2}
    QueueSize = 1
    MaxReconnects = 2
    MaxMessages = 2
    MaxSwitches = 2
    MaxBreaks = 1
SPECIFICATION Spec
INVARIANTS
    TypeOK
    PaidOnce
    ProbeAlone
    OneSocket
    InOrder
PROPERTIES
    CallsEnd
    Recovers
    ComesBack
CHECK_DEADLOCK FALSE
