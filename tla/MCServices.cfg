CONSTANTS
    DisputeIds = {d1, d2}
    Requests = {r1, r2}
    MaxRequests = 3
    MaxFailures = 1
    CardEscrows = {x1, x2}
    Posts = {p1, p2}
    Keys = {k1}
    MaxLost = 2
    MaxEvents = 2
    Peers = {v1, v2}
    MaxSockets = 3
    RoomSize = 2
    MaxAttempts = 2
    MaxBreakdowns = 1
    Endpoints = {u1, u2, u3}
    Primaries = 2
    CircuitOpen = 2
    RpcCalls = {f1, f2}
    MaxOutages = 2
    MaxSwaps = 1
SPECIFICATION Spec
INVARIANTS
    TypeOK
    ResolutionAgrees
    RecordAgreesWithStripe
    OnePaymentPerKey
    ViewsAgree
    ZombiesCollected
    OneFailureIsHidden
CHECK_DEADLOCK FALSE
