CONSTANTS
    Workers = {w1, w2}
    Servers = {"server"}
    ServerOf <- OneServer
    FaultKinds = {"confirm", "mark", "refill"}
    PoolSize = 2
    RefillAt = 1
    MaxAttempts = 2
    MaxRetries = 1
    MaxLimbo = 1
    MaxEntries = 2
    MaxFaults = 1
SYMMETRY WorkerSymmetry
SPECIFICATION Spec
INVARIANTS
    TypeOK
    OneWorkerPerServer
    OrderedSubmission
    ConfirmedLanded
    CollisionNeedsPurge
CHECK_DEADLOCK FALSE
