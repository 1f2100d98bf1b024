CONSTANTS
    Workers = {w1, w2}
    Servers = {"server"}
    ServerOf <- OneServer
    FaultKinds = {}
    PoolSize = 2
    RefillAt = 1
    MaxAttempts = 2
    MaxRetries = 1
    MaxLimbo = 1
    MaxEntries = 2
    MaxFaults = 0
SPECIFICATION Spec
INVARIANT NoCollision
CHECK_DEADLOCK FALSE
