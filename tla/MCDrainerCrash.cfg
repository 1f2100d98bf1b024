CONSTANTS
    Workers = {w1, w2}
    Servers = {"server"}
    ServerOf <- OneServer
    FaultKinds = {"settle", "requeue", "crash"}
    PoolSize = 2
    RefillAt = 1
    MaxAttempts = 2
    MaxRetries = 2
    MaxLimbo = 1
    MaxEntries = 1
    MaxFaults = 1
SPECIFICATION FairSpec
PROPERTY EntriesResolve
CHECK_DEADLOCK FALSE
