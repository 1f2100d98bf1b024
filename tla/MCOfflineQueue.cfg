CONSTANTS
    Ops = {o1, o2}
    Tasks = {t1, t2}
    MaxRetries = 2
    MaxTaps = 1
    MaxFaults = 1
SPECIFICATION FairSpec
INVARIANTS
    NothingLost
    AppliedOnce
PROPERTY QueueDrains
CHECK_DEADLOCK FALSE
