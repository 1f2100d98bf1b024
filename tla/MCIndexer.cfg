CONSTANTS
    f1 = f1
    a1 = a1
    Entities = {f1, a1}
    KindOf <- TwoKinds
    Page = 1
    Depth = 2
    MaxLedger = 3
    MaxEvents = 2
    MaxInLedger = 2
    MaxForks = 1
    MaxFaults = 1
SPECIFICATION FairSpec
INVARIANTS
    IndexExact
    RowsFollow
PROPERTY CatchesUp
CHECK_DEADLOCK FALSE
