CONSTANTS
    alice = alice
    bob = bob
    NoAddr = NoAddr
    Addrs = {alice, bob}
    Bounties = {1}
    Indices = {1, 2}
    Amounts = {40}
    MsAmounts = {13, 26}
    UnlockTimes = {1}
    Nominees = {}
    FeeConfigs = {}
    SplitChoices = {}
    StalenessChoices = {}
    Oracles = {}
    DefaultStaleness = 3
    MinStaleness = 1
    MaxStaleness = 4
    MaxPriceAge = 2
    DisputeTimeout = 1
    MaxEscrows = 2
    MaxTime = 1
SPECIFICATION Spec
INVARIANT LockedBalancesCovered
CHECK_DEADLOCK FALSE
