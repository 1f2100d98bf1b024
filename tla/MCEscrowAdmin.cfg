CONSTANTS
    alice = alice
    bob = bob
    NoAddr = NoAddr
    Addrs = {alice, bob}
    Bounties = {1}
    Indices = {1, 2}
    Amounts = {40}
    MsAmounts = {13}
    UnlockTimes = {0}
    Nominees = {bob}
    FeeConfigs <- MCFeeConfigs
    SplitChoices = {10000}
    StalenessChoices = {1}
    feed = feed
    Oracles = {feed}
    DefaultStaleness = 3
    MinStaleness = 1
    MaxStaleness = 4
    MaxPriceAge = 2
    DisputeTimeout = 2
    MaxEscrows = 1
    MaxTime = 3
SPECIFICATION FairSpec
PROPERTY DisputesSettle
CHECK_DEADLOCK FALSE
