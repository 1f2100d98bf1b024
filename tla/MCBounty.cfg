CONSTANTS
    alice = alice
    bob = bob
    NoAddr = NoAddr
    Addrs = {alice, bob}
    Bounties = {1, 2}
    Indices = {1, 2}
    Amounts = {40}
    MsAmounts = {13, 26}
    UnlockTimes = {0, 1}
    Nominees = {}
    FeeConfigs = {}
    SplitChoices = {}
    StalenessChoices = {}
    Oracles = {}
    DefaultStaleness = 3
    MinStaleness = 1
    MaxStaleness = 4
    MaxPriceAge = 2
    DisputeTimeout = 1
    MaxEscrows = 2
    MaxTime = 1
    Budgets = {40}
    Deadlines = {0}
    Thresholds = {40}
    SignerLists <- MCSigners
    Approvals <- MCApprovals
    MaxApplications = 2
SYMMETRY Symmetry
SPECIFICATION MCSpec
INVARIANTS
    TypeOK
    PayoutMatchesStatus
    MilestonesAgree
    CoveredUnlessOverpaid
    BountyTypeOK
    AwardEarned
    ExpiryRefunds
PROPERTY ImplementsLifecycle
CHECK_DEADLOCK FALSE
