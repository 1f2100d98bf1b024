CONSTANTS
    Accounts = {a1, a2}
    Guardians = {"guardian"}
    Tokens = 1
    Amounts = {1}
    Params <- RaisesMin
    Fees = {1000}
    Limits <- NewLimits
    MaxFee = 1000
    Quorums = {50}
    Totals = {4}
    VotingPeriods = {1, 2}
    Delays = {0}
    DefaultDelay = 1
    None = None
    MaxProposals = 2
    MaxLedger = 4
SPECIFICATION MCSpec
INVARIANTS
    PastVotesExact
    NoDoublePower
    OutcomeMatchesTally
PROPERTY DecidedIsFinal
CHECK_DEADLOCK FALSE
