CONSTANTS
    a = a
    b = b
    c = c
    u = u
    v = v
    w = w
    Credits = credits
    app = app
    None = None
    BaselineReward = 100
    ProposerPercentage = 50
    U64 = 5800
    GenesisRecords <- MCGenesisRecords
    GenesisValidators <- MCTwoValidators
    CrashPoints = {}
    ReconnectPoints = {}
    MaxCrashes = 0
    Txs <- MCTxs
    Proposers = {u, w}
    MaxTxs = 2
    MaxHeight = 3
SPECIFICATION FairSpec
INVARIANTS TypeOK StateFollowsLedger VerdictsFollowLedger NoDoubleSpend CreditsConserved PowerIsStaked PowersMatchTendermint NeverPanics
PROPERTIES RejectedLeavesNoTrace
