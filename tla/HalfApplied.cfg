CONSTANTS
    a = a
    b = b
    c = c
    u = u
    v = v
    w = w
    Credits = credits
    app = app
    None = None
    BaselineReward = 100
    ProposerPercentage = 50
    U64 = 5800
    GenesisRecords <- MCGenesisRecords
    GenesisValidators <- MCGenesisValidators
    CrashPoints = {}
    ReconnectPoints = {}
    MaxCrashes = 0
    Txs <- MCTxsMint
    Proposers = {v, w}
    MaxTxs = 1
    MaxHeight = 2
SPECIFICATION FairSpec
PROPERTY RejectedLeavesNoTrace
