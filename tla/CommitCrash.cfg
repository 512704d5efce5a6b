CONSTANTS
    a = a
    b = b
    c = c
    u = u
    v = v
    w = w
    Credits = credits
    app = app
    None = None
    BaselineReward = 100
    ProposerPercentage = 50
    U64 = 5800
    GenesisRecords <- MCGenesisRecords
    GenesisValidators <- MCGenesisValidators
    CrashPoints = {"commit", "counted"}
    ReconnectPoints = {}
    MaxCrashes = 1
    Txs <- MCTxsPaying
    Proposers = {v, w}
    MaxTxs = 1
    MaxHeight = 2
SPECIFICATION FairSpec
INVARIANT NoDoubleSpend
