CONSTANTS
    a = a
    b = b
    c = c
    u = u
    v = v
    w = w
    Credits = credits
    app = app
    None = None
    BaselineReward = 100
    ProposerPercentage = 50
    U64 = 5800
    GenesisRecords <- MCGenesisRecords
    GenesisValidators <- MCGenesisValidators
    CrashPoints = {}
    ReconnectPoints = {}
    MaxCrashes = 0
    Txs <- MCTxsStaking
    Proposers = {v, w}
    MaxTxs = 2
    MaxHeight = 1
SPECIFICATION FairSpec
INVARIANT UpdatesAreAccepted
