CONSTANTS
    a = a
    b = b
    c = c
    u = u
    v = v
    w = w
    Credits = credits
    app = app
    None = None
    BaselineReward = 100
    ProposerPercentage = 50
    U64 = 5800
    GenesisRecords <- MCGenesisRecords
    GenesisValidators <- MCGenesisValidators
    CrashPoints = {"ready", "block", "ended", "commit", "counted", "rewarded"}
    ReconnectPoints = {"ready", "block", "ended"}
    MaxCrashes = 2
    Txs <- MCTxsReplayed
    Proposers = {v, w}
    MaxTxs = 2
    MaxHeight = 3
SPECIFICATION FairSpec
INVARIANTS SpendsFollowLedger VerdictsFollowLedger PowerIsStakedAfterReplay NoDoubleSpendAfterReplay RewardedAreKnown PowersMatchTendermint NeverPanics TornIsNoticed HeightsAreClose
PROPERTIES DecidedIsApplied
