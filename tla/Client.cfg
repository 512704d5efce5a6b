CONSTANTS
    a = a
    b = b
    v = v
    w = w
    Credits = credits
    app = app
    r1 = r1
    r2 = r2
    r3 = r3
    None = None
    BaselineReward = 0
    ProposerPercentage = 50
    U64 = 5800
    GenesisRecords <- MCGenesisRecords
    GenesisValidators <- MCGenesisValidators
    Runs <- MCRuns
    Account <- MCAccount
    Seed <- MCSeed
    Requests <- MCRequests
SPECIFICATION Spec
INVARIANTS TypeOK FeeRecordIsSeparate FeeIsPayable FeeIsExact DroppedForARival FoundIsApplied
PROPERTIES ListingIsCurrent SentIsSettled
