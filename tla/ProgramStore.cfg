CONSTANTS
    Programs = {credits, app}
    Credits = credits
    Versions = {v1, v2}
    main = main
    consensus = consensus
    mempool = mempool
    query = query
    None = None
    MaxFaults = 2
    MaxCrashes = 2
SPECIFICATION FairSpec
INVARIANTS TypeOK CreditsAreLoaded
PROPERTIES NeverReplaced StartupCompletes
