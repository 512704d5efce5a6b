CONSTANTS
    consensus = consensus
    mempool = mempool
    query = query
    Threads = {consensus, mempool, query}
    Allowed <- MCAllowed
    Commitments = {1, 2}
    Serials = {s1}
    Starts = {2}
    Limits = {1}
    None = None
    MaxQueuedCommits = 1
    MaxFaults = 0
    MaxCrashes = 1
    TornCommits = FALSE
SPECIFICATION FairSpec
PROPERTIES ImplementsAtomicStore EffectsComeTrue
