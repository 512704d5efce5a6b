CONSTANTS
    consensus = consensus
    mempool = mempool
    query = query
    Threads = {consensus, mempool, query}
    Allowed <- MCAllowed
    Commitments = {1, 2}
    Serials = {s1}
    Starts = {}
    Limits = {}
    None = None
    MaxQueuedCommits = 1
    MaxFaults = 1
    MaxCrashes = 1
    TornCommits = TRUE
SPECIFICATION FairSpec
INVARIANTS TypeOK NoDoubleSpend NoDoubleAdd CommitIsBarrier
PROPERTIES UnspentAnswersAreFresh CallsAreAnswered CommitsBecomeDurable
