CONSTANTS
    crawl = crawl
    resolve = resolve
    probe = probe
    Steps <- ForkSteps
    DependsOn <- ForkDeps
    Rank <- ForkRank
    Gated <- ForkGated
    Conditional <- ForkGated
    MaxTries <- ForkTries
    MaxStarts = 3
    Engines = {g1}
    MaxParallel = 2
SPECIFICATION FairSpec
INVARIANTS
    RunIsSound
    LastCommitAccepted
PROPERTIES EnginesReturn
CHECK_DEADLOCK FALSE
