CONSTANTS
    crawl = crawl
    resolve = resolve
    probe = probe
    Steps <- ChainSteps
    DependsOn <- ChainDeps
    Rank <- ChainRank
    Gated <- ForkGated
    Conditional <- ForkGated
    MaxTries <- ChainTries
    MaxStarts = 3
    Engines = {g1, g2}
    MaxParallel = 2
SYMMETRY MCSymmetry
SPECIFICATION Spec
INVARIANTS
    CallsAreBudgeted
    DependenciesFirst
PROPERTIES
    HistoryIsFinal
CHECK_DEADLOCK FALSE
