CONSTANTS
    w1 = w1
    w2 = w2
    t1 = t1
    t2 = t2
    f1 = f1
    Items <- MCItems
    Callers <- MCCallers
    Flushers <- MCFlushers
    WQ_POOL_SIZE = 2
SPECIFICATION FairSpec
INVARIANTS
    NodesAccounted
    LifetimeKept
    FlushLeavesAtMostOne
PROPERTIES
    AlwaysDrains
    FlushReturnsEventually
CHECK_DEADLOCK FALSE
