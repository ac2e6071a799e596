CONSTANTS
    c1 = c1
    c2 = c2
    c3 = c3
    Callers <- MCCallers
    MaxCalls = 5
SPECIFICATION FairStartSpec
INVARIANTS
    AtMostOneWorker
    SuccessMeansRunning
PROPERTY InitReturns
CHECK_DEADLOCK FALSE
