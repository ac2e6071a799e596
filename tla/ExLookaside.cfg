CONSTANTS
    p = p
    q = q
    b1 = b1
    b2 = b2
    b3 = b3
    NULL = NULL
    Data = Data
    Pending = Pending
    Cpu <- MCCpu
    Entry <- MCEntry
    SLIST_DEPTH_MAX = 3
    Depth = 3
    EX_LOOKASIDE_DEFAULT_DEPTH = 1
    EX_LOOKASIDE_MAX_DEPTH = 1
    MaxCalls = 6
SPECIFICATION Spec
INVARIANTS
    SListInv
    CacheInv
PROPERTIES
    ImplementsStack
SYMMETRY Symmetric
CHECK_DEADLOCK FALSE
