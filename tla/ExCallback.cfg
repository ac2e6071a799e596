CONSTANTS
    c1 = c1
    c2 = c2
    c3 = c3
    n1 = n1
    n2 = n2
    Consumers <- MCConsumers
    Notifiers <- MCNotifiers
    MaxSlots = 2
    GenMod = 16
    MaxRegistrations = 4
SPECIFICATION FairSpec
INVARIANTS
    NoUseAfterFree
    CallbackInv
    StaleCookieHarmless
PROPERTY UnregisterReturns
CHECK_DEADLOCK FALSE
