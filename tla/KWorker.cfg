CONSTANTS
    c1 = c1
    c2 = c2
    Clients <- MCClients
    MaxEntries = 2
    GenMod = 8
    MaxSleep = 2
    Periods = {1, 2}
    MaxRegistrations = 3
    MaxTime = 3
SPECIFICATION FairSpec
INVARIANTS
    NoUseAfterFree
    SlotOwned
    KeepsTime
PROPERTY UnregisterReturns
CHECK_DEADLOCK FALSE
