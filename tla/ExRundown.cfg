CONSTANTS
    u1 = u1
    u2 = u2
    o1 = o1
    o2 = o2
    Users <- MCUsers
    Owners <- MCOwners
SPECIFICATION FairRundownSpec
INVARIANTS
    RundownInv
    NoUseAfterRundown
PROPERTIES
    ActiveRefusesAcquire
    WaitReturns
    ImplementsBarrier
