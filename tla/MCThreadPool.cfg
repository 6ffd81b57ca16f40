CONSTANTS
    N = 2
    Tasks = {t1, t2, t3}
    Clients = {c1, c2}
    NoTask = NoTask
SPECIFICATION FairSpec
INVARIANTS
    ClaimIsBacked
    SlotIsFree
    IInv
PROPERTIES
    Implements
    WaitReturns
    DestructorReturns
