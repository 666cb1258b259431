CONSTANTS
    t1 = t1
    t2 = t2
    t3 = t3
    o1 = o1
    o2 = o2
    o3 = o3
    NULL = NULL
    Threads <- MCThreads
    Objects <- MCObjects
    Capacity = 2
SPECIFICATION FairSpec
INVARIANTS
    TypeOK
    SlotBalance
    Conservation
PROPERTIES
    ImplementsBag
    Progress
    PopsDeliver
