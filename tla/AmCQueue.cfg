CONSTANTS
    t1 = t1
    t2 = t2
    t3 = t3
    o1 = o1
    o2 = o2
    NULL = NULL
    Threads <- MCThreads
    Objects <- MCObjects
    Capacity = 2
SPECIFICATION FairSpec
INVARIANT SlotsSound
PROPERTIES
    FirstInFirstOut
    ImplementsBag
    LockComesFree
