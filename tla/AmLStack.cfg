CONSTANTS
    t1 = t1
    t2 = t2
    t3 = t3
    n1 = n1
    n2 = n2
    n3 = n3
    NULL = NULL
    Threads <- MCThreads
    Nodes <- MCNodes
    SizeModulus = 5
SPECIFICATION FairSpec
INVARIANTS
    ChainIsStack
    SizeSound
PROPERTIES
    ImplementsBag
    PushNeverWaits
    PopsGoOn
