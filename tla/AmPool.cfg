CONSTANTS
    t1 = t1
    t2 = t2
    root = root
    sub = sub
    NULL = NULL
    Threads <- MCThreads
    Pools <- MCPools
    Parent <- MCParent
    Sizes = {9, 16, 600}
    Chunks = {1, 2}
    TotalLimit = 2
SYMMETRY ThreadsAlike
SPECIFICATION Spec
INVARIANTS
    ChunksConserved
    SizesMarked
