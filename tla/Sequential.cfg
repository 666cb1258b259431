CONSTANTS
    v1 = v1
    v2 = v2
    v3 = v3
    NULL = NULL
    Hashes = {1, 9, 17}
    Values <- MCValues
    Entries = {1, 2, 3}
    InitialCapacity = 8
    Percents = {25, 65}
    Thresholds = {2, 4}
    FreeSize = 1
    FlagSets <- MCFlagSets
    CapacityLimit = 32
    Keys = {1, 2, 3, 4, 5, 6, 7, 8, 9, 10, 11, 12}
    StandIn = StandIn
    SwapLimit = 3
    TreeAnchor = TreeAnchor
    Nil = Nil
    Options <- MCOptions
    Descriptor <- MCDescriptor
    Texts <- MCTexts
    Names = {"num", "n", "flag", "c", "", "wrong"}
    Lines <- MCTexts
    Number <- MCNumber
    Whole <- MCWhole
    OptAnchor = OptAnchor
    ReadLimit = 2
    ListLimit = 2
    Absent = Absent
    UMax = 5
    SsqMax = 2
    Measured = {1, 2, 3}
    Fds = {3, 4}
    Ports <- MCPorts
    Zero = Zero
    NoFd = NoFd
SYMMETRY ValuesAlike
SPECIFICATION MCSpec
CHECK_DEADLOCK FALSE
INVARIANTS
    TableSound
    TreeSound
    OptsSound
    StatsHonest
    DescriptorsSound
PROPERTY ImplementsMap
