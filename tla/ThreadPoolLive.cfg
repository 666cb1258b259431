CONSTANTS
    c1 = c1
    c2 = c2
    k1 = k1
    k2 = k2
    Main = Main
    NULL = NULL
    Clients <- MCClients
    Tasks <- MCTasks
    Backlog = 1
    MinConfigs = {1}
    MaxConfig = 2
    PthreadLimit = 3
    EventLimit = 1
    MinValues = {}
    MaxValues = {}
SPECIFICATION FairSpec
PROPERTIES
    UsesStack
    AcceptedRuns
    DestroyEnds
CHECK_DEADLOCK FALSE
