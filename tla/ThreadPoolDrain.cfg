CONSTANTS
    c1 = c1
    c2 = c2
    k1 = k1
    k2 = k2
    Main = Main
    NULL = NULL
    Clients <- MCClients
    Tasks <- MCTasks
    Backlog = 2
    MinConfigs = {1}
    MaxConfig = 2
    PthreadLimit = 3
    EventLimit = 0
    MinValues = {}
    MaxValues = {}
SPECIFICATION FairSpec
INVARIANT TasksDoneAtDestroy
CHECK_DEADLOCK FALSE
