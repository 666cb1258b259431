CONSTANTS
    c1 = c1
    c2 = c2
    k1 = k1
    k2 = k2
    Main = Main
    NULL = NULL
    Clients <- MCClients
    Tasks <- MCTasks
    Backlog = 1
    MinConfigs = {1, 2}
    MaxConfig = 2
    PthreadLimit = 3
    EventLimit = 1
    MinValues = {2}
    MaxValues = {1, 3}
SYMMETRY Alike
SPECIFICATION Spec
INVARIANTS
    CountersSound
    MaxRespected
    TaskFates
    ClosedSound
CHECK_DEADLOCK FALSE
