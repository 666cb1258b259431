CONSTANTS
    p1 = p1
    p2 = p2
    d1 = d1
    a1 = a1
    l1 = l1
    l2 = l2
    x1 = x1
    LogSink = LogSink
    NULL = NULL
    Producers <- MCProducers
    DirectSinks <- MCDirectSinks
    AppSinks <- MCAppSinks
    Lines <- MCLines
    Kinds <- MCKinds
    TopLevel = 2
    Levels = {0}
    Masks <- MCMasks
    Policies = {"fail", "block"}
    MessageLimit <- MCMessageLimit
    InitLimit = 1
    EventLimit = 0
SPECIFICATION Spec
INVARIANT SuccessIsPrinted
CHECK_DEADLOCK FALSE
