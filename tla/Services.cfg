CONSTANTS
    Periods = {0, 1, 3}
    Default = 2
    Horizon = 5
    CallLimit = 1
    NULL = NULL
    Anchor = Anchor
    b1 = b1
    b2 = b2
SPECIFICATION MCSpec
CHECK_DEADLOCK FALSE
INVARIANT OnlyStopReadsFreed
PROPERTIES
    StopFrees
    StreamKept
    EchoKept
    RoundsKept
    LogKept
