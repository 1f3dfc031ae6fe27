SPECIFICATION HSpec
CONSTANTS
    N = 3
    T = 1
    BoostTicks = 7
    UMAX = 99
    MaxClock = 7
    KLAG = 1
    Plan <- RrOrMlfq
    Checkpoints = {1, 3, 4}
INVARIANTS
    TypeOK
    KernelAssertionsHold
    CallsServedOnce
    QueueConsistent
    RunningHasTopPriority
    BudgetInRange
    AllotmentBoundsUserTime
    CallsDoNotRenewQuantum
PROPERTY ImplementsLevelQueues
