SPECIFICATION FairSpec
CONSTANTS
    N = 4
    T = 2
    BoostTicks = 6
    UMAX = 99
    MaxClock = 30
    KLAG = 2
    Plan <- YieldTimerOrMlfq
    Checkpoints = {1, 5, 7}
INVARIANT TakeTurns
PROPERTY PlanCompletes
