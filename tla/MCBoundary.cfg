SPECIFICATION Spec
CONSTANTS
    N = 3
    T = 1
    BoostTicks = 4
    UMAX = 99
    MaxClock = 5
    KLAG = 1
    Plan <- MlfqPlan
    Checkpoints = {1}
INVARIANT TimerEndsAtBoundary
