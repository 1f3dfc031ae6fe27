SPECIFICATION ESpec
CONSTANTS
    N = 2
    T = 1
    BoostTicks = 4
    UMAX = 99
    MaxClock = 12
    KLAG = 1
    Plan <- EndlessPlan
    Checkpoints = {1}
INVARIANT BoostServedPromptly
PROPERTY StarvationFree
