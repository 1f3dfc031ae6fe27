SPECIFICATION MCSpec
CONSTANTS
    BootStackBytes = 4
    StackBytes = 4
    SpAlign = 2
    FrameBytes = 1
    MaxMoves = 2
    TextSizes = {1, 4}
    OtherSizes = {0, 1, 4}
    Images <- MCImages
    Builds <- AllBuilds
INVARIANTS
    AcceptedIsSafe
    ProbeTellsTheClear
PROPERTY EveryBuildArrives
