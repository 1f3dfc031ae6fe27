SPECIFICATION FairSpec
CONSTANTS
    Builds = {"lesson07", "lesson08", "lesson09", "lesson10"}
    StressRuns = 100
    PidLimits = {1, 2, 3, 5, 102, 103, 104, 105, 1000}
INVARIANTS
    LifecycleAssertionsHold
    NoResidue
PROPERTIES
    PidsIncrease
    LessonsFinish
