SPECIFICATION SimsSpec
CONSTANTS
    NJobs = 3
    Workloads <- MCWorkloads
    Policies = {"rr", "mlfq"}
    Periods = {5, 40}
INVARIANTS
    BestLevelRuns
    AccountingSurvives
    WaitIsBounded
    SimulatorsAgree
    SjfIsBest
    WorkIsConserved
PROPERTIES
    AllJobsDone
    ImplementsOpenQueues
