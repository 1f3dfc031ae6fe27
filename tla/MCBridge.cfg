SPECIFICATION Spec
CONSTANTS
    Builds = {"lesson08", "lesson09", "lesson10", "scheduling"}
    Tasks = {0, 1}
    MaxWork = 2
    MaxCalls = 4
INVARIANTS
    BridgeAssertionsHold
    RustRunsTrusted
    UserRunsReady
    FaultReportedFromKernel
PROPERTY BridgeKeepsContexts
