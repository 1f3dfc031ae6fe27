SPECIFICATION ToolSpec
CONSTANTS
    Leader = leader
    Children = {cargo, qemu}
    Deaf = {leader, cargo, qemu}
    Starters = {s1, s2}
    Stages = 4
    MaxWork = 2
INVARIANT VerdictInTime
PROPERTIES
    WorkIsKept
    CommandReturns
