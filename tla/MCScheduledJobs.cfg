SPECIFICATION FairSpec
CONSTANTS
    j1 = j1
    c1 = c1
    c2 = c2
    p1 = p1
    None = None
    Jobs = {j1}
    Calls = {c1, c2}
    Procs = {p1}
    JobOf <- MCJobOf
    ProcOf <- MCProcOf
    MaxCrashes = 1
    MaxPatches = 1
CHECK_DEADLOCK FALSE
INVARIANTS
    OneInProcess
    OnlyStaleIsReplaced
    NewestHoldsTheJob
PROPERTIES
    DueJobRuns
    RunsEnd
