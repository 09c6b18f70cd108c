SPECIFICATION FairSpec
CONSTANTS
    b1 = b1
    b2 = b2
    w1 = w1
    w2 = w2
    w3 = w3
    p1 = p1
    p2 = p2
    a1 = a1
    None = None
    Apps = {a1}
    Builds = {b1}
    Procs = {p1}
    Workers = {w1, w2}
    AppOf <- MCAppOf
    Kind <- MCKind
    MaxAttempts <- MCOnce
    ProcOf <- MCProcOf
    MaxCrashes = 1
    MaxStalls = 1
    Cancellable = {b1}
CHECK_DEADLOCK FALSE
PROPERTIES
    PendingIsDecided
    StartedEnds
    JobsEnd
