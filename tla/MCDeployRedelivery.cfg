SPECIFICATION Spec
CONSTANTS
    b1 = b1
    b2 = b2
    w1 = w1
    w2 = w2
    w3 = w3
    p1 = p1
    p2 = p2
    a1 = a1
    None = None
    Apps = {a1}
    Builds = {b1}
    Procs = {p1, p2}
    Workers = {w1, w3}
    AppOf <- MCAppOf
    Kind <- MCKind
    MaxAttempts <- MCMaxAttempts
    ProcOf <- MCProcOf
    MaxCrashes = 1
    MaxStalls = 1
    Cancellable = {}
CHECK_DEADLOCK FALSE
INVARIANTS
    OneDriver
    LiveAtMostOnce
    OutcomeIsTrue
    SlotInv
PROPERTIES
    TerminalIsSticky
