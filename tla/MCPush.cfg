SPECIFICATION FairSpec
CONSTANTS
    N = 4
    Push <- MCPush
    Kind <- MCKind
    Coalesce = TRUE
    Slots = 2
    MaxAttempts = 2
    MaxTrouble = 1
CHECK_DEADLOCK FALSE
INVARIANTS
    TypeOK
    NotSwallowed
    InOrder
PROPERTIES
    Lands
