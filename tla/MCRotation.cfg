SPECIFICATION FairSpec
CONSTANTS
    Apps = {a1}
    Linked = {a1}
    Rotators = {r1, r2}
    Kind = "postgres"
    MaxRotations = 2
    MaxRequests = 1
    MaxFaults = 1
CHECK_DEADLOCK FALSE
INVARIANTS
    RowLoginWorks
    SecretsWork
PROPERTIES
    SecretsFollowRow
    LockEnds
