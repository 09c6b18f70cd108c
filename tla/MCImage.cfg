SPECIFICATION FairSpec
CONSTANTS
    MaxDigest = 3
    MaxJobs = 5
    MaxAttempts = 2
    MaxTrouble = 3
CHECK_DEADLOCK FALSE
INVARIANTS
    LastWasLive
    Owned
PROPERTIES
    Forward
    CatchesUp
