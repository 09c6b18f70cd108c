\* A deploy and a deletion side by side, with one mishap, and the recovery at
\* boot where it has a call left to use.
SPECIFICATION FairSpec
CONSTANTS
    o1 = o1
    o2 = o2
    None = None
    Ops = {o1, o2}
    Kinds = {"deploy", "delete"}
    MaxTrouble = 1
CHECK_DEADLOCK FALSE
PROPERTIES
    Converges
    Forgotten
