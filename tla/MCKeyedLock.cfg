SPECIFICATION FairSpec
CONSTANTS
    Keys = {k1, k2}
    Calls = {c1, c2, c3, c4}
    None = None
INVARIANTS
    MutualExclusion
    TailsExact
    ChainInv
PROPERTIES
    ContractSpec
    EveryCallEnters
