SPECIFICATION Spec
CONSTANTS
    t1 = t1
    t2 = t2
    t3 = t3
    Tabs <- MCTabs
    MaxTokens = 4
    MaxLost = 1
SYMMETRY MCSymmetry
CHECK_DEADLOCK FALSE
INVARIANTS
    OneSuccessor
    TabsAgree
    JarIsCurrent
PROPERTIES
    RevokedForGood
