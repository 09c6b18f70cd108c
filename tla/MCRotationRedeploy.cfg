SPECIFICATION Spec
CONSTANTS
    Apps = {a1, a2}
    Linked = {a1, a2}
    Rotators = {r1}
    Kind = "postgres"
    MaxRotations = 1
    MaxRequests = 1
    MaxFaults = 0
CHECK_DEADLOCK FALSE
INVARIANTS
    RedeployedAppsUseNewLogin
