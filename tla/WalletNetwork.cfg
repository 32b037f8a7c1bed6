SPECIFICATION Spec
CONSTANTS
    NoPool = NoPool
    Uses <- RoamingUses
    RootWindow = 1
INVARIANT SendsToOwnNetwork
CHECK_DEADLOCK FALSE
