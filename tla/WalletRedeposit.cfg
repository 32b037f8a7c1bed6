SPECIFICATION Spec
CONSTANTS
    NoPool = NoPool
    Uses <- PlainUses
    RootWindow = 1
INVARIANT DepositedOnce
CHECK_DEADLOCK FALSE
