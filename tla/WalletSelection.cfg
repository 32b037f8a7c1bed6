SPECIFICATION Spec
CONSTANTS
    NoPool = NoPool
    Uses <- WalletUses
    RootWindow = 1
INVARIANT ShownSpentIsSpent
CHECK_DEADLOCK FALSE
