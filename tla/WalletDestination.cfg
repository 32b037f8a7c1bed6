SPECIFICATION Spec
CONSTANTS
    NoPool = NoPool
    Uses <- DestinationUses
    RootWindow = 1
PROPERTY PaysTypedDestination
CHECK_DEADLOCK FALSE
