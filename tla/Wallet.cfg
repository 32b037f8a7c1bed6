SPECIFICATION FairSpec
CONSTANTS
    NoPool = NoPool
    Uses <- MCUses
    RootWindow = 1
INVARIANTS MergesDistinctNotes CoveredByCode BoundWhereItLies
PROPERTIES PaysTypedDestination BusyEnds
CHECK_DEADLOCK FALSE
