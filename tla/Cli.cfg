SPECIFICATION BothSpec
CONSTANTS
    a = a
    b = b
    x = x
    s1 = s1
    s2 = s2
    Notes = {a, b}
    Slots = {s1, s2}
    Uses <- CliUses
    MaxNotes = 2
    NoLeaf = NoLeaf
    NoDoc = NoDoc
INVARIANTS SpentIsSpent NotesDistinct FetchedAgrees SecretsKept
SYMMETRY CliSymmetry
\* The bounds end every behaviour.
CHECK_DEADLOCK FALSE
