SPECIFICATION Spec
CONSTANTS
    a = a
    b = b
    x = x
    s1 = s1
    s2 = s2
    Notes = {a, b}
    Slots = {s1, s2}
    Uses <- HandUses
    MaxNotes = 2
    NoLeaf = NoLeaf
    NoDoc = NoDoc
INVARIANT LeafIndexIsTheLeaf
SYMMETRY CliSymmetry
\* The bounds end every behaviour.
CHECK_DEADLOCK FALSE
