SPECIFICATION TreeSpec
CONSTANTS
  Leaves = {a, b}
  ZeroLeaf = ZeroLeaf
  MAX_DEPTH = 3
  WordBits = 3
CHECK_DEADLOCK FALSE
INVARIANT
  TakesAllItsLeaves
