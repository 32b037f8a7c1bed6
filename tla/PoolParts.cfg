SPECIFICATION AllSpec
CONSTANTS
  FEE_DENOMINATOR = 7
  UINT256_MAX = 300
  AmountLimit = 6
  ROOT_HISTORY_SIZE = 3
  Roots = {r1, r2, r3}
  NoRoot = NoRoot
  MaxRecords = 7
  Leaves = {a, b}
  ZeroLeaf = ZeroLeaf
  MAX_DEPTH = 3
  WordBits = 5
  MAX_PARTS = 8
  ProofFiles <- Proofs
  NoteFiles <- StoredNotes
  depositFeePpm = 2
  Notes = {"n1", "n2"}
  Starts <- MCStarts
  Passphrases <- MCPassphrases
  Environments <- MCEnvironments
  Spots = {1, 2, 5, 11, 13, 14, 31, 40, 59, 60, 93}
  MaxHops = 2
  TARGET_LEAVES = 12
  MaxScripts = 2
  MaxStrangers = 1
INVARIANTS
  QuoteIsExact
  SplitCostsNoMore
  CallsCarryTheProof
  NotesSurvive
  ClientRebuildsRoot
  WitnessVerifies
  OpensOnlyWhereItIs
  RootNamesPrefix
  TokensAreWhatIsOwed
  MoneyStaysReachable
  WorksUnlessDisturbed
PROPERTY
  ImplementsRecentRoots
\* A full tree takes no further leaf; nobody has to call a pool.
CHECK_DEADLOCK FALSE
