SPECIFICATION Spec
CONSTANTS
  Native = TRUE
  ROOT_HISTORY_SIZE = 2
  TreeCapacity = 3
  FEE_DENOMINATOR = 3
  depositFeePpm = 1
  withdrawFeePpm = 1
  gasRebateWei = 1
  AmountLimit = 3
  Notes = {n1}
  NoNote = NoNote
  Amounts = {0,1,2,3}
  Recipients = {"other", "pool"}
  MaxNesting = 1
  MaxGasReserve = 1
  MaxSurplus = 1
\* Nobody has to call a pool: when the bounds allow no further call, it rests.
CHECK_DEADLOCK FALSE
INVARIANTS
  EveryNoteRedeemable
  KnownRootsAreTheLatest
