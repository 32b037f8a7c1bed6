SPECIFICATION Spec
CONSTANTS
  Native = TRUE
  ROOT_HISTORY_SIZE = 2
  TreeCapacity = 2
  FEE_DENOMINATOR = 3
  depositFeePpm = 1
  withdrawFeePpm = 1
  gasRebateWei = 1
  AmountLimit = 4
  Notes = {n1}
  NoNote = NoNote
  Amounts = {0,1,2,3}
  Recipients = {"other"}
  MaxNesting = 3
  MaxGasReserve = 1
  MaxSurplus = 0
\* Nobody has to call a pool: when the bounds allow no further call, it rests.
CHECK_DEADLOCK FALSE
INVARIANTS
  NoLeafSpentTwice
  HoldsWhatItOwes
  NeverShort
  BooksBalance
  CountersReconcile
PROPERTY
  ImplementsNoteLedger
