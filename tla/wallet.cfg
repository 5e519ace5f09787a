CONSTANTS
  Accounts = {a1, a2}
  Callers = {c1, c2}
  Amounts <- AllAmounts
  Deltas <- AllDeltas
  Initial = 3
  MaxInt = 7
  MaxRecords = 3
SPECIFICATION Spec
CHECK_DEADLOCK FALSE
INVARIANTS
  TypeOK
  NeverNegative
  LedgerAgrees
  HoldsReturned
  OwnHistoryKept
PROPERTIES
  ImplementsAccount
