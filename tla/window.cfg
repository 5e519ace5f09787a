CONSTANTS
  Limit = 2
  Window = 4
  Late = 1
  Early = 1
  Grace = 1
  MaxCalls = 5
  MaxClock = 9
SPECIFICATION Spec
CHECK_DEADLOCK FALSE
INVARIANTS
  TypeOK
  LimitHolds
PROPERTIES
  RejectionJustified
