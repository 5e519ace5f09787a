SPECIFICATION Spec
CONSTANTS
  Callers = {c1, c2}
  Rules <- RateAndInterval
  KeyTTL = 5
  Milli = 2
  MaxClock = 7
  MaxActions = 3
INVARIANTS
  TypeOK
  ShortestRateKept
PROPERTIES
  FlagJustified
  IntervalKept
CHECK_DEADLOCK FALSE
