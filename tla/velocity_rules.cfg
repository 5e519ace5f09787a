SPECIFICATION Spec
CONSTANTS
  Callers = {c1}
  Rules <- TwoRates
  KeyTTL = 7
  Milli = 1
  MaxClock = 6
  MaxActions = 3
INVARIANT
  EveryRateKept
CHECK_DEADLOCK FALSE
