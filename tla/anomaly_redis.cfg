CONSTANTS
  Checkers = {c1, c2}
  FirstMinute = 10
  LastMinute = 12
  Lookback = 2
  Multiplier = 2
  MaxCount = 3
SPECIFICATION Spec
INVARIANTS
  SpikeReported
