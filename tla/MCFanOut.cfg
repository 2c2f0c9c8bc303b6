SPECIFICATION FairFanOut
CONSTANTS
  N = 3
  Limits = {1, 2}
INVARIANTS FanOutSafety
PROPERTY FanOutReturns
