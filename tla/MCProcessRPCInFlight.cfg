SPECIFICATION Spec
CONSTANTS
  c1 = c1  c2 = c2  w1 = w1  w2 = w2
  None = None
  Callers = {c1, c2}
  Workers = {w1, w2}
  Pool <- SinglesAndPool
  MaxInstances <- OneRestart
INVARIANT OneInFlight
