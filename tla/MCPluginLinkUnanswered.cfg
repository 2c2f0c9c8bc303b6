SPECIFICATION FairSpec
CONSTANTS
  c1 = c1
  c2 = c2
  Calls = {c1, c2}
  Shutdown = shutdown
  MaxAsks = 2
  Room = 1
  Scenes <- Uses
  MaxHostCalls = 1
  MaxRefused = 1
CHECK_DEADLOCK FALSE
PROPERTIES RequestsAnswered
