SPECIFICATION FairSpec
CONSTANTS
  Configs <- Services
  MaxLaunches = 3
  SuccessThreshold = 1
  FailureThreshold = 2
INVARIANTS Safety NoStacking ResultHonest
PROPERTIES LifecycleReturns
