SPECIFICATION Spec
CONSTANTS
  Configs <- Services
  MaxLaunches = 1
  SuccessThreshold = 1
  FailureThreshold = 1
INVARIANT CommandRunsFirst
