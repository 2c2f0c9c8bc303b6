SPECIFICATION Spec
CONSTANTS
  Tree <- Returning
  Roots <- ReturningRun
PROPERTIES OnlyCleanupStarts
