SPECIFICATION FairSpec
CONSTANTS
  Tree <- Workflows
  Roots <- Runs
INVARIANTS Safety CleanupComplete
PROPERTIES ReleasedInReverse OnlyCleanupStarts CompletedNotRepeated RaceHonest RunReturns
