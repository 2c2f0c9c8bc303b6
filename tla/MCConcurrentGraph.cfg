SPECIFICATION FairSpec
CONSTANTS
  N = 3
  Limits = {1, 2}
  Variables = {x}
INVARIANTS Safety
PROPERTIES NothingStartsAfterFailure Returns
