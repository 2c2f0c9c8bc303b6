SPECIFICATION FairSpec
CONSTANTS
  Services = {a, b}
  Policies <- TwoPolicies
  ParentCauses = {"canceled", "foreign"}
INVARIANTS Safety
PROPERTIES CancellationShows ScopeEnds
