SPECIFICATION Spec
CONSTANTS
  Services = {a, b}
  Policies <- TwoPolicies
  ParentCauses = {}
INVARIANT ShutdownTriggersNoPolicy
