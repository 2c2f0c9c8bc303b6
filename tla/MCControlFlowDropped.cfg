SPECIFICATION Spec
CONSTANTS
  Tree <- Dropping
  Roots <- DroppingRun
INVARIANTS CommittedIsRegistered
