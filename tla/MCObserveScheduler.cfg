SPECIFICATION ObserverFairSpec
CONSTANTS
  Configs <- Observers
  MaxVersions = 2
  FailureWindow = 2
INVARIANTS ObserverSafety
PROPERTIES NewestFirst Converges ObserverEnds
