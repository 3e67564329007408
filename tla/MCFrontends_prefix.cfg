SPECIFICATION FairFrontendSpec
CONSTANTS
  Granted <- MCGranted
  MaxActs = 3
  MaxCalls = 2
  Manifests <- MCManifests
INVARIANTS
  ValidStaysUnderApi
CHECK_DEADLOCK FALSE
