SPECIFICATION FairFrontendSpec
CONSTANTS
  Granted <- MCGranted
  MaxActs = 3
  MaxCalls = 2
  Manifests <- MCManifests
INVARIANTS
  ToolsServed
CHECK_DEADLOCK FALSE
