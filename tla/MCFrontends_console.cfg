SPECIFICATION FairFrontendSpec
CONSTANTS
  Granted <- MCGranted
  MaxActs = 3
  MaxCalls = 2
  Manifests <- MCManifests
INVARIANTS
  ConsoleTypeOK
  OfferedMeansAllowed
  OwnChangesShown
  EveryChangeReloaded
  ShippedManifestServed
PROPERTY
  ButtonsFreed
CHECK_DEADLOCK FALSE
