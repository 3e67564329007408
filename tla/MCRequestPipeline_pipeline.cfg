SPECIFICATION Spec
CONSTANTS
  Slot = {"q1", "q2"}
  Tenant = {"t1", "t2"}
  Dsn = {"d1"}
  Key = {"k1", "k2"}
  Secret = {"x1", "x2"}
  Requests <- MCRequests
  Environments <- MCEnvironments
  Settings <- MCSettings
INVARIANTS
  PipelineTypeOK
  RefusalsInOrder
  OwnAssembly
  ReadableUntilRotated
PROPERTIES
  ImplementsMonitor
