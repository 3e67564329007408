SPECIFICATION Spec
CONSTANTS
  Request = {r1, r2}
  Object = {"o1"}
  MaxRetries = 1
  Outages = FALSE
  Faults = FALSE
INVARIANTS
  RemoteAuditComplete
CHECK_DEADLOCK FALSE
