SPECIFICATION Spec
CONSTANTS
  Request = {r1, r2}
  Object = {"o1"}
  MaxRetries = 1
  Outages = TRUE
  Faults = TRUE
INVARIANTS
  RemoteTypeOK
  OkMeansDone
  FieldsInOrder
CHECK_DEADLOCK FALSE
SYMMETRY RequestSymmetry
