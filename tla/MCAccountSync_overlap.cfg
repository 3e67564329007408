SPECIFICATION Spec
CONSTANTS
  Sync = {s1, s2}
  Refresh = {"r1"}
  Test = {"t1"}
  User = {"u1"}
  MaxClock = 2
  MaxRows = 2
  MaxBusy = 2
  Faults = TRUE
  Removals = TRUE
INVARIANTS
  SyncTypeOK
  NoDuplicateAccounts
  FreshAsStamped
PROPERTY
  DeletedServerUntouched
SYMMETRY SyncSymmetry
