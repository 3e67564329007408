SPECIFICATION FairSpec
CONSTANTS
  Sync = {"s1", "s2"}
  Refresh = {}
  Test = {}
  User = {"u1", "u2"}
  MaxClock = 1
  MaxRows = 2
  MaxBusy = 2
  Faults = FALSE
  Removals = FALSE
PROPERTY
  EventuallyMirrored
