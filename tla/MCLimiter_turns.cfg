SPECIFICATION FairSpec
CONSTANTS
  c1 = c1
  c2 = c2
  c3 = c3
  c4 = c4
  c5 = c5
  h1 = h1
  h2 = h2
  Caller = {c1, c2, c3, c4, c5}
  Key = {h1}
  KeyOf <- MCOneKey
  MaxConcurrent = 2
  TurnBased = TRUE
INVARIANTS
  TypeOK
  ConcurrencyCap
  CountsRunning
  NoIdleSlotWhileQueued
PROPERTIES
  EveryWaiterServed
  ImplementsSemaphore
