SPECIFICATION FairClientSpec
CONSTANTS
  c1 = c1
  c2 = c2
  c3 = c3
  c4 = c4
  h1 = h1
  h2 = h2
  Caller = {c1, c2}
  Key = {h1}
  KeyOf <- MCOneKey
  MaxConcurrent = 1
  TurnBased = TRUE
  MaxRetries = 1
  CutHosts = {h1}
CHECK_DEADLOCK FALSE
PROPERTIES
  EveryCallAnswered
