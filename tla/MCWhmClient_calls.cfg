SPECIFICATION FairClientSpec
CONSTANTS
  c1 = c1
  c2 = c2
  c3 = c3
  c4 = c4
  h1 = h1
  h2 = h2
  Caller = {c1, c3, c4}
  Key = {h1, h2}
  KeyOf <- MCKeyOf
  MaxConcurrent = 1
  TurnBased = TRUE
  MaxRetries = 2
  CutHosts = {h1}
INVARIANTS
  ClientTypeOK
  HostNotHammered
PROPERTIES
  GivesUpOnlyWhenExhausted
  UsesLimiter
  SoundHostsAnswer
