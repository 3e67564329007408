SPECIFICATION FairSpec
CONSTANTS
  Run = {"r1", "r2"}
  MaxServers = 3
  Take = 2
  User = {"u1", "u2"}
  Answers <- MCAnswers
INVARIANTS
  SummaryAddsUp
  NamedAccountsKept
  ClientReleased
PROPERTY
  RunEnds
CHECK_DEADLOCK FALSE
