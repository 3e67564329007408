SPECIFICATION Spec
CONSTANTS
  Handler = {h1, h2}
  ServerId = {1, 2}
  TokenId = {1, 2}
  Name = {"n1", "n2"}
  Label = {"l1"}
  Keep = Keep
  Ops = {"server.create", "server.update", "server.delete",
         "token.create", "token.update", "token.delete"}
  Faults = TRUE
INVARIANTS
  RegistryTypeOK
  LiveNamesUnique
  DeletedTokensInactive
  AuditTruthful
PROPERTIES
  DeletedRowsFrozen
  ImplementsDirectories
SYMMETRY HandlerSymmetry
