SPECIFICATION Spec
CONSTANTS
  c1 = c1
  c2 = c2
  noFile = noFile
  Blocks = 2
  MaxTransfers = 1
  MaxTorn = 1
  Caller = {c1, c2}
  NoFile <- noFile
  Allowed = {"twin"}
CHECK_DEADLOCK FALSE
INVARIANTS
  PublishedIntact
