SPECIFICATION Spec
CONSTANTS
  c1 = c1
  c2 = c2
  noFile = noFile
  Blocks = 2
  MaxTransfers = 2
  MaxTorn = 1
  Caller = {c1}
  NoFile <- noFile
  Allowed = {}
CHECK_DEADLOCK FALSE
INVARIANTS
  NeverHalf
