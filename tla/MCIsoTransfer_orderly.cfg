SPECIFICATION FairSpec
CONSTANTS
  c1 = c1
  c2 = c2
  noFile = noFile
  Blocks = 2
  MaxTransfers = 3
  MaxTorn = 1
  Caller = {c1}
  NoFile <- noFile
  Allowed = {}
CHECK_DEADLOCK FALSE
INVARIANTS
  PublishedIntact
  NoLeftover
  AcknowledgedKept
  OnlyDoneIsPublished
PROPERTIES
  SlotFreed
  VerdictFinal
