SPECIFICATION FairSpec
CONSTANTS
  a = a
  b = b
  bad = bad
  empty = empty
  absent = absent
  unread = unread
  ztpConf = absent
  pxeOffers = {a, b, bad}
  ztpOffers = {b, bad}
  pxeEdits = {}
  ztpEdits = {}
  Content <- MCContent
  Rejected <- MCRejected
  Empty <- empty
  Absent <- absent
  Unread <- unread
  InitConf <- MCInitConf
  Offers <- MCOffers
  Edits <- MCEdits
  Hazards = {}
  MaxNudges = 1
INVARIANTS
  MarkerTruth
  RollbackSafe
  StaysUp
PROPERTIES
  GoodDeploySucceeds
  PromiseSpec
