SPECIFICATION Spec
CONSTANTS
  a = a
  b = b
  bad = bad
  empty = empty
  absent = absent
  unread = unread
  ztpConf = absent
  pxeOffers = {b}
  ztpOffers = {}
  pxeEdits = {absent}
  ztpEdits = {}
  Content <- MCContent
  Rejected <- MCRejected
  Empty <- empty
  Absent <- absent
  Unread <- unread
  InitConf <- MCInitConf
  Offers <- MCOffers
  Edits <- MCEdits
  Hazards = {"otherrestart", "restartfails", "slow", "slowstart", "torn", "writefails"}
  MaxNudges = 1
INVARIANT
  SuccessVetted
