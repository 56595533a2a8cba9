SPECIFICATION MCFairSpec
CONSTANTS
  r1 = r1
  r2 = r2
  r3 = r3
  noFile = noFile
  t1 = t1
  a1 = a1
  a2 = a2
  Request = {r1, r2, r3}
  NoFile <- noFile
  MaxKills = 2
  Allowed = {}
  Task = {t1}
  Asset = {a1, a2}
  Concurrency = 1
  EarlyLeave = FALSE
  MaxFaults = 2
CHECK_DEADLOCK FALSE
INVARIANTS
  ShownTruly
  ResultsWhole
PROPERTIES
  OnlyAnsweredRemoved
  EveryRequestAnswered
  SettledForGood
  Settles
