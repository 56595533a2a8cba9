SPECIFICATION MCSpec
SYMMETRY Alike
CONSTANTS
  a1 = a1
  a2 = a2
  a3 = a3
  e1 = e1
  x1 = x1
  x2 = x2
  Alert = {a1, a2, a3}
  Event = {e1}
  Person = {x1, x2}
  MaxTime = 2
  Window = 1
  TTL = 1
  Timeout = 1
  MaxAttempts = 2
  MaxFaults = 1
  Process = {x1, x2}
  MaxValue = 3
  MaxCrashes = 2
  TornWrites = FALSE
  MaxProfiles = 2
  Mac = {a1, a2, a3}
  MaxRecords = 2
  Request = {x1, x2}
  MaxHandlers = 3
  MaxMishaps = 1
CHECK_DEADLOCK FALSE
INVARIANTS
  OnDutyRecently
  CountedAndTold
  NothingLost
  NoSecondInstall
  NobodyIsForgotten
  InstallEndsTheWaiting
