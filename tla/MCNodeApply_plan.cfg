SPECIFICATION MCFairSpec
CONSTANTS
  c1 = c1
  c2 = c2
  Requests = 2
  MaxEdits = 1
  Backend <- LinuxAndSwitch
  Config = {c1, c2}
  Original = Original
  Mixed = Mixed
  MaxFaults = 2
CHECK_DEADLOCK FALSE
INVARIANTS
  VerifiedOrRestored
  ReportedIsTrue
PROPERTIES
  RolledBackIsBack
  ChangesEnd
