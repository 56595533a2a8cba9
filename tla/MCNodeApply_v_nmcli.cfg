SPECIFICATION Spec
CONSTANTS
  c1 = c1
  c2 = c2
  Requests = 2
  MaxEdits = 2
  Backend <- Scripted
  Config = {c1, c2}
  Original = Original
  Mixed = Mixed
  MaxFaults = 2
CHECK_DEADLOCK FALSE
PROPERTY
  RolledBackIsBack
