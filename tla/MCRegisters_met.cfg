SPECIFICATION MCSpec
SYMMETRY Alike
CONSTRAINT NoJobYet
CONSTANTS
  m1 = m1
  m2 = m2
  e1 = e1
  e2 = e2
  p1 = p1
  p2 = p2
  p3 = p3
  a1 = a1
  a2 = a2
  a3 = a3
  d1 = d1
  d2 = d2
  Machine = {m1, m2}
  Unlabelled = {}
  Bare = {m2}
  Registered = {m1, m2}
  Iface = {e1, e2}
  Requests = 2
  MaxPlans = 2
  MaxJobs = 1
  Place = {p1, p2, p3}
  Addr = {a1, a2, a3}
  Mac = {d1, d2}
  ZtpRequests = 2
  MaxRows = 4
  MaxLines = 2
CHECK_DEADLOCK FALSE
INVARIANTS
  OnePlanPerMachine
  InterfacesAsSent
  DeviceIsClaimed
PROPERTIES
  OwnerChangesOpenly
  FinalStateDecides
