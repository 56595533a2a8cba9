SPECIFICATION MCSpec
CONSTANTS
  Systems = {"rhel", "ubuntu", "debian", "opensuse"}
  Forms <- AllForms
  Machines <- AllMachines
  Boots = 2
  Requests <- AllRequests
  Fixes <- AllFixes
  MaxRuns = 2
  MaxCuts = 1
CHECK_DEADLOCK FALSE
INVARIANTS
  ProtectedStay
  OrderMakesNoDifference
  SavedIsMadeWhole
  ExactlyWhatIsAsked
  DefaultRoutesWork
  LoadsOrRefused
  ExitZeroMeansUp
