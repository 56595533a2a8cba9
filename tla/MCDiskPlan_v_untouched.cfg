SPECIFICATION Spec
CONSTANTS
  Systems = {"rhel"}
  Forms <- AllForms
  Machines <- AllMachines
  Boots = 2
CHECK_DEADLOCK FALSE
INVARIANT DataDisksUntouched
