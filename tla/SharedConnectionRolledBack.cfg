\* One energy record beside one scheduled call, and no fault at all.
SPECIFICATION Spec
CONSTANTS
  s1 = s1
  calls = calls
  Sockets <- OneSocket
  Scheduler = calls
  MaxUnits = 1
  MaxFaults = 0
INVARIANTS
  RolledBackCallLeavesNothing
CHECK_DEADLOCK FALSE
