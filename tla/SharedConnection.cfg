\* One socket thread and the scheduled thread, one unit of work each.  Faults
\* are counted up to two, one of a statement and one of its ROLLBACK, and go on.
SPECIFICATION FairSpec
CONSTANTS
  s1 = s1
  calls = calls
  Sockets <- OneSocket
  Scheduler = calls
  MaxUnits = 1
  MaxFaults = 2
INVARIANTS
  NothingLeftPending
  StoredIsDurable
  NotStoredLeavesNothing
  TablesAgree
  AbortNeedsTwoFaults
PROPERTIES
  UnitsEnd
\* The bounds, SIGTERM and std::terminate end the behaviours.
CHECK_DEADLOCK FALSE
