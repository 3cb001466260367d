\* Three rows of two controllers, the second without a number, set four times
\* in any order, with two faults.
SPECIFICATION FairSpec
CONSTANTS
  NRows = 3
  Abonent <- TwoControllers
  Phoned = {1, 3}
  MaxRequests = 4
  MaxFaults = 2
INVARIANTS
  PendingOnlyInCall
  
  ServedIsNotRepeated
PROPERTIES
  WaitsOnlyForFailures
