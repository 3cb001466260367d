\* A modem that answers in words; two calls of the system fail.
SPECIFICATION FairSpec
CONSTANTS
  Verbose = TRUE
  MaxFaults = 2
INVARIANTS
  PortReleased
  CommittedCallIsStopped
PROPERTIES
  InvoceEnds
\* std::terminate ends the program.
CHECK_DEADLOCK FALSE
