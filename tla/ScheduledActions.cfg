\* Three threads and six calls: a thread can be created, run and at its end
\* at the same time.
SPECIFICATION FairActionsSpec
CONSTANTS
  Threads = {t1, t2, t3}
  MaxCalls = 6
INVARIANTS
  RefusalIsTrue
PROPERTIES
  StopIsObeyed
\* Every call is made and every thread has ended.
CHECK_DEADLOCK FALSE
