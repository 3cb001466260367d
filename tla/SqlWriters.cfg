\* Two identifiers, three threads, two statements per identifier.
SPECIFICATION FairSpec
CONSTANTS
  t1 = t1
  t2 = t2
  None = None
  Ids <- TwoIds
  MaxThreads = 3
  MaxStatements = 2
INVARIANTS
  OwnAnswers
  InSync
  NoWildDelete
PROPERTIES
  SerialSpec
  MutexIsFreedAgain
\* The bounds on threads and statements end the behaviours.
CHECK_DEADLOCK FALSE
