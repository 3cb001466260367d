\* Three connections over two descriptors and two threads: descriptors are
\* used again, threads outlive their sockets, and both limits are reached.
SPECIFICATION FairSpec
CONSTANTS
  Controllers = {c1, c2, c3}
  Threads = {t1, t2}
  Fds = {f1, f2}
  None = None
INVARIANTS
  OwnConnection
  NoneForgotten
  ReleasesArePaired
PROPERTIES
  QueuedIsAccepted
  AcceptedIsClosed
\* All connections are over, or the process is.
CHECK_DEADLOCK FALSE
