\* One connection is enough.
SPECIFICATION Spec
CONSTANTS
  Controllers = {c1}
  Threads = {t1}
  Fds = {f1}
  None = None
INVARIANTS
  ShortReportIsLogged
CHECK_DEADLOCK FALSE
