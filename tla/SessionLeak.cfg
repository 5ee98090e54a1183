CONSTANTS
  None = None
  Conns = {c1, c2}
  Sessions = {s1}
  TTL = 2
SPECIFICATION FairSpec
\* Every connection may be closed and every session gone.
CHECK_DEADLOCK FALSE
PROPERTY RemovedSessionsTerminate
