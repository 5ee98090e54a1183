CONSTANTS
  None = None
  Conns = {c1, c2, c3}
  Sessions = {s1, s2}
  TTL = 1
SPECIFICATION FairSpec
\* Every connection may be closed and every session gone.
CHECK_DEADLOCK FALSE
INVARIANTS
  TypeOK
  NeverEvicted
  SenderFollowsAttachment
  ShutdownIsFinal
PROPERTIES
  GraceHonoured
  DetachedSessionEnds
