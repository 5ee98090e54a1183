CONSTANTS
  None = None
  Ids = {p}
  Starts = {a, b}
  Ptys = {b}
  Streams = {out, err}
  Stderr = err
  MaxOutput = 1
SPECIFICATION FairSpec
\* Every start may be used up and every process gone.
CHECK_DEADLOCK FALSE
INVARIANTS
  TypeOK
  NoOrphanChild
  OwnEventsOnly
  ClosedIsLast
  HeldForAReason
  TimerHitsItsOwn
PROPERTY TerminatedIsForgotten
