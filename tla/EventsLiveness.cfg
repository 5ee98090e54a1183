\* Exited and Closed across up to two recoveries, a candidate dying in the first.
CONSTANTS
  None = None
  Streams = {stdout}
  Conns = {c1, c2, c3}
  First = c1
  MaxOutput = 0
SPECIFICATION FairSpec
\* The process may be closed, the session failed and every connection used up.
CHECK_DEADLOCK FALSE
PROPERTIES
  CatchesUp
