\* Two chunks, one of which may be evicted, race with the exit; one reconnect.
CONSTANTS
  None = None
  Streams = {stdout}
  Conns = {c1, c2}
  First = c1
  MaxOutput = 2
SPECIFICATION Spec
\* The process may be closed, the session failed and every connection used up.
CHECK_DEADLOCK FALSE
INVARIANTS
  TypeOK
  PublishedIsPrefix
  NoSilentLoss
  NoLostDisconnect
  GapOnlyAfterEviction
PROPERTIES
  NothingAfterTheEnd
  ImplementsEventStream
