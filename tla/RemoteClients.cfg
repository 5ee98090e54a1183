CONSTANTS
  None = None
  Clients = {c, d}
  c = c
  d = d
  s = s
  t = t
  Streams = {s, t}
  Sends <- SendsDef
  LegacyStreams = {l}
  AssemblyCap = 1
  QueueCap = 1
  MaxLog = 4
  MaxConns = 2
  MaxBreaks = 1
SPECIFICATION Spec
INVARIANTS
  TypeOK
  ConnectionOrder
  NoLeakedConnection
  NoLossUpToCursor
