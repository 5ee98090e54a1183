CONSTANTS
  Keys = {a, b}
  Capacity = 2
  MaxSegments = 2
  MaxEvents = 2
  MaxBreaks = 2
SPECIFICATION FairSpec
\* Everything may have been sent and acknowledged.
CHECK_DEADLOCK FALSE
INVARIANTS
  BufferAccounted
PROPERTIES
  ImplementsReliableStream
  EverythingArrives
