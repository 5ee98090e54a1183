CONSTANTS
  None = None
  Writes = {a, b}
  Terminate = terminate
  Cap = 1
  Room = 1
  MaxLinks = 2
SPECIFICATION FairSpec
\* Every call may have returned.
CHECK_DEADLOCK FALSE
INVARIANTS
  TypeOK
  DuplicateOnlyBeyondCap
  AcceptedMeansDelivered
PROPERTY RequestsReturn
