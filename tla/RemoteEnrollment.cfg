CONSTANTS
  None = None
  ws = ws
  Calls = {c}
  Accounts = {a, b}
  MaxServers = 3
  MaxLogins = 1
SPECIFICATION FairSpec
INVARIANTS
  LocksInOrder
PROPERTIES
  NoNeedlessEnrollment
  AdoptedOnlyWhenEnabled
  DisabledIsObeyed
