CONSTANTS
  p = p
  q = q
  r1 = r1
  u = u
  o = o
  x = x
  l = l
  None = None
  Torn = Torn
  Procs = {p, q}
  Tasks = {r1, u, o, x, l}
  Accounts = {a, b}
  Proc <- ProcOf
  Call <- CallOf
  MaxIssued = 3
SPECIFICATION Spec
INVARIANTS
  TypeOK
  FailureIsAboutTheCache
  OneRefreshAtATime
  ReuseOnlyAfterMishap
