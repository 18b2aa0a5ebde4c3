SPECIFICATION ServiceSpec
CHECK_DEADLOCK FALSE
CONSTANTS
  None = None
  Startup = Startup
  r1 = r1
  o1 = o1
  p1 = p1
  a1 = a1
  Requests = {r1}
  AdminOps = {o1}
  Configurable = {p1}
  Accounts = {}
  MaxGenerations = 2
  MaxCloseCalls = 1
  MaxFaults = 1
INVARIANT
  CompletionIsRecorded
