SPECIFICATION FairServiceSpec
CHECK_DEADLOCK FALSE
CONSTANTS
  None = None
  Startup = Startup
  r1 = r1
  o1 = o1
  p1 = p1
  a1 = a1
  Requests = {r1}
  AdminOps = {o1}
  Configurable = {}
  Accounts = {a1}
  MaxGenerations = 2
  MaxCloseCalls = 2
  MaxFaults = 1
INVARIANTS
  NeverClosedInUse
  EveryGenerationIsOwned
  RecordedOnce
PROPERTIES
  RetiredIsFinal
  RetiredCloses
  ShutdownEnds
