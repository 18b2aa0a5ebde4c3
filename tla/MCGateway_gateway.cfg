SPECIFICATION GatewaySpec
CHECK_DEADLOCK FALSE
CONSTANTS
  p1 = p1
  p2 = p2
  Server = {p1, p2}
  NoServer = NoServer
  MaxCredentials = 3
  MaxCalls = 3
  NumTools = 2
  KindOf <- MCKindOf
  MaxAttempts = 3
  MaxChunks = 2
  Unset = Unset
  MaxSaves = 2
  MaxRestarts = 2
  MaxStepFaults = 2
  MaxBlock = 27
  MaxDepth = 2
  MaxCut = 3
  MaxItems = 2
  MaxPieces = 2
  MaxTries = 2
  MaxEntries = 5
  s1 = s1
  s2 = s2
  Sender = {s1, s2}
  NumKeys = 2
  Quota = 3
  MaxSends = 3
  Asked = 2
  NoCap = NoCap
  MaxLogins = 2
  MaxOperations = 4
  z1 = z1
  z2 = z2
  opus = opus
  plain = plain
  Catalog = {z1, z2}
  NumEndpoints = 2
  ModelId = {opus, plain}
  NoProvider = NoProvider
  Tiers = {"opus"}
  TierIn <- MCTierIn
  Savable <- MCSavable
  MaxKnown = 1
VIEW GatewayView
INVARIANTS
  ClientSeesLedger
  RunningIsEffective
  LifecycleIsOrdered
  CallsAreTheModels
  ResponseIsWhole
  HistoryIsKept
  ReasoningIsReplayed
  RequestsAdapt
  LoginsAreSettled
  NamesAreHonoured
PROPERTIES
  GoodTokenSurvives
