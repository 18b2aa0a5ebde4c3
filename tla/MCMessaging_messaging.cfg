SPECIFICATION MessagingSpec
CHECK_DEADLOCK FALSE
CONSTANTS
  MaxVersion = 3
  MaxWriteFaults = 1
  MaxCrashes = 1
  e1 = e1
  e2 = e2
  e3 = e3
  k1 = k1
  k2 = k2
  Call = {e1, e2, e3}
  KeyOf <- MCKeyOf
  Nobody = Nobody
  MaxRetries = 1
  MaxErrors = 2
  t1 = t1
  t2 = t2
  P = P
  R = R
  Turn = {t1, t2}
  SessionId = {P, R}
  ParentOf <- MCParentOf
  NoId = NoId
  NoTurn = NoTurn
  StopAll = StopAll
  MaxCancels = 2
  MaxStopAlls = 1
  MaxFailures = 1
  n1 = n1
  n2 = n2
  v1 = v1
  Note = {n1, n2}
  VoiceOf <- MCVoiceOf
  NoNote = NoNote
  Outside = Outside
  MaxCommands = 2
  q1 = q1
  q2 = q2
  c1 = c1
  c2 = c2
  Prompt = {q1, q2}
  Command = {c1, c2}
  Notice = Notice
  NoMessage = NoMessage
  MaxTroubles = 1
  ToolId <- MCToolId
  TaskLike <- MCTaskLike
  MaxEvents = 4
  MaxTasks = 2
  Limit = 2
  MaxLost = 1
VIEW MessagingView
INVARIANTS
  NothingIsForgotten
  EveryWaiterIsServed
  SessionsAreAccountedFor
  VoiceIsSettled
  CommandsAreComplete
  TurnIsShown
PROPERTIES
  ImplementsDurableStore
  EditsGoForward
