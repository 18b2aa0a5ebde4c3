SPECIFICATION BridgeSpec
CHECK_DEADLOCK FALSE
CONSTANTS
  MaxItems = 2
  MaxPieces = 2
  MaxTries = 2
INVARIANT CutShortIsNotCompleted
