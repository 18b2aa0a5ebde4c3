\* Whether opaque details come back with the message they belong to.
SPECIFICATION HistorySpec
CHECK_DEADLOCK FALSE
CONSTANT
  MaxEntries = 4
INVARIANT DetailsReachTheirMessage
