SPECIFICATION SessionFairSpec
CONSTANTS
  Transports <- MCTransports
  MaxMessages = 2
  IdleTimeouts = {1, 3}
  ReadTimeout = 2
  OverallTimeout = 4
  CallTimeout = 2
  MaxItems = 4
INVARIANTS
  SessionTruthful
PROPERTY SessionsEnd
CHECK_DEADLOCK FALSE
