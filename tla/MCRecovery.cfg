\* One operation over HTTP, two calls at a time.
CONSTANTS
  Operations = {http}
  Native = {}
  Calls = {c1, c2}
  Threshold = 2
SPECIFICATION RecoverySpec
PROPERTY RecoveryResets
CHECK_DEADLOCK FALSE
