SPECIFICATION FairSpec
CONSTANTS
  Operations = {"job", "sse", "sql"}
  Kind <- MCKind
  Calls = {c1, c2}
  None = None
  Threshold = 1
  Timeout = 2
  Margin = 1
  Lifetimes = {0, 3, 4}
  Forever = 4
  JobTimeout = 1
  Interval = 1
  SessionTime = 1
PROPERTIES
  ImplementsProxy
  TokenCacheSound
  CallsEnd
CHECK_DEADLOCK FALSE
