SPECIFICATION Spec
CONSTANTS
  Jobs <- MCJobs
  Services <- MCServices
  Label <- MCLabel
  MaxAttempts = 2
  MaxPolls = 1
  MaxFaults = 2
INVARIANTS
  VersionsIsolated
  LeftoversExplained
CHECK_DEADLOCK FALSE
