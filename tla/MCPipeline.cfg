\* All nine stages, one execution, one crash or store failure, two retries.
CONSTANTS
  d1 = d1
  Deliveries <- MCDeliveries
  NumStages = 9
  MaxAttempts = 1
  RollbackEnabled <- MCRollbackEnabled
  Effectful <- MCEffectful
  Handled <- MCHandled
  Restoring <- MCRestoring
  Requires <- MCRequires
  Once <- MCOnce
  Requests <- MCRequests
  MaxCrashes = 1
  MaxRetryJobs = 2
SPECIFICATION LineageSpec
INVARIANTS
  SucceededServes
  RolledBackUndone
  FailedResumable
  NoStageSkipped
PROPERTY FollowsLifecycle
CHECK_DEADLOCK FALSE
