\* Two executions of one job, one crash or store failure.
CONSTANTS
  Deliveries <- MCDeliveries
  MaxAttempts = 2
  RollbackEnabled <- MCRollbackEnabled
  Effectful <- MCEffectful
  Handled <- MCHandled
  Restoring <- MCRestoring
  Requires <- MCRequires
  Once <- MCOnce
  Requests <- MCRequests
  d1 = d1
  d2 = d2
  NumStages = 2
  MaxCrashes = 1
SPECIFICATION FairSpec
INVARIANTS
  SucceededComplete
  AttemptsLogged
PROPERTY AcceptedEnds
CHECK_DEADLOCK FALSE
