SPECIFICATION FairSpec
CONSTANTS
  NumVersions = 4
  Requests = {r1, r2}
  Regimes <- MCRegimes
INVARIANTS
  OneActive
  CompensationRestores
  RollbackTruthful
  ReconcileHeals
PROPERTIES
  RequestsEnd
CHECK_DEADLOCK FALSE
