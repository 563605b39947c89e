SPECIFICATION Spec
CONSTANTS
  Tokens = {pat}
  Policies = {policy}
  NumContents = 2
  Requests = {r1, r2, r3}
  Regimes <- MCRegimes
INVARIANTS
  RevokedIsGone
  BindingsFollowRows
  ReconcileHeals
CHECK_DEADLOCK FALSE
