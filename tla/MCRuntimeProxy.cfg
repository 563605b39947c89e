\* Three concurrent calls, two operations: failures may exceed the threshold.
CONSTANTS
  Operations = {sql, http}
  Native = {sql}
  Calls = {c1, c2, c3}
  Threshold = 2
SPECIFICATION Spec
INVARIANTS
  AlertIsTruthful
  OverloadBounded
