\* Two executions append three events each; an append tries twice.
CONSTANTS
  Writers = {w1, w2}
  MaxRetries = 2
  MaxEvents = 3
SPECIFICATION StreamFairSpec
INVARIANTS
  SequenceGapless
  NothingBehindCursor
PROPERTY StreamCloses
CHECK_DEADLOCK FALSE
