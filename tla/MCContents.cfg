SPECIFICATION Spec
CONSTANTS
  Jobs <- MCJobs
  Sites <- MCSites
  ParamOf <- MCParamOf
  Templates <- MCTemplates
  Text <- MCText
  Common <- MCCommon
  Seeds <- MCSeeds
  Values <- MCValues
  CallTokens <- MCCallTokens
  ParamLists <- MCParamLists
  MaxPages = 6
  MaxPasses = 2
  MaxLost = 1
  BatchSize = 2
  Concurrency = 2
  TokenBudget = 2
INVARIANTS
  DetectedExtracts
  MethodsReachable
  BudgetBounded
  ListedToolsCallable
  SmokeHarmless
  ArgumentsSentOnce
  AnswersTruthful
  ReferencesListed
CHECK_DEADLOCK FALSE
