SPECIFICATION FairSpec
CONSTANTS
  Task <- MCTask
  MaxAttempts <- MCMaxAttempts
  Plans <- MCPlans
  NoTask = NoTask
  MaxHosts = 3
  StoreMayFail = FALSE
  PlaneMayFail = FALSE
CHECK_DEADLOCK FALSE
INVARIANT RetriesBounded
INVARIANT PlanRespected
PROPERTY RunSettles
PROPERTY CancelTakesEffect
