SPECIFICATION Spec
CONSTANTS
  Task <- TwoTasks
  MaxAttempts <- MCMaxAttempts
  Plans <- OnePlan
  NoTask = NoTask
  MaxHosts = 2
  StoreMayFail = FALSE
  PlaneMayFail = FALSE
CHECK_DEADLOCK FALSE
INVARIANT StopResumable
