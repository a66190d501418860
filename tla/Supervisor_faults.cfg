SPECIFICATION Spec
CONSTANTS
  Task <- TwoTasks
  MaxAttempts <- MCMaxAttempts
  Plans <- TwoPlans
  NoTask = NoTask
  MaxHosts = 2
  StoreMayFail = TRUE
  PlaneMayFail = TRUE
CHECK_DEADLOCK FALSE
INVARIANT ExecutesOnlyRunning
INVARIANT PassedForReal
INVARIANT FailedForCause
INVARIANT CancelWins
PROPERTY GateHolds
PROPERTY ImplementsLifecycle
