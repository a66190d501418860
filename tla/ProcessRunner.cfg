SPECIFICATION FairSpec
CONSTANTS
  Depth = 3
  MaxWaits = 4
INVARIANTS CauseKept KilledBeforeSettled SurvivorsTold
PROPERTIES NothingAfterSettle Settles
CHECK_DEADLOCK FALSE
