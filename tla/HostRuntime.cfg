SPECIFICATION FairSpec
CONSTANT MaxVersion = 2
CHECK_DEADLOCK FALSE
INVARIANT StatusTrue
INVARIANT LockCoversWork
INVARIANT ExceptionExitsNonZero
PROPERTY SnapshotsInOrder
PROPERTY Stops
PROPERTY Serves
PROPERTY LastSnapshotShown
