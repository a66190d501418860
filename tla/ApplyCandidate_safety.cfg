SPECIFICATION Spec
CONSTANTS
  N = 3
  Kind <- OneOfEach
INVARIANTS AppliedIsOnDisk RollbackTold
PROPERTIES OnlyKnownBytes AppliedOnce
