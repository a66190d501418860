SPECIFICATION Spec
CONSTANTS
  N = 3
  Kind <- OneOfEach
INVARIANT RollbackHeard
