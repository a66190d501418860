SPECIFICATION Spec
CONSTANTS
  Req = {r1, r2}
  MayCancel = {r2}
  Host = {h1, h2}
  Mortal = {h1}
  Silent = {h1}
  Nobody = Nobody
CHECK_DEADLOCK FALSE
INVARIANT HeldInHand
INVARIANT NeverIdle
PROPERTY AnswerStands
PROPERTY QueuedNotLost
PROPERTY ImplementsBoard
PROPERTY Answers
PROPERTY CancelAnswered
