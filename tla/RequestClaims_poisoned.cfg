SPECIFICATION Safety
CONSTANTS
  Req = {r1, r2}
  MayCancel = {r2}
  Host = {h1}
  Mortal = {}
  Silent = {}
  Nobody = Nobody
CHECK_DEADLOCK FALSE
PROPERTY PoisonedNeverDispatched
