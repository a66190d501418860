SPECIFICATION FairSpec
CONSTANTS
  Proc = {p1, p2}
  Ghost = {g1, g2}
  Nobody = Nobody
  MaxTries = 3
INVARIANTS LockInv SingleInstanceUnlessOrphaned
PROPERTIES NeverSteals Decides RecoversAlone
CHECK_DEADLOCK FALSE
