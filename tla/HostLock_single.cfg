SPECIFICATION Spec
CONSTANTS
  Proc = {p1, p2}
  Ghost = {g1, g2}
  Nobody = Nobody
  MaxTries = 3
SYMMETRY Symmetry
INVARIANT SingleInstance
CHECK_DEADLOCK FALSE
