SPECIFICATION Spec
CONSTANTS
  Keys = {k1, k2}
  Calls = {c1, c2}
  Nobody = Nobody
  MaxLabels = 0
  MaxFailures = 2
INVARIANTS NothingLost
