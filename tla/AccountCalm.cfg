SPECIFICATION Spec
CONSTANTS
  Accounts = {a, b, c}
  Nobody = Nobody
  MaxRows = 3
  MaxWrites = 3
  MaxSwitches = 4
  MaxOverlaps = 0
SYMMETRY Symmetry
INVARIANTS NothingSkipped
PROPERTIES OwnOnly UnsyncedKeptOnce
