SPECIFICATION Spec
CONSTANTS
  Accounts = {a, b}
  Nobody = Nobody
  MaxRows = 2
  MaxWrites = 0
  MaxSwitches = 1
  MaxOverlaps = 1
INVARIANTS NothingSkipped
