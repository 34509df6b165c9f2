SPECIFICATION Spec
CONSTANTS
  Accounts = {a, b}
  Nobody = Nobody
  MaxRows = 1
  MaxWrites = 1
  MaxSwitches = 2
  MaxOverlaps = 0
PROPERTIES UnsyncedKept
