SPECIFICATION FairSpec
CONSTANTS
  Blocks = {5, 7}
  Muted = {}
  Offered = {0}
  Cap = 2
  Lead = 1
  MinLead = 2
  DayLength = 7
  RitualTimes = {2, 4}
  Slots = {8}
  None = None
  MaxTime = 7
  MaxEdits = 1
INVARIANTS FiresSparingly
PROPERTIES EventuallyAgrees
CHECK_DEADLOCK FALSE
