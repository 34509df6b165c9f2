SPECIFICATION Spec
CONSTANTS
  e1 = e1
  r1 = r1
  Events = {e1}
  Recs = {r1}
  Slots = {1, 2}
  Meetings = {1}
  Planned = {1}
  None = None
  Racing = TRUE
  Impatient = FALSE
  FailingJobs = {"sweep"}
  MaxJobs = 2
  MaxTrouble = 2
INVARIANT DisconnectForgets
CHECK_DEADLOCK FALSE
