SPECIFICATION Spec
CONSTANTS
  Tasks = {t1}
  DayTicks = 3
  Evening = 2
  ClosedDays = {}
  RateLimit = 2
  Arm = "A"
  Earlier = 1
  MaxTime = 4
  MaxRequests = 2
  MaxLosses = 1
INVARIANTS DeferredStayOut
PROPERTIES ShownLogged
