SPECIFICATION FairLeaseSpec
CONSTANTS
  Devices = {d1, d2}
  Writers = {w1}
  Nobody = Nobody
  PageSize = 1
  MaxDraws = 3
  MaxGiveUps = 1
  MaxOverruns = 1
  MaxCrashes = 1
INVARIANTS NothingSkipped
PROPERTIES PullOutsideWrites ReleaseIsOwn NeverWedged
