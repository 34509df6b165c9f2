SPECIFICATION FairSpec
CONSTANTS
  Keys = {k1, k2}
  Calls = {c1, c2}
  Nobody = Nobody
  MaxLabels = 1
  MaxFailures = 2
INVARIANTS EvidenceOnce LedgersTrue
PROPERTIES EventuallyDelivered
