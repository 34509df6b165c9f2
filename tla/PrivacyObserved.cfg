SPECIFICATION Spec
CONSTANTS
  Accounts = {a, b}
  Nobody = Nobody
  Jobs = {j, k}
  MaxFaults = 1
INVARIANTS NothingLeft NeverTwoAudits
PROPERTIES ErasesOnlyOwn RetentionSparesUpgraded
CHECK_DEADLOCK FALSE
