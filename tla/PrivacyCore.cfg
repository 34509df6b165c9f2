SPECIFICATION Spec
CONSTANTS
  Accounts = {a, b}
  Nobody = Nobody
  Jobs = {j, k}
  MaxFaults = 2
SYMMETRY Symmetry
INVARIANTS ErasureProven ForgottenUnlessLate
PROPERTIES ForgetsOnlyErased
CHECK_DEADLOCK FALSE
