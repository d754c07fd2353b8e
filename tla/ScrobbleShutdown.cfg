SPECIFICATION Spec
CONSTANTS
  a1 = a1  a2 = a2
  Listens <- OneListen
  Accounts <- OneAccount
  MaxAttempts = 2
  MaxOps = 1
  MaxPolicies = 1
  MaxRestarts = 1
CHECK_DEADLOCK FALSE
SYMMETRY Symmetry
PROPERTY CancelledByChoice
