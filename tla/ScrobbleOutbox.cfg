SPECIFICATION Spec
CONSTANTS
  a1 = a1  a2 = a2
  Listens <- TwoListens
  Accounts <- TwoAccounts
  MaxAttempts = 2
  MaxOps = 2
  MaxPolicies = 1
  MaxRestarts = 1
CHECK_DEADLOCK FALSE
SYMMETRY Symmetry
INVARIANTS OwnAccountOnly
PROPERTY OutboxContract
