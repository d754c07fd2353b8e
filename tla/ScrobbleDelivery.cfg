SPECIFICATION FairSpec
CONSTANTS
  a1 = a1  a2 = a2
  Listens <- TwoListens
  Accounts <- OneAccount
  MaxAttempts = 2
  MaxOps = 2
  MaxPolicies = 0
  MaxRestarts = 1
CHECK_DEADLOCK FALSE
PROPERTIES WaitingSettles
