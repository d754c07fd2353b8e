SPECIFICATION Spec
CONSTANTS
  RecoverAtStartup = TRUE
  SaveAnyTime = FALSE
  MaxRestores = 2
  MaxStarts = 3
INVARIANTS ServesWholeSet RollbackPossible AsTold
CHECK_DEADLOCK FALSE
