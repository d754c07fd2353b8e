SPECIFICATION Spec
CONSTANTS
  RecoverAtStartup = FALSE
  SaveAnyTime = TRUE
  MaxRestores = 1
  MaxStarts = 1
INVARIANTS ServesWholeSet
CHECK_DEADLOCK FALSE
