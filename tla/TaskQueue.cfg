SPECIFICATION Spec
CONSTANTS
  p1 = p1  p2 = p2  c1 = c1  c2 = c2
  MaxTasks = 2
  TaskTypes = {"SPOTDL_DOWNLOAD", "LIBRARY_SCAN"}
  Pumps <- TwoPumps
  Clients <- OneClient
  AdminOps = {"enqueue", "cancel", "clear"}
  Priorities = {}
  MaxConcurrent = 1
  MaxHistory = 1
  MaxStreams = 0
  MaxUnits = 0
  MaxOps = 4
  MaxCrashes = 1
CHECK_DEADLOCK FALSE
SYMMETRY Symmetry
INVARIANTS PumpExclusion SlotLimit ProcessingHasWorker
