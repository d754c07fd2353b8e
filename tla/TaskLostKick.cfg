SPECIFICATION FairSpec
CONSTANTS
  p1 = p1  p2 = p2  c1 = c1  c2 = c2
  MaxTasks = 2
  TaskTypes = {"LIBRARY_SCAN"}
  Pumps <- TwoPumps
  Clients <- OneClient
  AdminOps = {"enqueue"}
  Priorities = {}
  MaxConcurrent = 2
  MaxHistory = 2
  MaxStreams = 0
  MaxUnits = 0
  MaxOps = 2
  MaxCrashes = 0
CHECK_DEADLOCK FALSE
PROPERTY QueuedTaskStarts
