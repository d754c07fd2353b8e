SPECIFICATION FairSpec
CONSTANTS
  p1 = p1  p2 = p2  c1 = c1  c2 = c2
  MaxTasks = 1
  TaskTypes = {"LIBRARY_SCAN"}
  Pumps <- TwoPumps
  Clients <- OneClient
  AdminOps = {"enqueue", "cancel", "pause", "resume"}
  Priorities = {}
  MaxConcurrent = 1
  MaxHistory = 1
  MaxStreams = 1
  MaxUnits = 1
  MaxOps = 4
  MaxCrashes = 0
CHECK_DEADLOCK FALSE
PROPERTIES CancelledWorkerEnds YieldingWorkerResumes
