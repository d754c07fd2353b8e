SPECIFICATION Spec
CONSTANTS
  p1 = p1  p2 = p2  c1 = c1  c2 = c2
  MaxTasks = 2
  TaskTypes = {"SPOTDL_DOWNLOAD", "SONIC_AUDIO_ANALYSIS"}
  Pumps <- TwoPumps
  Clients <- OneClient
  AdminOps = {"enqueue", "pause", "resume", "reprioritize", "close", "unregister"}
  Priorities = {300}
  MaxConcurrent = 1
  MaxHistory = 1
  MaxStreams = 1
  MaxUnits = 0
  MaxOps = 3
  MaxCrashes = 0
CHECK_DEADLOCK FALSE
SYMMETRY Symmetry
INVARIANTS SlotsAreWorking
