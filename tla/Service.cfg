SPECIFICATION Spec
CONSTANTS
  Devices = {d1, d2}
  Contents = {k1, k2}
  SaveIds = {i1, i2}
  Savers = {c1, c2}
  PoolSize = 2
  Budget = 1
  MaxDevices = 1
  MaxNamed = 1
  MaxSequence = 2
  MaxRequests = 3
  MaxJobs = 1
  Users = {u1}
  Containers = {k1}
  Clients = {c1, c2}
  MaxPending = 2
  MaxPendingPerUser = 2
  MaxOps = 3
  MaxTaskCancels = 1
  MaxCrashes = 1
  Accounts = {1, 2}
  Master = 1
  Sessions = {s1, s2}
  Askers = {q1, q2}
  MaxFields = 1
  MaxLapses = 1
  Callers = {r1, r2}
  Updaters = {a1}
  MaxUpdates = 3
INVARIANTS
  ServiceTypeOK
  AccountWithinLimits
  OnePlaylistPerSave
  InFlightHasWorker
  ReadyWasFilled
  MasterAdminStays
  WorkKeepsPermit
PROPERTIES
  DeviceNeverGoesBack
  QueueRequestsEnd
  InFlightSettles
  DeadStreamEnds
  UpdatesEnd
CHECK_DEADLOCK FALSE
