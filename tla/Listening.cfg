SPECIFICATION Spec
CONSTANTS
  Players = {p1, p2}
  MaxConns = 3
  MaxAsks = 1
  MaxChanges = 1
  MaxLosses = 1
  Media = {m1}
  Reporters = {r1, r2}
  Ttl = 1
  Drift = 1
  MaxNow = 2
  Members = {u1}
  Hosts = {h1}
  Callers = {c1, c2}
  Keys = {1, 2}
  MaxLinks = 1
  MaxActiveLinks = 1
  MaxPendingTotal = 1
  MaxPendingOwn = 1
  MaxRevision = 2
  MaxParties = 1
  MaxTroubles = 1
  EntryIds = {1, 2, 3, 4}
  Tracks = 3
  Manager = manager
  Collaborators = {}
  MaxEntries = 3
  MaxRetained = 2
  Retention = 1
  InitialOrders <- MixedOrder
  MaxEdits = 3
  MaxTime = 1
  FolderIds = {1, 2, 3}
  Lists = {1, 2, 3}
  MaxDepth = 2
  Shift = 3
  MaxPosition = 4
  Artists = {a1}
  Scanners = {n1, n2}
  LeaseTime = 1
  CheckEvery = 2
  BackoffBase = 1
  BackoffCap = 2
  StorePause = 2
  KeepTime = 2
  MaxFollows = 1
  MaxFailures = 1
  MaxScanTime = 6
  MaxMishaps = 1
  Requests = {q1, q2}
  Spacing = 2
  Patience = 2
  Pauses = {3, 4}
  MaxClock = 4
INVARIANTS
  ListeningTypeOK
  OnePlayerAudible
  HubRefersToClients
  OldSharingIsOver
  PartyQueueWithinLimits
  FinishedStaysFinished
  FoldersFormTree
  StoreLeftAlone
PROPERTIES
  BookmarkMovesForward
  UndoRestores
  OthersKeepOrder
  TransferEnds
  ScansKeepApart
CHECK_DEADLOCK FALSE
