SPECIFICATION ServicesSpec
CONSTANTS
  Parts = {"lock", "output", "stream", "runner", "accounts", "containers", "backups", "views", "providers"}
  Op = {p1, p2, p3}
  Key <- MCKey
  KeySets <- MCKeySets
  NoOp = NoOp
  NoKey = NoKey
  Reader = {}
  MaxItems = 5
  MaxPending = 2
  MaxLog = 4
  InOrder = FALSE
  MaxRun = 1
  MaxSeq = 4
  MaxLoads = 1
  SnapshotLimit = 2
  LoadsFail = TRUE
  MaxKeys = 20
  Runner = {r2}
  MaxTools = 2
  User = {u1, u2}
  Tx = {x1, x2}
  Password = {1}
  MaxLink = 2
  MaxVersion = 2
  Followed = FALSE
  Lister = {l1, l2}
  Action = {a1}
  MaxWorld = 2
  MaxReads = 3
  MaxRevision = 2
  Backup = {b1}
  DumpSize = 2
  MaxStops = 1
  MaxChunks = 1
  View = {"deployments"}
  FirstView = "deployments"
  MaxServed = 2
  MaxFetches = 2
  ApiProvider = {"p1"}
  ModelName = {"n1"}
  AiTask = {"t1"}
  AiRequest = {q1, q2}
  MaxModel = 2
INVARIANTS
  SuccessHasWholeLog
  NothingMissed
  EndedIsQuiet
  ShutdownWaits
  AccountsSound
  ListIsCurrent
  DumpsAreWhole
  RefreshFollowsMutation
  ProvidersSound
PROPERTIES
  ImplementsKeyedMutex
CHECK_DEADLOCK FALSE
