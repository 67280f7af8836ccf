SPECIFICATION FairServicesSpec
CONSTANTS
  Parts = {"stream"}
  Op = {p1, p2, p3}
  Key <- MCKey
  KeySets <- MCKeySets
  NoOp = NoOp
  NoKey = NoKey
  Reader = {r1}
  MaxItems = 1
  MaxPending = 2
  MaxLog = 3
  InOrder = TRUE
  MaxRun = 1
  MaxSeq = 3
  MaxLoads = 1
  SnapshotLimit = 2
  LoadsFail = FALSE
  MaxKeys = 20
  Runner = {r2}
  MaxTools = 2
  User = {u1}
  Tx = {x1}
  Password = {1}
  MaxLink = 1
  MaxVersion = 2
  Followed = TRUE
  Lister = {l1}
  Action = {a1}
  MaxWorld = 1
  MaxReads = 2
  MaxRevision = 1
  Backup = {b1}
  DumpSize = 2
  MaxStops = 1
  MaxChunks = 2
  View = {"deployments"}
  FirstView = "deployments"
  MaxServed = 2
  MaxFetches = 2
  ApiProvider = {"p1"}
  ModelName = {"n1"}
  AiTask = {"t1"}
  AiRequest = {q1}
  MaxModel = 1
PROPERTY WindowSeesEnd
CHECK_DEADLOCK FALSE
