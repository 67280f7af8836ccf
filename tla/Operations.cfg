SPECIFICATION OperationsSpec
CONSTANTS
  Parts = {"publishing", "nodes", "mcp", "codex", "projects", "frp", "dns", "editor", "homes", "ports"}
  Host = {h1}
  Tunnel = {"t1", "t2"}
  Project = {p1}
  Caller <- MCCaller
  Settings <- MCSettings
  MaxRoute = 1
  MaxRecord = 1
  MaxMishap = 1
  Machine = {1, 2}
  Reveal = {1, 2}
  MaxNodes = 3
  McpToken = {1}
  Request = {1}
  Stdio = {2}
  Asker = {1, 2}
  MaxChanges = 2
  MaxAsks = 2
  MaxCacheRevision = 3
  MaxProject = 2
  Folder = {f1, f2}
  Content = {e1}
  Requester = {c1, c2}
  MaxTunnel = 2
  Name = {9}
  frpPortStart = 1
  frpPortEnd = 1
  DnsClient = {"k1", "k2"}
  DefaultClient = "k1"
  MaxFetch = 3
  Edited = {"p1", "p2"}
  MaxLoads = 1
  HomeTask = {"t1"}
  Account = {"a", "b"}
  MaxTime = 5
  MaxTurns = 1
  Deployer = {"d1", "d2"}
  ComposeName = {"a", "b"}
  folderName <- MCFolder
  Inside <- MCInside
  Files <- MCFiles
  HostPorts = {1, 2, 3}
  PortRangeLimit = 1
  MaxComings = 3
INVARIANTS
  SuccessIsKept
  NodesSound
  McpSound
  StatusIsCurrent
  FoldersAreKept
  ShownIsServed
  DnsShowsSelected
  EditorSavesItsOwn
  CodexHomesSound
  PreflightSound
CHECK_DEADLOCK FALSE
