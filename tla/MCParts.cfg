SPECIFICATION MCSpec
CONSTANTS
  Requests <- MCReloadRequests
  MaxServers = 2
  MaxEdits = 2
  Broken = {}
  StorePath <- MCStorePath
  Preloads = {1}
  LogCapacity = 2
  LogMaxWrite = 3
  LogMaxTotal = 4
  LogMaxWriters = 2
  LogChannel = 1
  LogInbox = 1
  LogSend = 1
  MonitorRuns = 2
  MonitorSamples = 3
  MonitorConfigs <- MCConfigs
  Peers = {1, 2, 3}
  Offers <- MCOffers
  FullNames <- MCFullNames
  ClientOf <- MCClientOf
  NoClient = "none"
  Asks <- MCAsks
  Statuses = {"200", "500"}
  Refusal = "503"
  LeftStatus = "499"
  Services = {1, 2}
  Lookups = {"l1"}
  Refreshes = {"r1", "r2"}
  MaxProbes = 2
  WolRequests = {1, 2}
  WakePosts = {2}
  MaxStreams = 2
  Dials = {1, 2}
  MaxClients = 3
  KubePods = 1
  KubeFaults = 1
  KubeAttempts = 2
  PipeCalls <- MCPipeCalls
  WebSockets = {2}
  Ignoring = {"m"}
  PipeLimit = 2
  PipePins <- MCPins
  FirstProfile = ""
  Selectors <- MCSelectors
  Spillover = 1
  LocalModel <- MCLocalModel
  PeerModel <- MCPeerModel
  RoundRobin = 6
  BodyRequests <- MCRequests
  BodyPins <- MCBodyPins
  SelectorOf <- MCSelectorOf
  RealName <- MCRealName
  UseModelName <- MCUseModelName
  Filters <- MCFilters
  Exposed = {"pub", "m", "alias"}
  Metered = {"q1", "q2", "q3"}
  CaptureSizes = {1, 2, 4}
  CaptureBytes = 3
  MaxMetrics = 2
  Monitors = 2
  AnswerKinds <- MCAnswers
  Reports <- MCReports
  MaxParts = 2
INVARIANT StreamKeepsLogs
INVARIANT PauseHolds
INVARIANT StoresOutliveServers
INVARIANT WatcherCatchesUp
INVARIANT SamplingIsSound
INVARIANT ActivityConsistent
INVARIANT PeerShutdownClean
INVARIANT ResponseIsSound
INVARIANT StoreHasLastProbe
INVARIANT PipelineIsSound
INVARIANT PlansAreBest
INVARIANT WakeIsSound
INVARIANT BackendIsOwn
INVARIANT ClientsAreRetired
INVARIANT NamesResolve
CHECK_DEADLOCK FALSE
