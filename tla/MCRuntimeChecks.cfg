SPECIFICATION RuntimeSpec
CONSTANTS
  Parts = {"scenario", "correlation", "webview", "storage", "ipc"}
  Screens <- MCScreens
  Profiles <- MCProfiles
  Components <- MCComponents
  AnyActivity = "any"
  NoSelector = NoSelector
  NoPlan = NoPlan
  NoNode <- MCNoNode
  ActivationQuota = 4
  LastStep = 2
  Pids = {1, 2}
  MaxTime = 2
  MaxEvents = 2
  WebViews = {w1, w2}
  Interfaces = {i1}
  Handlers = {h1}
  MaxErrors = 1
  Storages <- MCStorages
  MaxEntries = 3
  MaxProbes = 2
  MaxFile = 2
  MaxTotal = 3
  MaxWrites = 2
  Manifests <- MCManifests
  TotalQuota = 3
  TypeQuota <- MCTypeQuota
  MaxMoves = 2
CHECK_DEADLOCK FALSE
INVARIANTS ScenarioTruthful EventsPlaced ReplayTrue ReportCovers CallsConfirmed
PROPERTY RunEnds
