SPECIFICATION ExplorerFairSpec
CONSTANTS
  Screens = {"home", "other"}
  NoScreen = "noscreen"
  Nodes <- MCNodes
  Targets = {"activity", "link", "foreign"}
  Links = {"link", "foreign"}
  Refused = {"foreign"}
  Activity <- MCActivity
  NoTarget = "none"
  NoNode = "nonode"
  Canary = TRUE
  MaxActions = 5
  MaxStates = 2
  MaxDepth = 1
  MaxFailures = 2
  MaxTime = 3
CHECK_DEADLOCK FALSE
INVARIANTS LimitsHold NoBlindAction ResultTruthful
PROPERTY Ends
