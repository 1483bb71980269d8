SPECIFICATION Spec
CONSTANTS
  Sessions = {s1}
  Actors = {a1}
  Ports = {p1, p2}
  External = {v1}
  NoProxy = NoProxy
  NoActor = NoActor
  NoSession = NoSession
  MaxSpawns = 2
  MaxFaults = 1
  MaxCrashes = 1
  Racing = FALSE
  MaxExternal = 2
SYMMETRY Symmetry
CHECK_DEADLOCK FALSE
INVARIANT SettledMeansRestored
PROPERTY NoExternalOverwrite
