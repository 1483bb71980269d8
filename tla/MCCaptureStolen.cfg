SPECIFICATION Spec
CONSTANTS
  Sessions = {s1, s2}
  Actors = {a1}
  Ports = {p1}
  External = {}
  NoProxy = NoProxy
  NoActor = NoActor
  NoSession = NoSession
  MaxSpawns = 2
  MaxFaults = 1
  MaxCrashes = 0
  Racing = TRUE
  MaxExternal = 0
CHECK_DEADLOCK FALSE
PROPERTY NoForeignRelease
