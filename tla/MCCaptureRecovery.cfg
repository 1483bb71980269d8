SPECIFICATION FairSpec
CONSTANTS
  Sessions = {s1}
  Actors = {a1}
  Ports = {p1, p2}
  External = {}
  NoProxy = NoProxy
  NoActor = NoActor
  NoSession = NoSession
  MaxSpawns = 2
  MaxFaults = 3
  MaxCrashes = 0
  Racing = TRUE
  MaxExternal = 0
CHECK_DEADLOCK FALSE
INVARIANTS Recoverable ConflictHasCause
PROPERTY Returns
