SPECIFICATION Spec
CONSTANTS
  Sessions = {s1, s2}
  Actors = {a1, a2}
  Ports = {p1, p2}
  External = {}
  NoProxy = NoProxy
  NoActor = NoActor
  NoSession = NoSession
  MaxSpawns = 2
  MaxFaults = 1
  MaxCrashes = 1
  Racing = TRUE
  MaxExternal = 0
SYMMETRY Symmetry
CHECK_DEADLOCK FALSE
INVARIANTS NothingUnrecorded OneOwner RunningIsLive
PROPERTY ReactivatedOwesNothing
