SPECIFICATION FairSpec
CONSTANTS
  Sessions = {s1, s2}
  Outsider = Outsider
  NoSession = NoSession
  MaxProcs = 3
  MaxOutside = 1
  MaxActions = 4
  MaxFaults = 1
  MaxCrashes = 1
CHECK_DEADLOCK FALSE
INVARIANTS LedgerTruthful LeftoversHaveCause RunningIsLive
PROPERTIES EndsOnlyItsOwn Returns
