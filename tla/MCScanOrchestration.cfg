SPECIFICATION Spec
CONSTANTS
  Sessions = {s1, s2}
  Threads = {t1, t2}
  NoThread = NoThread
  NoSession = NoSession
  MaxScans = 2
  MaxOthers = 1
  MaxMishaps = 1
SYMMETRY Symmetry
CHECK_DEADLOCK FALSE
INVARIANTS FilesTruthful ScanOwnsDevice GuardedExploration
