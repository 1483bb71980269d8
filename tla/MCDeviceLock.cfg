SPECIFICATION FairSpec
CONSTANTS
  cli = cli
  worker = worker
  page = page
  Threads <- MCThreads
  Probes <- MCProbes
  Processes <- MCProcesses
  Sessions = {s1, s2}
  NoSession = NoSession
  NoThread = NoThread
  Gone = Gone
  MaxNesting = 3
  MaxCrashes = 2
INVARIANTS LockHolds MetadataNamesHolder
PROPERTIES NoEndlessWait ImplementsMutex
