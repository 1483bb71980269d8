SPECIFICATION RecordsSpec
CONSTANTS
  Policies <- MCPolicies
  Apks <- MCApks
  LastRegister = 1
  Constants = {weak, strong}
  Weak = {weak}
  Unknown = Unknown
  MaxUnits = 5
  MaxInvocations = 3
  MaxMethods = 2
  MaxSize = 4
  Collections <- MCCollections
  MaxApks = 2
  MaxEntries = 4
  MaxBytes = 5
  MaxEntryBytes = 4
  MaxRatio = 3
  MaxDexFiles = 2
  MaxEmbedded = 1
  Evidence <- MCEvidence
  Later <- MCLater
  MaxAttempts = 2
  MaxGathered = 1
  Threads = {t1, t2}
  NoThread = NoThread
  Files = {e1, e2}
  Marks = {m1, m2}
  NoEntry = NoEntry
  MaxVersion = 2
  MaxCalls = 3
  MaxStoreFaults = 2
  Fingerprints = {f1, f2, f3}
  Target = f1
  NoCertificate = NoCertificate
  MaxCaFaults = 3
  MaxCaChanges = 3
  MaxCaLosses = 1
CHECK_DEADLOCK FALSE
INVARIANTS CandidateSurvivesGate
