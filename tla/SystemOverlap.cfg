SPECIFICATION SystemSpec
CONSTANTS
  f1 = f1
  f2 = f2
  h1 = h1
  h2 = h2
  w1 = w1
  w2 = w2
  NoFp = NoFp
  NoEntry = NoEntry
  Fp <- MCOneFp
  Score <- MCScoreOne
  TTL <- MCTTL
  Handler = {h1}
  Worker = {w1, w2}
  LastBucket = 2
  SearchLimit = 1
  MaxTime = 2
  Selectable = {0, 1, 3}
  MaxRequests = 2
  Faults = {"insert", "upsert", "decide"}
  PolicyEnabled = TRUE
  RefreshFaults = TRUE
  BatchLimit = 1
  Lookback = 2
  MaxCycles = 2
INVARIANTS
  SystemTypeOK
  RowThenPointThenDecision
  EntryLivesWithinItsBucket
  TrainedAsDecided
  LearnedInOrder
PROPERTIES
  ImplementsMovableEntries
CHECK_DEADLOCK FALSE
SYMMETRY Symmetric
