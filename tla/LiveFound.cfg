SPECIFICATION SystemSpec
CONSTANTS
  f1 = f1
  f2 = f2
  h1 = h1
  h2 = h2
  w1 = w1
  w2 = w2
  NoFp = NoFp
  NoEntry = NoEntry
  Fp <- MCOneFp
  Score <- MCScoreOne
  TTL <- MCTTL
  Handler = {h1}
  Worker = {w1}
  LastBucket = 2
  SearchLimit = 1
  MaxTime = 3
  Selectable = {0}
  MaxRequests = 1
  Faults = {}
  PolicyEnabled = TRUE
  RefreshFaults = FALSE
  BatchLimit = 1
  Lookback = 2
  MaxCycles = 1
INVARIANTS
  LiveEntriesAreFound
CHECK_DEADLOCK FALSE
