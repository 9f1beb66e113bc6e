SPECIFICATION SystemSpec
CONSTANTS
  f1 = f1
  f2 = f2
  h1 = h1
  h2 = h2
  w1 = w1
  w2 = w2
  NoFp = NoFp
  NoEntry = NoEntry
  Fp <- MCTwoFp
  Score <- MCScoreTwo
  TTL <- MCTTL
  Handler = {h1}
  Worker = {w1}
  LastBucket = 2
  SearchLimit = 2
  MaxTime = 1
  Selectable = {0, 1}
  MaxRequests = 2
  Faults = {"search", "check", "mark", "reread", "logHit", "logStale", "select", "backend", "stamp", "insert", "upsert", "reload", "decide", "crash"}
  PolicyEnabled = TRUE
  RefreshFaults = TRUE
  BatchLimit = 2
  Lookback = 2
  MaxCycles = 1
PROPERTIES
  EveryRequestIsAnswered
  EveryCycleEnds
CHECK_DEADLOCK FALSE
