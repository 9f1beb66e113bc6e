SPECIFICATION RPSpec
CONSTANTS
  f1 = f1
  f2 = f2
  h1 = h1
  h2 = h2
  NoFp = NoFp
  Fp <- MCFp
  Score <- MCScore
  TTL <- MCTTL
  Handler = {h1}
  LastBucket = 1
  SearchLimit = 2
  MaxTime = 2
  Selectable = {0}
  MaxRequests = 2
  Faults = {}
INVARIANTS
  MissIsPersisted
CHECK_DEADLOCK FALSE
