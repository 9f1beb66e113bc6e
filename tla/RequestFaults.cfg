SPECIFICATION RPSpec
CONSTANTS
  f1 = f1
  f2 = f2
  h1 = h1
  h2 = h2
  NoFp = NoFp
  Fp <- MCFp
  Score <- MCScore
  TTL <- MCTTL
  Handler = {h1, h2}
  LastBucket = 1
  SearchLimit = 2
  MaxTime = 2
  Selectable = {0, 1, 2}
  MaxRequests = 3
  Faults = {"search", "check", "mark", "reread", "logHit", "logStale", "select", "backend", "stamp", "insert", "upsert", "reload", "decide", "crash"}
INVARIANTS
  RPInv
  RPTypeOK
  PointMatchesRow
  DecisionMatchesEntry
  ServedHitWasLive
  StoredMeansRetrievable
  ServedHitsAreCounted
PROPERTIES
  FirstRowStays
  OrphansStay
  ImplementsEntryLifecycle
CHECK_DEADLOCK FALSE
SYMMETRY Symmetric
