SPECIFICATION LifecycleSpec
CONSTANTS
  m = m
  c1 = c1
  c2 = c2
  NoCaller = NoCaller
  Caller = {m, c1, c2}
  Main = m
INVARIANTS
  LifecycleInv
  WakeupsAreKept
  CachedMeansReady
  DegradedHoldsNothing
  ExitReleasesAll
PROPERTIES
  EarlyCoroutinesEnd
  StartEnds
  ExitEnds
CHECK_DEADLOCK FALSE
