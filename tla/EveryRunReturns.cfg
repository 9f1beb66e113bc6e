SPECIFICATION RunnerSpec
CONSTANTS
  c1 = c1
  c2 = c2
  NoCaller = NoCaller
  Caller = {c1}
PROPERTIES
  EveryRunReturns
CHECK_DEADLOCK FALSE
