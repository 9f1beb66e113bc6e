SPECIFICATION Spec
CONSTANTS
  t1 = t1
  t2 = t2
  Nobody = Nobody
  None = None
  Caller <- MCCaller
  Request <- MCRequest
  Similar <- MCSimilar
  InboundKeys <- MCKeys
  MaxConnections = 1
  MaxChunks = 2
  MaxRequests = 4
INVARIANT
  RelayedWithoutBuffering
CHECK_DEADLOCK FALSE
