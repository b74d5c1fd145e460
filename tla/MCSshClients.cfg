SPECIFICATION ClientsFairSpec
CONSTANTS
  k1 = k1
  k2 = k2
  c1 = c1
  c2 = c2
  s1 = s1
  s2 = s2
  s3 = s3
  None = None
  Callers <- MCCallers
  Conns <- MCConns
  Sessions <- MCSessions
  CanThrow = TRUE
INVARIANTS
  ClientsTypeOK
  ConnectedHasClient
  BoundHoldsPort
  PingCancelsOwn
PROPERTIES
  NoOrphanTimer
