SPECIFICATION Spec
CONSTANTS
  k1 = k1
  k2 = k2
  c1 = c1
  c2 = c2
  s1 = s1
  s2 = s2
  s3 = s3
  g1 = g1
  g2 = g2
  None = None
  Calls <- MCCalls
  Conns <- MCOneConn
  Sessions <- MCSessions2
  Channels <- MCChannels
  Entry = {"screen", "login", "disconnect", "resume", "stats"}
  Faults = {"shutdown", "close"}
  Serial = TRUE
SYMMETRY Symmetry1
CHECK_DEADLOCK FALSE
INVARIANTS
  TypeOK
  GuardsInv
PROPERTIES
  SshContract
