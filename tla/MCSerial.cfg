SPECIFICATION FairSpec
CONSTANTS
  k1 = k1
  k2 = k2
  c1 = c1
  c2 = c2
  s1 = s1
  s2 = s2
  s3 = s3
  g1 = g1
  g2 = g2
  None = None
  Calls <- MCCalls
  Conns <- MCConns
  Sessions <- MCSessions2
  Channels <- MCChannels
  Entry = {"screen", "disconnect", "stats"}
  Faults = {}
  Serial = TRUE
CHECK_DEADLOCK FALSE
INVARIANTS
  Released
  Usable
  SerialInv
  GuardsAgree
PROPERTIES
  CallsSettle
  PromiseKept
