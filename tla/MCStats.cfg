SPECIFICATION StatsSpec
CONSTANTS
  s1 = s1
  s2 = s2
  None = None
  Streams <- MCStreams
  Mod = 16
  Limit = 1
  MaxMoved = 2
  MaxNow = 3
  MaxResets = 1
  MaxMisses = 1
SYMMETRY MCSymmetry
INVARIANTS
  StatsTypeOK
  NetTrue
  DiskTrue
  DiskListed
CHECK_DEADLOCK FALSE
