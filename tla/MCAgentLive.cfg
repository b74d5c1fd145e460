SPECIFICATION FairSpec
CONSTANTS
  c1 = c1
  c2 = c2
  None = None
  Calls <- MCCalls
  Asked <- MCAskedLive
  PipeCap = 1
  MaxLines = 0
  Outputs <- MCOutputsLive
  PortCount = 1
PROPERTIES
  LeaverNoticed
  StopCompletes
  LocksFreed
CHECK_DEADLOCK FALSE
