SPECIFICATION Spec
CONSTANTS
  c1 = c1
  c2 = c2
  None = None
  Calls <- MCCalls
  Asked <- MCAsked
  PipeCap = 1
  MaxLines = 1
  Outputs <- MCOutputs
  PortCount = 2
SYMMETRY MCSymmetry
INVARIANTS
  AgentTypeOK
  NoStrayChild
  UpgradeTold
  ResultTold
  BrokenOnlyByLeaver
PROPERTIES
  AgentKeepsPromise
CHECK_DEADLOCK FALSE
