SPECIFICATION QueriesSpec
CONSTANTS
  Nothing = Nothing
  MaxResults = 2
  MaxSample = 3
  TopCount = 2
  Inputs <- MCInputs
INVARIANTS
  InstalledAgree
  DescriptionWhole
  UptimeTold
  UnmarkedTold
  TopSelected
  HopsTold
