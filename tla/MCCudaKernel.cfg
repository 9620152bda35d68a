SPECIFICATION FairSpec
CONSTANTS
  W = 8
  H = 8
  Tile = 4
  BlockRows = 2
  Inputs <- MCInputs
  Words <- MCWords
  Garbage = 15
CHECK_DEADLOCK FALSE
INVARIANTS TypeOK BlockComputesPass
PROPERTY BlockFinishes
