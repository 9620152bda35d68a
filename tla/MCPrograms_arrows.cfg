SPECIFICATION Spec
CONSTANTS
  W = 6
  H = 4
  Tile = 2
  FrameMod = 4
  NoiseWords <- MCNoiseWords
  SeedFills <- MCSeedFills
  Radii = {1, 2}
  Targets = {}
  Materials = {2, 3}
  HasAvx2 = FALSE
  CudaBuild = FALSE
  Started = {"native"}
  Keys = {"up", "right", "esc", "e", "x"}
  StartBrush = 1
  MaxBrush = 2
  MaxPresses = 2
  PageBrush = 1
  Points <- MCPoints
  MaxInputs = 1
  WarmUp = 1
  Steps = 2
  FireDepth = 2
  FireRadius = 1
PROPERTY ArrowsOnlyMove
CHECK_DEADLOCK FALSE
