SPECIFICATION FairSpec
CONSTANTS
  W = 6
  H = 4
  Tile = 2
  FrameMod = 4
  NoiseWords <- MCNoiseWords
  SeedFills <- MCSeedFills
  Radii = {1, 2}
  Targets = {}
  Materials = {2, 3}
  HasAvx2 = TRUE
  CudaBuild = TRUE
  Started = {"native", "web", "benchmark"}
  Keys = {"up", "right", "esc", "3", "e", " ", "p", "c", "s", "+", "-", "x", "o"}
  StartBrush = 1
  MaxBrush = 2
  MaxPresses = 2
  PageBrush = 1
  Points <- MCPoints
  MaxInputs = 3
  WarmUp = 1
  Steps = 2
  FireDepth = 2
  FireRadius = 1
INVARIANTS TypeOK EmitterPaints BackendsAgree MeasuredFromSeed BackendNotesExpire
PROPERTIES WorldsAreSimulated KeysUnderstood QuitEnds StrokeConnected OnlyHeldPointersPaint CanvasIsCurrent
CHECK_DEADLOCK FALSE
