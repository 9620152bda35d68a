SPECIFICATION Spec
CONSTANTS
  W = 4
  H = 4
  Tile = 2
  FrameMod = 4
  SeedFills <- MCSeedFills
  NoiseWords <- MCNoiseWords
  Radii = {0}
  Targets <- MCTargets
  Materials = {3}
INVARIANT RotationKeepsRows
PROPERTY Implements
