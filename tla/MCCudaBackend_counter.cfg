SPECIFICATION FairSpec
CONSTANTS
  W = 4
  H = 4
  Tile = 2
  FrameMod = 4
  SeedFills <- MCSeedFills
  NoiseWords <- MCNoiseWords
  Radii = {0}
  Targets <- MCTargets
  Materials = {3}
  Batches = {0, 1, 3}
  Failures = {"malloc", "upload", "run", "download"}

PROPERTY CounterMatchesGrid
