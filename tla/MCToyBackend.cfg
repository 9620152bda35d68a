SPECIFICATION Spec
CONSTANTS
  W = 6
  H = 18
  Tile = 6
  FrameMod = 4
  VecBytes = 6
  MemSize = 108
  WordBits = 15
  AddrMod = 196608
  Junk <- MCJunk
  Programs <- MCPrograms
  Images = {}
  Budgets = {97, 1000}
  SeedFills <- MCSeedFills
  NoiseWords <- MCNoiseWords
  Radii = {20}
  Targets <- MCTargets
  Materials = {0}
PROPERTY Implements
