SPECIFICATION Untouched
CONSTANTS
  W = 6
  H = 6
  Tile = 2
  FrameMod = 4
  SeedFills = {}
  NoiseWords <- MCNoiseWords
  Pictures <- MCPictures
  Radii <- MCRadii
  Targets = {}
  Materials = {0, 1, 2}
PROPERTIES SandSettles SandRests WaterComesDown
