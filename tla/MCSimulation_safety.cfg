SPECIFICATION Spec
CONSTANTS
  W = 4
  H = 4
  Tile = 2
  FrameMod = 4
  SeedFills <- MCSeedFills
  NoiseWords <- MCNoiseWords
  Pictures <- NoPictures
  Radii <- MCRadii
  Targets <- MCTargets
  Materials = {0, 1, 2, 3, 4}
INVARIANT TypeOK
PROPERTIES MassConserved WaterQuenches WallsStand OnlySetOpensBorder SandNeverRises
