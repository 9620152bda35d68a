SPECIFICATION FairMachineSpec
CONSTANTS
  W = 12
  H = 18
  Tile = 6
  VecBytes = 6
  MemSize = 216
  WordBits = 15
  AddrMod = 196608
  Junk <- MCJunk
  Programs <- MCPrograms
  Images <- MCImages
  Budgets = {600}
CHECK_DEADLOCK FALSE
INVARIANTS TypeOK CyclesAccounted ClassesAddUp KernelIsGravity
PROPERTIES SrcUntouched KernelReadsSrcOnly RunEnds
