------------------------------ MODULE ToyKernel ------------------------------
(***************************************************************************)
(* The compiler's kernels on the machine: the SRC region is a grid in      *)
(* tiled layout, DST is whatever an earlier pass left there.               *)
(***************************************************************************)
EXTENDS ToyCompiler, ToyMachine

\* A row of a tile is a vector, and both regions have addresses and immediates:
\* gridBytes is an int32_t, the addresses are u32.  The kernels go by their names,
\* and a run starts with a grid in SRC.
ASSUME KernelAssumption ==
  /\ VecBytes = Tile /\ MemSize = W * H /\ Tile > Wall
  /\ MemSize \div 16^7 < 8 /\ 2 * MemSize <= WordMod
  /\ \A name \in DOMAIN Kernels \cap DOMAIN Programs : Programs[name] = Kernels[name]
  /\ \A image \in Images : \A a \in 0..(MemSize - 1) : image[a] \in Cells

IsKernel == program \in DOMAIN Kernels

ParityOf(name) == CHOOSE parity \in 0..1 : KernelFor(parity) = name

\* The two regions, seen as grids.
SrcGrid == [p \in Coords |-> mem[tiledIndex(p)]]
DstGrid == [p \in Coords |-> mem[MemSize + tiledIndex(p)]]

\* A kernel that stops has halted without a fault and left in DST what the
\* scalar vertical pass makes of SRC, for every row, tile border and pair.
KernelIsGravity ==
  IsKernel /\ status = "stopped" =>
    fault = "None" /\ DstGrid = verticalScalar(SrcGrid, ParityOf(program))

\* A kernel reads only SRC: the machine does not fault loads from DST, which
\* would see rows of an older frame or rows just stored.
KernelReadsSrcOnly ==
  [][IsKernel /\ Load => Address(Fetched) + VecBytes <= MemSize]_mvars
=============================================================================
