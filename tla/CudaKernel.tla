----------------------------- MODULE CudaKernel -----------------------------
(***************************************************************************)
(* One thread block of the kernels of backends/cuda_backend.cu: it owns    *)
(* one tile, copies it with a ring of neighbours into shared memory,       *)
(* synchronises, and writes its tile of the output.  Threads run in any    *)
(* order up to the barrier.  Shared memory starts uninitialised.  Blocks   *)
(* share nothing they write, so one block at every position stands for     *)
(* the launch.                                                             *)
(***************************************************************************)
EXTENDS Passes

CONSTANTS BlockRows,   \* blockDim.y, 8 in the code; blockDim.x is Tile
          Inputs,      \* grids a kernel may be launched on
          Words,       \* random words for the decay kernel
          Garbage      \* what an uninitialised byte may hold

ASSUME KernelAssumption ==
  /\ BlockRows \in 2..Tile
  /\ Inputs \subseteq Grids
  /\ Words \subseteq Noise
  /\ Garbage \in Nat \ Cells

VARIABLES input,       \* the read buffer
          kernel,      \* "vertical", "horizontal" or "decay"
          parity, words,   \* the launch arguments
          tx, ty,      \* blockIdx
          sh,          \* shared memory: the tile and its ring
          out,         \* what the block has written of its tile
          at           \* where each thread is

launch == <<input, kernel, parity, words, tx, ty>>
vars == <<launch, sh, out, at>>

\* A thread is <<threadIdx.x, threadIdx.y>>.
Threads == (0..(Tile - 1)) \X (0..(BlockRows - 1))
Side    == Tile + 2                     \* edge of the tile with its ring
Slots   == (0..(Side - 1)) \X (0..(Side - 1))    \* <<row, column>>
Locals  == (0..(Tile - 1)) \X (0..(Tile - 1))    \* <<lx, ly>>

-----------------------------------------------------------------------------
RowsOf_FirstOnly(thread) == {thread[2]}

\* The rows of the loop `for (ly = threadIdx.y; ly < 32; ly += blockDim.y)`.
RowsOf(thread) == {ly \in 0..(Tile - 1) : ly % BlockRows = thread[2]}

\* The cell of the grid a slot of shared memory stands for.
CellOf(slot) == <<tx * Tile + slot[2] - 1, ty * Tile + slot[1] - 1>>

OwnSlots(thread) == {<<ly + 1, thread[1] + 1>> : ly \in RowsOf(thread)}

\* kVertical: threads of row 0 fetch the row above the tile, of row 1 the one
\* below it.
HaloSlots(thread) ==
  CASE thread[2] = 0 -> {<<0, thread[1] + 1>>}
    [] thread[2] = 1 -> {<<Side - 1, thread[1] + 1>>}
    [] OTHER         -> {}

RingSize == 4 * Tile + 4

RingSlot_ShortLeft(i) ==
  CASE i < Side                -> <<0, i>>
    [] i \in Side..(2 * Side - 1) -> <<Side - 1, i - Side>>
    [] i \in (2 * Side)..(2 * Side + Tile - 1) -> <<i - 2 * Side, 0>>
    [] OTHER                   -> <<i - 2 * Side - Tile + 1, Side - 1>>

\* loadTileWithRing: top row, bottom row, left column, right column.
RingSlot(i) ==
  CASE i < Side                -> <<0, i>>
    [] i \in Side..(2 * Side - 1) -> <<Side - 1, i - Side>>
    [] i \in (2 * Side)..(2 * Side + Tile - 1) -> <<i - 2 * Side + 1, 0>>
    [] OTHER                   -> <<i - 2 * Side - Tile + 1, Side - 1>>

Tid(thread) == thread[2] * Tile + thread[1]

RingSlots(thread) ==
  {RingSlot(i) : i \in {j \in 0..(RingSize - 1) : j % (Tile * BlockRows) = Tid(thread)}}

SlotsOf(thread) ==
  OwnSlots(thread) \cup (IF kernel = "vertical" THEN HaloSlots(thread) ELSE RingSlots(thread))

-----------------------------------------------------------------------------
(* The output cell of each kernel, from shared memory only.                *)

\* At is a neighbour of the cell <<lx, ly>> of the tile, in shared memory.
VerticalOut(lx, ly) ==
  LET At(dy) == sh[<<ly + 1 + dy, lx + 1>>]
  IN  IF (ty * Tile + ly) % 2 = parity
        THEN IF swapVertical(At(0), At(1)) THEN At(1) ELSE At(0)
        ELSE IF swapVertical(At(-1), At(0)) THEN At(-1) ELSE At(0)

HorizontalOut(lx, ly) ==
  LET At(dx, dy) == sh[<<ly + 1 + dy, lx + 1 + dx>>]
      \* The pair whose left element is dx cells to the right of this one.
      Swaps(dx) == swapHorizontal(At(dx, 0), At(dx + 1, 0), At(dx, 1), At(dx + 1, 1),
                                  At(dx, -1), At(dx + 1, -1))
  IN  IF (tx * Tile + lx) % 2 = parity
        THEN IF Swaps(0) THEN At(1, 0) ELSE At(0, 0)
        ELSE IF Swaps(-1) THEN At(-1, 0) ELSE At(0, 0)

DecayOut(lx, ly) ==
  LET At(dx, dy) == sh[<<ly + 1 + dy, lx + 1 + dx>>]
  IN  decayFire(At(0, 0), At(-1, 0), At(1, 0), At(0, -1), At(0, 1),
                randBit(words, <<tx * Tile + lx, ty * Tile + ly>>))

KernelOut(cell) ==
  CASE kernel = "vertical"   -> VerticalOut(cell[1], cell[2])
    [] kernel = "horizontal" -> HorizontalOut(cell[1], cell[2])
    [] kernel = "decay"      -> DecayOut(cell[1], cell[2])

-----------------------------------------------------------------------------
Init ==
  /\ input \in Inputs /\ words \in Words
  /\ kernel \in {"vertical", "horizontal", "decay"}
  /\ parity \in IF kernel = "decay" THEN {0} ELSE 0..1    \* kDecay takes none
  /\ tx \in 0..(tilesX - 1) /\ ty \in 0..(tilesY - 1)
  /\ sh = [slot \in Slots |-> Garbage]
  /\ out = [cell \in Locals |-> Garbage]
  /\ at = [thread \in Threads |-> "fill"]

\* A thread's part of the fill, up to its arrival at __syncthreads().
Fill(thread) ==
  /\ at[thread] = "fill"
  /\ sh' = [slot \in Slots |->
              IF slot \in SlotsOf(thread) THEN sampleCell(input, CellOf(slot)) ELSE sh[slot]]
  /\ at' = [at EXCEPT ![thread] = "barrier"]
  /\ UNCHANGED <<launch, out>>

Synchronise_First(thread) ==
  /\ at[thread] = "barrier"
  /\ at' = [at EXCEPT ![thread] = "compute"]
  /\ UNCHANGED <<launch, sh, out>>

\* __syncthreads() lets a thread pass once all threads of the block arrived.
Synchronise(thread) ==
  /\ at[thread] = "barrier"
  /\ \A other \in Threads : at[other] # "fill"
  /\ at' = [at EXCEPT ![thread] = "compute"]
  /\ UNCHANGED <<launch, sh, out>>

Compute(thread) ==
  /\ at[thread] = "compute"
  /\ out' = [cell \in Locals |->
               IF cell[1] = thread[1] /\ cell[2] \in RowsOf(thread)
                 THEN KernelOut(cell) ELSE out[cell]]
  /\ at' = [at EXCEPT ![thread] = "done"]
  /\ UNCHANGED <<launch, sh>>

Next == \E thread \in Threads : Fill(thread) \/ Synchronise(thread) \/ Compute(thread)

Spec == Init /\ [][Next]_vars

\* A resident block runs until all its threads have returned.
FairSpec == Spec /\ WF_vars(Next)

-----------------------------------------------------------------------------
TypeOK ==
  /\ sh \in [Slots -> Cells \cup {Garbage}]
  /\ out \in [Locals -> Cells \cup {Garbage}]
  /\ \A thread \in Threads : at[thread] = "done" =>
       \A ly \in RowsOf(thread) : out[<<thread[1], ly>>] \in Cells
  /\ at \in [Threads -> {"fill", "barrier", "compute", "done"}]

Pass == CASE kernel = "vertical"   -> verticalScalar(input, parity)
          [] kernel = "horizontal" -> horizontalScalar(input, parity)
          [] kernel = "decay"      -> decayScalar(input, words)

\* When a thread is done its cells are what the scalar pass makes of them, in
\* whatever order the threads ran: no cell was computed from a slot of shared
\* memory that had not been filled yet, and none is left out.
BlockComputesPass ==
  \A thread \in Threads : at[thread] = "done" =>
    \A ly \in RowsOf(thread) :
      out[<<thread[1], ly>>] = Pass[<<tx * Tile + thread[1], ty * Tile + ly>>]

\* The threads of a block all get past the barrier and return, and together they
\* write every cell of their tile.
BlockFinishes == <>(\A cell \in Locals : out[cell] # Garbage)
=============================================================================
