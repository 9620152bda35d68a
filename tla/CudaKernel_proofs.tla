------------------------- MODULE CudaKernel_proofs -------------------------
(***************************************************************************)
(* A thread block of backends/cuda_backend.cu computes its tile of the     *)
(* scalar pass, for every tile size, block height, grid and order of the   *)
(* threads.                                                                *)
(***************************************************************************)
EXTENDS CudaKernel, Grid_proofs

-----------------------------------------------------------------------------
(* Who fills what.                                                         *)

\* The rows of a thread are cells of the tile, and every row has its thread.
LEMMA RowsAreShared ==
  /\ \A thread \in Threads : RowsOf(thread) \subseteq 0..(Tile - 1)
  /\ \A lx, ly \in 0..(Tile - 1) :
       \E thread \in Threads : thread[1] = lx /\ ly \in RowsOf(thread)
<1>1. Tile \in Nat \ {0} /\ BlockRows \in Nat \ {0}
  BY GeometryAssumption, KernelAssumption
<1>2. ASSUME NEW lx \in 0..(Tile - 1), NEW ly \in 0..(Tile - 1)
      PROVE  \E thread \in Threads : thread[1] = lx /\ ly \in RowsOf(thread)
  <2> DEFINE thread == <<lx, ly % BlockRows>>
  <2>1. ly % BlockRows \in 0..(BlockRows - 1)
    BY <1>1, DivMod
  <2>2. thread \in Threads
    BY <2>1 DEF Threads
  <2>3. thread[1] = lx /\ ly \in RowsOf(thread)
    BY DEF RowsOf
  <2> QED BY <2>2, <2>3
<1> QED BY <1>2 DEF RowsOf

\* The slot under a cell of the tile is filled by a thread of its column.
LEMMA TileIsFilled ==
  ASSUME NEW lx \in 0..(Tile - 1), NEW ly \in 0..(Tile - 1)
  PROVE  \E thread \in Threads : <<ly + 1, lx + 1>> \in SlotsOf(thread)
<1>1. PICK thread \in Threads : thread[1] = lx /\ ly \in RowsOf(thread)
  BY RowsAreShared
<1>2. <<ly + 1, lx + 1>> \in OwnSlots(thread)
  BY <1>1 DEF OwnSlots
<1> QED BY <1>2 DEF SlotsOf

\* Every slot of the ring has an index in loadTileWithRing.
LEMMA RingIsNumbered ==
  ASSUME NEW row \in 0..(Side - 1), NEW col \in 0..(Side - 1),
         row \in {0, Side - 1} \/ col \in {0, Side - 1}
  PROVE  \E i \in 0..(RingSize - 1) : RingSlot(i) = <<row, col>>
<1>1. Tile \in Nat \ {0}
  BY GeometryAssumption
<1>2. CASE row = 0
  BY <1>1, <1>2 DEF RingSlot, RingSize, Side
<1>3. CASE row = Side - 1
  <2>1. RingSlot(Side + col) = <<row, col>> /\ Side + col \in 0..(RingSize - 1)
    BY <1>1, <1>3 DEF RingSlot, RingSize, Side
  <2> QED BY <2>1
<1>4. CASE row \in 1..(Side - 2) /\ col = 0
  <2>1. /\ RingSlot(2 * Side + row - 1) = <<row, col>>
        /\ 2 * Side + row - 1 \in 0..(RingSize - 1)
    BY <1>1, <1>4 DEF RingSlot, RingSize, Side
  <2> QED BY <2>1
<1>5. CASE row \in 1..(Side - 2) /\ col = Side - 1
  <2>1. /\ RingSlot(2 * Side + Tile + row - 1) = <<row, col>>
        /\ 2 * Side + Tile + row - 1 \in 0..(RingSize - 1)
    BY <1>1, <1>5 DEF RingSlot, RingSize, Side
  <2> QED BY <2>1
<1> QED BY <1>1, <1>2, <1>3, <1>4, <1>5 DEF Side

\* The stride of the ring loop gives every index to a thread.
LEMMA RingIsShared ==
  ASSUME NEW i \in 0..(RingSize - 1)
  PROVE  \E thread \in Threads : RingSlot(i) \in RingSlots(thread)
<1>1. Tile \in Nat \ {0} /\ BlockRows \in Nat \ {0} /\ RingSize \in Nat
  BY GeometryAssumption, KernelAssumption DEF RingSize
<1> DEFINE count  == Tile * BlockRows
           t      == i % count
           thread == <<t % Tile, t \div Tile>>
<1>2. count \in Nat \ {0}
  <2>1. count \in Nat
    BY <1>1
  <2>2. count # 0
    BY <1>1
  <2> QED BY <2>1, <2>2
<1>3. t \in 0..(count - 1) /\ t \in Nat
  BY <1>1, <1>2, DivMod
<1> HIDE DEF t
<1>4. /\ t % Tile \in 0..(Tile - 1) /\ t \div Tile \in Nat
      /\ t = Tile * (t \div Tile) + (t % Tile)
  BY <1>1, <1>2, <1>3, DivMod
<1>5. t \div Tile < BlockRows
  <2> DEFINE q == t \div Tile
  <2> SUFFICES ASSUME q >= BlockRows PROVE FALSE
    BY <1>1, <1>4
  <2> HIDE DEF q
  <2>1. Tile * q >= Tile * BlockRows
    <3>1. q - BlockRows \in Nat
      BY <1>1, <1>4 DEF q
    <3>2. Tile * (q - BlockRows) >= 0
      BY <1>1, <3>1
    <3> QED BY <1>1, <1>4, <3>2 DEF q
  <2> QED BY <2>1, <1>1, <1>3, <1>4 DEF q
<1>6. thread \in Threads
  BY <1>1, <1>4, <1>5 DEF Threads
<1>7. Tid(thread) = t
  BY <1>1, <1>4 DEF Tid
<1>8. i % count = Tid(thread)
  BY <1>7 DEF t
<1>9. RingSlot(i) \in RingSlots(thread)
  BY <1>8 DEF RingSlots
<1> QED BY <1>6, <1>9

-----------------------------------------------------------------------------
(* What a thread computes once shared memory is filled.                    *)

\* Shared memory holds the neighbourhood of the tile: for the vertical kernel the
\* columns of the tile with one cell more at each end, for the others all slots.
Needed == IF kernel = "vertical" THEN {slot \in Slots : slot[2] \in 1..Tile} ELSE Slots

Filled == \A slot \in Needed : sh[slot] = sampleCell(input, CellOf(slot))

\* Every slot a kernel reads is filled by a thread of the block.
LEMMA NeededIsFilled ==
  ASSUME NEW slot \in Needed
  PROVE  \E thread \in Threads : slot \in SlotsOf(thread)
<1>1. Tile \in Nat \ {0} /\ BlockRows \in 2..Tile
  BY GeometryAssumption, KernelAssumption
<1>2. PICK row \in 0..(Side - 1), col \in 0..(Side - 1) : slot = <<row, col>>
  BY DEF Needed, Slots
<1>3. CASE row \in 1..(Side - 2) /\ col \in 1..(Side - 2)
  <2>1. row - 1 \in 0..(Tile - 1) /\ col - 1 \in 0..(Tile - 1)
    BY <1>1, <1>3 DEF Side
  <2>2. slot = <<(row - 1) + 1, (col - 1) + 1>>
    BY <1>1, <1>2, <1>3 DEF Side
  <2> QED BY <2>1, <2>2, TileIsFilled
<1>4. CASE kernel = "vertical" /\ row \in {0, Side - 1}
  <2>1. col - 1 \in 0..(Tile - 1)
    BY <1>1, <1>2, <1>4 DEF Needed, Side
  <2> DEFINE thread == <<col - 1, IF row = 0 THEN 0 ELSE 1>>
  <2>2. thread \in Threads
    BY <1>1, <2>1 DEF Threads
  <2>3. slot \in HaloSlots(thread)
    BY <1>1, <1>2, <1>4 DEF HaloSlots, Side
  <2> QED BY <1>4, <2>2, <2>3 DEF SlotsOf
<1>5. CASE kernel # "vertical" /\ (row \in {0, Side - 1} \/ col \in {0, Side - 1})
  <2>1. PICK i \in 0..(RingSize - 1) : RingSlot(i) = slot
    BY <1>2, <1>5, RingIsNumbered
  <2>2. PICK thread \in Threads : RingSlot(i) \in RingSlots(thread)
    BY RingIsShared
  <2> QED BY <1>5, <2>1, <2>2 DEF SlotsOf
<1>6. kernel = "vertical" => col \in 1..(Side - 2)
  BY <1>1, <1>2 DEF Needed, Side
<1> QED BY <1>1, <1>2, <1>3, <1>4, <1>5, <1>6 DEF Side

\* A block lies in the grid.
LEMMA TileInGrid ==
  ASSUME tx \in 0..(tilesX - 1), ty \in 0..(tilesY - 1),
         NEW lx \in 0..(Tile - 1), NEW ly \in 0..(Tile - 1)
  PROVE  <<tx * Tile + lx, ty * Tile + ly>> \in Coords
<1>1. /\ W \in Nat \ {0} /\ H \in Nat \ {0} /\ Tile \in Nat \ {0}
      /\ W % Tile = 0 /\ H % Tile = 0
  BY GeometryAssumption
<1>2. tilesX \in Nat /\ tilesY \in Nat /\ W = Tile * tilesX /\ H = Tile * tilesY
  <2>1. W \div Tile \in Nat /\ W = Tile * (W \div Tile) + (W % Tile)
    BY <1>1, DivMod
  <2>2. H \div Tile \in Nat /\ H = Tile * (H \div Tile) + (H % Tile)
    BY <1>1, DivMod
  <2> QED BY <1>1, <2>1, <2>2 DEF tilesX, tilesY
<1>3. ASSUME NEW n \in Nat, NEW t \in 0..(n - 1), NEW l \in 0..(Tile - 1)
      PROVE  t * Tile + l \in 0..(Tile * n - 1)
  <2>1. n - 1 - t \in Nat
    OBVIOUS
  <2>2. Tile * (n - 1 - t) >= 0
    BY <1>1, <2>1
  <2>3. Tile * (n - 1 - t) = Tile * n - Tile - t * Tile
    BY <1>1
  <2>4. t * Tile \in Nat /\ Tile * n \in Nat
    BY <1>1
  <2> QED BY <1>1, <2>2, <2>3, <2>4
<1> QED BY <1>2, <1>3 DEF Coords, Cols, Rows

\* The three output formulas read the slots of the cell and its neighbours, and
\* so compute from filled slots what the scalar pass computes from the grid.
LEMMA OutputIsPassCell ==
  ASSUME tx \in 0..(tilesX - 1), ty \in 0..(tilesY - 1),
         kernel \in {"vertical", "horizontal", "decay"},
         Filled,
         NEW lx \in 0..(Tile - 1), NEW ly \in 0..(Tile - 1)
  PROVE  KernelOut(<<lx, ly>>) = Pass[<<tx * Tile + lx, ty * Tile + ly>>]
<1> DEFINE x == tx * Tile + lx
           y == ty * Tile + ly
           p == <<x, y>>
<1>1. Tile \in Nat \ {0} /\ tx \in Int /\ ty \in Int /\ x \in Int /\ y \in Int
  <2>1. Tile \in Nat \ {0} /\ tx \in Int /\ ty \in Int
    BY GeometryAssumption
  <2>2. tx * Tile \in Int /\ ty * Tile \in Int
    BY <2>1
  <2> QED BY <2>1, <2>2
<1>2. p \in Coords
  BY TileInGrid
<1>3. ASSUME NEW dx \in {-1, 0, 1}, NEW dy \in {-1, 0, 1},
             kernel = "vertical" => dx = 0
      PROVE  sh[<<ly + 1 + dy, lx + 1 + dx>>] = sampleCell(input, <<x + dx, y + dy>>)
  <2> DEFINE slot == <<ly + 1 + dy, lx + 1 + dx>>
  <2>1. slot \in Needed
    BY <1>1, <1>3 DEF Needed, Slots, Side
  <2>2. CellOf(slot) = <<x + dx, y + dy>>
    <3>1. CellOf(slot) = <<tx * Tile + (lx + 1 + dx) - 1, ty * Tile + (ly + 1 + dy) - 1>>
      BY DEF CellOf
    <3>2. tx * Tile \in Int /\ ty * Tile \in Int
      BY <1>1
    <3> QED BY <1>1, <3>1, <3>2
  <2> QED BY <2>1, <2>2 DEF Filled
<1>4. x + 0 = x /\ y + 0 = y /\ x + (-1) = x - 1 /\ y + (-1) = y - 1
  BY <1>1
<1>5. /\ ly + 1 + 0 = ly + 1 /\ lx + 1 + 0 = lx + 1
      /\ LeftOf(p) = <<x - 1, y>> /\ RightOf(p) = <<x + 1, y>>
      /\ Above(p) = <<x, y - 1>> /\ Below(p) = <<x, y + 1>>
      /\ p[1] = x /\ p[2] = y
  BY <1>1 DEF LeftOf, RightOf, Above, Below
<1> HIDE DEF x, y
<1>6. CASE kernel = "vertical"
  <2>1. /\ sh[<<ly + 1 + 0, lx + 1>>] = sampleCell(input, p)
        /\ sh[<<ly + 1 + 1, lx + 1>>] = sampleCell(input, Below(p))
        /\ sh[<<ly + 1 + (-1), lx + 1>>] = sampleCell(input, Above(p))
    BY <1>3, <1>4, <1>5
  <2>2. KernelOut(<<lx, ly>>) = VerticalOut(lx, ly)
    BY <1>6 DEF KernelOut
  <2>3. VerticalOut(lx, ly) = verticalCell(input, parity, p)
    BY <2>1, <1>5 DEF VerticalOut, verticalCell, x, y
  <2>4. Pass[p] = verticalCell(input, parity, p)
    BY <1>2, <1>6 DEF Pass, verticalScalar
  <2> QED BY <2>2, <2>3, <2>4 DEF x, y
<1>7. CASE kernel = "horizontal"
  <2> DEFINE Slot(dx, dy) == sh[<<ly + 1 + dy, lx + 1 + dx>>]
             Swaps(dx) == swapHorizontal(Slot(dx, 0), Slot(dx + 1, 0), Slot(dx, 1),
                                         Slot(dx + 1, 1), Slot(dx, -1), Slot(dx + 1, -1))
  <2>1. \A dx, dy \in {-1, 0, 1} : Slot(dx, dy) = sampleCell(input, <<x + dx, y + dy>>)
    BY <1>3, <1>7
  <2>2. HorizontalOut(lx, ly) =
          IF x % 2 = parity
            THEN IF Swaps(0) THEN Slot(1, 0) ELSE Slot(0, 0)
            ELSE IF Swaps(-1) THEN Slot(-1, 0) ELSE Slot(0, 0)
    BY DEF HorizontalOut, x
  <2> HIDE DEF Slot
  <2>3. Swaps(0) = PairSpreads(input, p)
    <3>1. /\ RightOf(p) = <<x + 1, y>> /\ Below(p) = <<x, y + 1>>
          /\ Below(RightOf(p)) = <<x + 1, y + 1>>
          /\ Above(p) = <<x, y + (-1)>> /\ Above(RightOf(p)) = <<x + 1, y + (-1)>>
          /\ p = <<x + 0, y + 0>>
      BY <1>1, <1>4, <1>5 DEF RightOf, Above, Below
    <3>2. 0 + 1 = 1
      OBVIOUS
    <3> QED BY <1>4, <2>1, <3>1, <3>2 DEF PairSpreads
  <2>4. Swaps(-1) = PairSpreads(input, LeftOf(p))
    <3>1. /\ LeftOf(p) = <<x + (-1), y>> /\ RightOf(LeftOf(p)) = <<x + 0, y>>
          /\ Below(LeftOf(p)) = <<x + (-1), y + 1>>
          /\ Below(RightOf(LeftOf(p))) = <<x + 0, y + 1>>
          /\ Above(LeftOf(p)) = <<x + (-1), y + (-1)>>
          /\ Above(RightOf(LeftOf(p))) = <<x + 0, y + (-1)>>
      BY <1>1, <1>4, <1>5 DEF RightOf, LeftOf, Above, Below
    <3>2. (-1) + 1 = 0
      OBVIOUS
    <3> QED BY <1>4, <2>1, <3>1, <3>2 DEF PairSpreads
  <2>5. /\ Slot(0, 0) = sampleCell(input, p) /\ Slot(1, 0) = sampleCell(input, RightOf(p))
        /\ Slot(-1, 0) = sampleCell(input, LeftOf(p))
    BY <1>4, <1>5, <2>1
  <2> HIDE DEF Swaps
  <2>6. HorizontalOut(lx, ly) = horizontalCell(input, parity, p)
    BY <1>5, <2>2, <2>3, <2>4, <2>5 DEF horizontalCell
  <2>7. KernelOut(<<lx, ly>>) = HorizontalOut(lx, ly)
    BY <1>7 DEF KernelOut
  <2>8. Pass[p] = horizontalCell(input, parity, p)
    BY <1>2, <1>7 DEF Pass, horizontalScalar
  <2> QED BY <2>6, <2>7, <2>8 DEF x, y
<1>8. CASE kernel = "decay"
  <2> DEFINE Slot(dx, dy) == sh[<<ly + 1 + dy, lx + 1 + dx>>]
  <2>1. \A dx, dy \in {-1, 0, 1} : Slot(dx, dy) = sampleCell(input, <<x + dx, y + dy>>)
    BY <1>3, <1>8
  <2>2. DecayOut(lx, ly) = decayFire(Slot(0, 0), Slot(-1, 0), Slot(1, 0), Slot(0, -1), Slot(0, 1),
                                     randBit(words, p))
    BY DEF DecayOut, x, y
  <2> HIDE DEF Slot
  <2>3. /\ Slot(0, 0) = sampleCell(input, p)
        /\ Slot(-1, 0) = sampleCell(input, LeftOf(p))
        /\ Slot(1, 0) = sampleCell(input, RightOf(p))
        /\ Slot(0, -1) = sampleCell(input, Above(p))
        /\ Slot(0, 1) = sampleCell(input, Below(p))
    BY <1>4, <1>5, <2>1
  <2>4. DecayOut(lx, ly) = decayCell(input, words, p)
    BY <2>2, <2>3 DEF decayCell
  <2>5. KernelOut(<<lx, ly>>) = DecayOut(lx, ly)
    BY <1>8 DEF KernelOut
  <2>6. Pass[p] = decayCell(input, words, p)
    BY <1>2, <1>8 DEF Pass, decayScalar
  <2> QED BY <2>4, <2>5, <2>6 DEF x, y
<1> QED BY <1>6, <1>7, <1>8

-----------------------------------------------------------------------------
(* The invariant.                                                          *)

LaunchOK ==
  /\ input \in Grids /\ words \in Words
  /\ kernel \in {"vertical", "horizontal", "decay"}
  /\ tx \in 0..(tilesX - 1) /\ ty \in 0..(tilesY - 1)
  /\ sh \in [Slots -> Cells \cup {Garbage}]
  /\ out \in [Locals -> Cells \cup {Garbage}]
  /\ at \in [Threads -> {"fill", "barrier", "compute", "done"}]

\* A thread past its fill has filled its slots, and nobody passes the barrier
\* before all have.
FilledSoFar ==
  /\ \A thread \in Threads : at[thread] # "fill" =>
       \A slot \in SlotsOf(thread) \cap Slots : sh[slot] = sampleCell(input, CellOf(slot))
  /\ \A thread, other \in Threads :
       at[thread] \in {"compute", "done"} => at[other] # "fill"

BlockInv == LaunchOK /\ FilledSoFar /\ BlockComputesPass

LEMMA InitBlock == Init => BlockInv
<1> SUFFICES ASSUME Init PROVE BlockInv
  OBVIOUS
<1>1. \A thread \in Threads : at[thread] = "fill"
  BY DEF Init
<1>2. LaunchOK
  BY KernelAssumption DEF Init, LaunchOK
<1>3. FilledSoFar
  BY <1>1 DEF FilledSoFar
<1>4. BlockComputesPass
  BY <1>1 DEF BlockComputesPass
<1> QED BY <1>2, <1>3, <1>4 DEF BlockInv

LEMMA LaunchFixed ==
  ASSUME UNCHANGED launch
  PROVE  /\ Pass' = Pass
         /\ \A slot : CellOf(slot)' = CellOf(slot)
         /\ \A thread : SlotsOf(thread)' = SlotsOf(thread)
<1>1. input' = input /\ kernel' = kernel /\ parity' = parity /\ words' = words
      /\ tx' = tx /\ ty' = ty
  BY DEF launch
<1>2. Pass' = Pass
  BY <1>1 DEF Pass
<1>3. \A slot : CellOf(slot)' = CellOf(slot)
  BY <1>1 DEF CellOf
<1>4. \A thread : SlotsOf(thread)' = SlotsOf(thread)
  BY <1>1 DEF SlotsOf
<1> QED BY <1>2, <1>3, <1>4

LEMMA FillKeeps ==
  ASSUME BlockInv, NEW t \in Threads, Fill(t)
  PROVE  BlockInv'
<1> USE DEF BlockInv
<1>1. UNCHANGED launch /\ out' = out /\ at' = [at EXCEPT ![t] = "barrier"]
  BY DEF Fill
<1>2. \A slot \in Slots :
        sh'[slot] = IF slot \in SlotsOf(t) THEN sampleCell(input, CellOf(slot)) ELSE sh[slot]
  BY DEF Fill
<1>3. /\ at' \in [Threads -> {"fill", "barrier", "compute", "done"}]
      /\ at[t] = "fill" /\ at'[t] = "barrier"
      /\ \A thread \in Threads \ {t} : at'[thread] = at[thread]
  BY <1>1 DEF Fill, LaunchOK
<1>4. input' = input /\ kernel' = kernel /\ words' = words /\ tx' = tx /\ ty' = ty
  BY <1>1 DEF launch
<1>5. LaunchOK'
  <2>1. \A slot \in Slots : sampleCell(input, CellOf(slot)) \in Cells
    BY SampleType DEF LaunchOK
  <2>2. sh' \in [Slots -> Cells \cup {Garbage}]
    BY <2>1 DEF Fill, LaunchOK
  <2> QED BY <1>1, <1>3, <1>4, <2>2 DEF LaunchOK
<1>6. FilledSoFar'
  <2>1. ASSUME NEW thread \in Threads, at'[thread] # "fill",
               NEW slot \in SlotsOf(thread) \cap Slots
        PROVE  sh'[slot] = sampleCell(input, CellOf(slot))
    <3>1. CASE slot \in SlotsOf(t)
      BY <1>2, <3>1
    <3>2. CASE slot \notin SlotsOf(t)
      <4>1. thread # t /\ at[thread] # "fill"
        BY <1>3, <2>1, <3>2
      <4> QED BY <1>2, <2>1, <3>2, <4>1 DEF FilledSoFar
    <3> QED BY <3>1, <3>2
  <2>2. \A thread, other \in Threads :
          at'[thread] \in {"compute", "done"} => at'[other] # "fill"
    BY <1>3 DEF FilledSoFar
  <2> QED BY <1>1, <1>4, <2>1, <2>2, LaunchFixed DEF FilledSoFar
<1>7. BlockComputesPass'
  <2>1. \A thread \in Threads : at'[thread] = "done" => at[thread] = "done"
    BY <1>3
  <2>2. Pass' = Pass
    BY <1>1, LaunchFixed
  <2> QED BY <1>1, <1>4, <2>1, <2>2 DEF BlockComputesPass, RowsOf
<1> QED BY <1>5, <1>6, <1>7

LEMMA SynchroniseKeeps ==
  ASSUME BlockInv, NEW t \in Threads, Synchronise(t)
  PROVE  BlockInv'
<1> USE DEF BlockInv
<1>1. UNCHANGED <<launch, sh, out>> /\ at' = [at EXCEPT ![t] = "compute"]
  BY DEF Synchronise
<1>2. /\ at' \in [Threads -> {"fill", "barrier", "compute", "done"}]
      /\ at[t] = "barrier" /\ at'[t] = "compute"
      /\ \A thread \in Threads \ {t} : at'[thread] = at[thread]
      /\ \A thread \in Threads : at[thread] # "fill"
  BY <1>1 DEF Synchronise, LaunchOK
<1>3. input' = input /\ kernel' = kernel /\ words' = words /\ tx' = tx /\ ty' = ty
  BY <1>1 DEF launch
<1>4. LaunchOK'
  BY <1>1, <1>2, <1>3 DEF LaunchOK
<1>5. FilledSoFar'
  <2>1. \A thread \in Threads : \A slot \in SlotsOf(thread) \cap Slots :
          sh[slot] = sampleCell(input, CellOf(slot))
    BY <1>2 DEF FilledSoFar
  <2>2. \A thread \in Threads : at'[thread] # "fill"
    BY <1>2
  <2> QED BY <1>1, <1>3, <2>1, <2>2, LaunchFixed DEF FilledSoFar
<1>6. BlockComputesPass'
  <2>1. \A thread \in Threads : at'[thread] = "done" => at[thread] = "done"
    BY <1>2
  <2>2. Pass' = Pass
    BY <1>1, LaunchFixed
  <2> QED BY <1>1, <1>3, <2>1, <2>2 DEF BlockComputesPass, RowsOf
<1> QED BY <1>4, <1>5, <1>6

\* Past the barrier every slot the kernel reads is filled.
LEMMA ComputeKeeps ==
  ASSUME BlockInv, NEW t \in Threads, Compute(t)
  PROVE  BlockInv'
<1> USE DEF BlockInv
<1>1. UNCHANGED <<launch, sh>> /\ at' = [at EXCEPT ![t] = "done"]
  BY DEF Compute
<1>2. /\ at' \in [Threads -> {"fill", "barrier", "compute", "done"}]
      /\ at[t] = "compute" /\ at'[t] = "done"
      /\ \A thread \in Threads \ {t} : at'[thread] = at[thread]
  BY <1>1 DEF Compute, LaunchOK
<1>3. input' = input /\ kernel' = kernel /\ words' = words /\ tx' = tx /\ ty' = ty
  BY <1>1 DEF launch
<1>4. \A thread \in Threads : at[thread] # "fill"
  BY <1>2 DEF FilledSoFar
<1>5. Filled
  <2> SUFFICES ASSUME NEW slot \in Needed PROVE sh[slot] = sampleCell(input, CellOf(slot))
    BY DEF Filled
  <2>1. PICK thread \in Threads : slot \in SlotsOf(thread)
    BY NeededIsFilled
  <2>2. slot \in Slots
    BY DEF Needed
  <2> QED BY <1>4, <2>1, <2>2 DEF FilledSoFar
<1>6. \A lx, ly \in 0..(Tile - 1) :
        /\ KernelOut(<<lx, ly>>) = Pass[<<tx * Tile + lx, ty * Tile + ly>>]
        /\ KernelOut(<<lx, ly>>) \in Cells
  <2> SUFFICES ASSUME NEW lx \in 0..(Tile - 1), NEW ly \in 0..(Tile - 1)
               PROVE  /\ KernelOut(<<lx, ly>>) = Pass[<<tx * Tile + lx, ty * Tile + ly>>]
                      /\ KernelOut(<<lx, ly>>) \in Cells
    OBVIOUS
  <2>1. KernelOut(<<lx, ly>>) = Pass[<<tx * Tile + lx, ty * Tile + ly>>]
    BY <1>5, OutputIsPassCell DEF LaunchOK
  <2>2. <<tx * Tile + lx, ty * Tile + ly>> \in Coords
    BY TileInGrid DEF LaunchOK
  <2>3. Pass \in Grids
    BY PassesType DEF Pass, LaunchOK
  <2> QED BY <2>1, <2>2, <2>3 DEF Grids
<1>7. \A cell \in Locals :
        out'[cell] = IF cell[1] = t[1] /\ cell[2] \in RowsOf(t)
                       THEN KernelOut(cell) ELSE out[cell]
  BY DEF Compute
<1>8. LaunchOK'
  <2>1. ASSUME NEW cell \in Locals PROVE KernelOut(cell) \in Cells
    <3>1. PICK lx \in 0..(Tile - 1), ly \in 0..(Tile - 1) : cell = <<lx, ly>>
      BY DEF Locals
    <3> QED BY <1>6, <3>1
  <2>2. out' \in [Locals -> Cells \cup {Garbage}]
    BY <2>1 DEF Compute, LaunchOK
  <2> QED BY <1>1, <1>2, <1>3, <2>2 DEF LaunchOK
<1>9. FilledSoFar'
  <2>1. \A thread \in Threads : \A slot \in SlotsOf(thread) \cap Slots :
          sh[slot] = sampleCell(input, CellOf(slot))
    BY <1>4 DEF FilledSoFar
  <2>2. \A thread \in Threads : at'[thread] # "fill"
    BY <1>2, <1>4
  <2> QED BY <1>1, <1>3, <2>1, <2>2, LaunchFixed DEF FilledSoFar
<1>10. BlockComputesPass'
  <2>1. ASSUME NEW thread \in Threads, at'[thread] = "done", NEW ly \in RowsOf(thread)
        PROVE  out'[<<thread[1], ly>>] = Pass[<<tx * Tile + thread[1], ty * Tile + ly>>]
    <3>1. thread[1] \in 0..(Tile - 1) /\ ly \in 0..(Tile - 1)
      BY DEF Threads, RowsOf
    <3>2. <<thread[1], ly>> \in Locals
      BY <3>1 DEF Locals
    <3>3. CASE thread[1] = t[1] /\ ly \in RowsOf(t)
      BY <1>6, <1>7, <3>1, <3>2, <3>3
    <3>4. CASE ~(thread[1] = t[1] /\ ly \in RowsOf(t))
      <4>1. thread # t /\ at[thread] = "done"
        BY <1>2, <2>1, <3>4
      <4>2. out'[<<thread[1], ly>>] = out[<<thread[1], ly>>]
        BY <1>7, <3>2, <3>4
      <4> QED BY <4>1, <4>2 DEF BlockComputesPass
    <3> QED BY <3>3, <3>4
  <2>2. Pass' = Pass
    BY <1>1, LaunchFixed
  <2> QED BY <1>3, <2>1, <2>2 DEF BlockComputesPass, RowsOf
<1> QED BY <1>8, <1>9, <1>10

LEMMA BlockInvariant == Spec => []BlockInv
<1>1. BlockInv /\ [Next]_vars => BlockInv'
  <2> SUFFICES ASSUME BlockInv, [Next]_vars PROVE BlockInv'
    OBVIOUS
  <2>1. CASE Next
    <3>1. PICK t \in Threads : Fill(t) \/ Synchronise(t) \/ Compute(t)
      BY <2>1 DEF Next
    <3> QED BY <3>1, FillKeeps, SynchroniseKeeps, ComputeKeeps
  <2>2. CASE UNCHANGED vars
    BY <2>2 DEF vars, launch, BlockInv, LaunchOK, FilledSoFar, BlockComputesPass,
                CellOf, SlotsOf, Pass, RowsOf
  <2> QED BY <2>1, <2>2
<1> QED BY InitBlock, <1>1, PTL DEF Spec

\* kVertical, kHorizontal and kDecay: when a thread of a block has returned its
\* cells are those of the scalar pass, in whatever order the threads ran, and for
\* every tile size, block height, grid and position of the block.
THEOREM BlocksComputePass == Spec => []BlockComputesPass
<1>1. BlockInv => BlockComputesPass
  BY DEF BlockInv
<1> QED BY <1>1, BlockInvariant, PTL

\* Shared memory and the output hold cells or what was there before, and a thread
\* that has returned leaves nothing unwritten in its column.
THEOREM BlockTypeOK == Spec => []TypeOK
<1>1. BlockInv => TypeOK
  <2> SUFFICES ASSUME BlockInv PROVE TypeOK
    OBVIOUS
  <2>1. ASSUME NEW thread \in Threads, at[thread] = "done", NEW ly \in RowsOf(thread)
        PROVE  out[<<thread[1], ly>>] \in Cells
    <3>1. out[<<thread[1], ly>>] = Pass[<<tx * Tile + thread[1], ty * Tile + ly>>]
      BY <2>1 DEF BlockInv, BlockComputesPass
    <3>2. thread[1] \in 0..(Tile - 1) /\ ly \in 0..(Tile - 1)
      BY DEF Threads, RowsOf
    <3>3. <<tx * Tile + thread[1], ty * Tile + ly>> \in Coords
      BY <3>2, TileInGrid DEF BlockInv, LaunchOK
    <3>4. Pass \in Grids
      BY PassesType DEF Pass, BlockInv, LaunchOK
    <3> QED BY <3>1, <3>3, <3>4 DEF Grids
  <2> QED BY <2>1 DEF TypeOK, BlockInv, LaunchOK
<1> QED BY <1>1, BlockInvariant, PTL

\* The grid of blocks of the kernel launches: every cell of the grid is a cell of
\* the tile of one block, and of no other.
THEOREM BlocksPartitionGrid ==
  ASSUME NEW p \in Coords
  PROVE  /\ \E block \in (0..(tilesX - 1)) \X (0..(tilesY - 1)), cell \in Locals :
              p = <<block[1] * Tile + cell[1], block[2] * Tile + cell[2]>>
         /\ \A bx, by \in Nat : \A lx, ly \in 0..(Tile - 1) :
              p = <<bx * Tile + lx, by * Tile + ly>> =>
                bx = p[1] \div Tile /\ by = p[2] \div Tile
<1>1. /\ W \in Nat \ {0} /\ H \in Nat \ {0} /\ Tile \in Nat \ {0}
      /\ W % Tile = 0 /\ H % Tile = 0
  BY GeometryAssumption
<1>2. tilesX \in Nat /\ tilesY \in Nat /\ W = Tile * tilesX /\ H = Tile * tilesY
  <2>1. W \div Tile \in Nat /\ W = Tile * (W \div Tile) + (W % Tile)
    BY <1>1, DivMod
  <2>2. H \div Tile \in Nat /\ H = Tile * (H \div Tile) + (H % Tile)
    BY <1>1, DivMod
  <2> QED BY <1>1, <2>1, <2>2 DEF tilesX, tilesY
<1>3. ASSUME NEW n \in Nat, NEW x \in 0..(Tile * n - 1)
      PROVE  /\ x % Tile \in 0..(Tile - 1) /\ x \div Tile \in 0..(n - 1)
             /\ x = (x \div Tile) * Tile + (x % Tile)
  <2>1. /\ x \in Nat /\ x % Tile \in 0..(Tile - 1) /\ x \div Tile \in Nat
        /\ x = Tile * (x \div Tile) + (x % Tile)
    <3>1. x \in Nat /\ Tile * n \in Nat
      BY <1>1
    <3> QED BY <1>1, <3>1, DivMod
  <2> DEFINE q == x \div Tile
  <2>2. Tile * q < Tile * n
    BY <1>1, <2>1
  <2> HIDE DEF q
  <2>3. ASSUME q >= n PROVE FALSE
    <3>1. q - n \in Nat
      BY <2>1, <2>3 DEF q
    <3>2. Tile * (q - n) >= 0
      BY <1>1, <3>1
    <3>3. q \in Nat
      BY <2>1 DEF q
    <3> QED BY <1>1, <2>2, <3>2, <3>3
  <2>4. q * Tile = Tile * q /\ q \in Nat
    BY <1>1, <2>1 DEF q
  <2> QED BY <2>1, <2>3, <2>4 DEF q
<1>4. p = <<p[1], p[2]>> /\ p[1] \in 0..(Tile * tilesX - 1) /\ p[2] \in 0..(Tile * tilesY - 1)
  BY <1>2 DEF Coords, Cols, Rows
<1>5. \E block \in (0..(tilesX - 1)) \X (0..(tilesY - 1)), cell \in Locals :
        p = <<block[1] * Tile + cell[1], block[2] * Tile + cell[2]>>
  <2> DEFINE block == <<p[1] \div Tile, p[2] \div Tile>>
             cell  == <<p[1] % Tile, p[2] % Tile>>
  <2>1. block \in (0..(tilesX - 1)) \X (0..(tilesY - 1))
    BY <1>2, <1>3, <1>4
  <2>2. cell \in Locals
    BY <1>2, <1>3, <1>4 DEF Locals
  <2>3. p = <<block[1] * Tile + cell[1], block[2] * Tile + cell[2]>>
    BY <1>2, <1>3, <1>4
  <2> QED BY <2>1, <2>2, <2>3
<1>6. ASSUME NEW bx \in Nat, NEW by \in Nat,
             NEW lx \in 0..(Tile - 1), NEW ly \in 0..(Tile - 1),
             p = <<bx * Tile + lx, by * Tile + ly>>
      PROVE  bx = p[1] \div Tile /\ by = p[2] \div Tile
  <2>1. (Tile * bx + lx) \div Tile = bx /\ (Tile * by + ly) \div Tile = by
    BY <1>1, DivModUnique
  <2>2. p[1] = Tile * bx + lx /\ p[2] = Tile * by + ly
    BY <1>1, <1>6
  <2> QED BY <2>1, <2>2
<1> QED BY <1>5, <1>6
=============================================================================
