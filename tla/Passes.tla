------------------------------- MODULE Passes -------------------------------
(***************************************************************************)
(* The geometry of the grid and the three passes as the scalar reference   *)
(* code (backends/naive_cpu.cpp) computes them: every destination cell is  *)
(* gathered from the source buffer.  Tile is Grid::kTile, 32 in the code;  *)
(* the constructor rounds both sides up to a multiple of it.               *)
(***************************************************************************)
EXTENDS Rules, FiniteSets

CONSTANTS W,     \* width in cells
          H,     \* height in cells
          Tile   \* edge of a tile, the width of a vector row

ASSUME GeometryAssumption ==
  /\ W \in Nat \ {0} /\ H \in Nat \ {0} /\ Tile \in Nat \ {0}
  /\ Tile % 2 = 0
  /\ W % Tile = 0 /\ H % Tile = 0

Cols   == 0..(W - 1)
Rows   == 0..(H - 1)
Coords == Cols \X Rows
Grids  == [Coords -> Cells]

Above(p) == <<p[1], p[2] - 1>>
Below(p) == <<p[1], p[2] + 1>>
LeftOf(p)  == <<p[1] - 1, p[2]>>
RightOf(p) == <<p[1] + 1, p[2]>>
Neighbours(p) == {LeftOf(p), RightOf(p), Above(p), Below(p)}

\* Where a cell lives in a buffer: tiles of Tile x Tile bytes one after the
\* other, row-major within a tile; and which cell lives at an index.
tilesX     == W \div Tile
tilesY     == H \div Tile
kTileBytes == Tile * Tile
Size       == W * H

tiledIndex(p) ==
  ((p[2] \div Tile) * tilesX + p[1] \div Tile) * kTileBytes
    + (p[2] % Tile) * Tile + (p[1] % Tile)

CoordOf(i) ==
  LET tile == i \div kTileBytes
      cell == i % kTileBytes
  IN  <<(tile % tilesX) * Tile + (cell % Tile), (tile \div tilesX) * Tile + cell \div Tile>>

\* A buffer seen as a grid, and a grid laid out in a buffer.
GridOf(buffer) == [p \in Coords |-> buffer[tiledIndex(p)]]
BufferOf(g)    == [i \in 0..(Size - 1) |-> g[CoordOf(i)]]

\* The cells of kind c, and how many there are.
CellsOf(s, c) == {p \in Coords : s[p] = c}
Count(s, c)   == Cardinality(CellsOf(s, c))

\* Out-of-grid reads return Wall.
sampleCell(s, p) == IF p \in Coords THEN s[p] ELSE Wall

\* The random words of one frame, one per (tile column, row): the lanes whose
\* three hash bits are all set.  The hash itself is left abstract.
TileCols == 0..(W \div Tile - 1)
Noise    == [TileCols \X Rows -> SUBSET (0..(Tile - 1))]

randBit(noise, p) == (p[1] % Tile) \in noise[<<p[1] \div Tile, p[2]>>]

-----------------------------------------------------------------------------
(* One destination cell of each pass: the body of the scalar loops.        *)

verticalCell_UpperOnly(s, parity, p) ==
  LET c == sampleCell(s, p)
      b == sampleCell(s, Below(p))
  IN  IF p[2] % 2 = parity /\ swapVertical(c, b) THEN b ELSE c

verticalCell(s, parity, p) ==
  LET c == sampleCell(s, p)
      b == sampleCell(s, Below(p))
      a == sampleCell(s, Above(p))
  IN  IF p[2] % 2 = parity
        THEN IF swapVertical(c, b) THEN b ELSE c     \* upper half of the pair
        ELSE IF swapVertical(a, c) THEN a ELSE c     \* lower half of the pair

\* The pair whose left element is l swaps.
PairSpreads(s, l) ==
  LET r == RightOf(l)
  IN  swapHorizontal(sampleCell(s, l), sampleCell(s, r),
                     sampleCell(s, Below(l)), sampleCell(s, Below(r)),
                     sampleCell(s, Above(l)), sampleCell(s, Above(r)))

horizontalCell(s, parity, p) ==
  IF p[1] % 2 = parity
    THEN IF PairSpreads(s, p) THEN sampleCell(s, RightOf(p)) ELSE sampleCell(s, p)
    ELSE IF PairSpreads(s, LeftOf(p)) THEN sampleCell(s, LeftOf(p))
                                      ELSE sampleCell(s, p)

decayCell(s, noise, p) ==
  decayFire(sampleCell(s, p),
            sampleCell(s, LeftOf(p)), sampleCell(s, RightOf(p)),
            sampleCell(s, Above(p)), sampleCell(s, Below(p)),
            randBit(noise, p))

-----------------------------------------------------------------------------
(* A whole pass.                                                           *)

verticalScalar(s, parity)   == [p \in Coords |-> verticalCell(s, parity, p)]
horizontalScalar(s, parity) == [p \in Coords |-> horizontalCell(s, parity, p)]
decayScalar(s, noise)       == [p \in Coords |-> decayCell(s, noise, p)]

VerticalParity_Stuck(f) == 0

\* The parities of a frame: p1 = frame & 1, p2 = (frame >> 1) & 1.
VerticalParity(f)   == f % 2
HorizontalParity(f) == (f \div 2) % 2

\* The grid after the two exchange passes of frame f, and after all three.
AfterExchange(g, f) ==
  horizontalScalar(verticalScalar(g, VerticalParity(f)), HorizontalParity(f))

NextFrame(g, f, noise) == decayScalar(AfterExchange(g, f), noise)
=============================================================================
