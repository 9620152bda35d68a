------------------------- MODULE Avx2Backend_proofs -------------------------
(***************************************************************************)
(* The vector backend keeps its scratch rows right and implements the      *)
(* atomic simulation, for every tile width, every grid and all random      *)
(* words.                                                                  *)
(***************************************************************************)
EXTENDS Avx2Backend, Grid_proofs

\* The lanes of a vector are the columns of a tile.
LEMMA LanesAreEdge == Lanes = Edge
BY DEF Lanes, Edge

-----------------------------------------------------------------------------
(* The row of the turn, its neighbours, and the scratch rows.              *)

\* The cell of lane i.
Cell(i) == CellIn(tile, ly, i)

LEMMA CellsOfTurn ==
  ASSUME tile \in Tiles, ly \in Lanes
  PROVE  /\ tx \in 0..(tilesX - 1) /\ ty \in 0..(tilesY - 1) /\ y \in Rows
         /\ \A i \in Lanes : Cell(i) = <<tx * Tile + i, y>> /\ Cell(i) \in Coords
<1>1. tx \in 0..(tilesX - 1) /\ ty \in 0..(tilesY - 1)
  BY TilePlace DEF tx, ty
<1>2. \A i \in Lanes : Cell(i) = <<tx * Tile + i, y>> /\ Cell(i) \in Coords
  BY CellInside, LanesAreEdge DEF Cell, CellIn, tx, ty, y
<1>3. 0 \in Lanes
  BY Shape DEF Lanes
<1>4. y \in Rows
  BY <1>2, <1>3 DEF Coords
<1> QED BY <1>1, <1>2, <1>4

\* Lane i of the row at an address.
LEMMA RowOfTile ==
  ASSUME src \in Buffers, NEW t \in Tiles, NEW r \in Lanes, NEW i \in Lanes
  PROVE  RowAt(t * kTileBytes + r * Tile)[i] = sampleCell(GridOf(src), CellIn(t, r, i))
<1>1. RowAt(t * kTileBytes + r * Tile)[i] = src[At(t, r, i)]
  BY DEF RowAt, At
<1>2. src[At(t, r, i)] = GridOf(src)[CellIn(t, r, i)]
  BY GridOfBuffer, LanesAreEdge
<1> QED BY <1>1, <1>2, CellInside, LanesAreEdge DEF sampleCell

\* gatherHaloRow reads the row and a cell at each end of it, and Wall wherever
\* that is outside of the grid.
LEMMA HaloIsSample ==
  ASSUME src \in Buffers, tile \in Tiles, NEW row \in Int, NEW k \in HaloCols
  PROVE  gatherHaloRow(row)[k] = sampleCell(GridOf(src), <<tx * Tile + (k - 1), row>>)
<1> DEFINE x0 == tx * Tile
           g == GridOf(src)
<1>1. tx \in 0..(tilesX - 1) /\ x0 \in Nat /\ k \in Nat /\ k <= Tile + 1 /\ Tile \in Nat \ {0}
  <2>1. tx \in 0..(tilesX - 1)
    BY TilePlace DEF tx
  <2> QED BY <2>1, Shape DEF HaloCols
<1>2. \A p \in Coords : g[p] = src[tiledIndex(p)]
  BY DEF GridOf
<1>3. x0 + Tile <= W
  <2>1. Tile * tx + (Tile - 1) \in 0..(Tile * tilesX - 1)
    BY <1>1, Shape, JoinBelow
  <2> QED BY <1>1, <2>1, Shape
<1>4. \A col \in Int : <<col, row>> \in Coords <=> col >= 0 /\ col < W /\ row \in Rows
  BY GeometryAssumption DEF Coords, Cols
<1> HIDE DEF g
<1>5. CASE row \notin Rows
  <2>1. gatherHaloRow(row)[k] = Wall
    BY <1>5 DEF gatherHaloRow
  <2>2. <<x0 + (k - 1), row>> \notin Coords
    BY <1>5 DEF Coords
  <2> QED BY <2>1, <2>2 DEF sampleCell, g
<1>6. CASE row \in Rows /\ k = 0
  <2>1. gatherHaloRow(row)[k] =
          IF x0 - 1 >= 0 THEN src[tiledIndex(<<x0 - 1, row>>)] ELSE Wall
    BY <1>6 DEF gatherHaloRow
  <2>2. x0 + (k - 1) = x0 - 1 /\ x0 - 1 \in Int /\ x0 - 1 < W
    <3>1. x0 + (k - 1) = x0 - 1 /\ x0 - 1 \in Int
      BY <1>1, <1>6
    <3>2. x0 - 1 < W
      BY <1>1, <1>3, GeometryAssumption
    <3> QED BY <3>1, <3>2
  <2>3. <<x0 - 1, row>> \in Coords <=> x0 - 1 >= 0
    BY <1>4, <1>6, <2>2
  <2> QED BY <1>2, <2>1, <2>2, <2>3 DEF sampleCell, g
<1>7. CASE row \in Rows /\ k = Tile + 1
  <2>1. gatherHaloRow(row)[k] =
          IF x0 + Tile < W THEN src[tiledIndex(<<x0 + Tile, row>>)] ELSE Wall
    BY <1>1, <1>7 DEF gatherHaloRow
  <2>2. x0 + (k - 1) = x0 + Tile /\ x0 + Tile \in Int /\ x0 + Tile >= 0
    BY <1>1, <1>7
  <2>3. <<x0 + Tile, row>> \in Coords <=> x0 + Tile < W
    BY <1>4, <1>7, <2>2
  <2> QED BY <1>2, <2>1, <2>2, <2>3 DEF sampleCell, g
<1>8. CASE row \in Rows /\ k # 0 /\ k # Tile + 1
  <2>1. gatherHaloRow(row)[k] = src[tiledIndex(<<x0, row>>) + (k - 1)]
    BY <1>8 DEF gatherHaloRow
  <2>2. k - 1 \in Lanes /\ 0 \in Lanes
    BY <1>1, <1>8 DEF Lanes
  <2>3. PICK t \in Tiles, r \in Lanes : \A i \in Lanes : CellIn(t, r, i) = <<x0 + i, row>>
    BY <1>1, <1>8, RowPlace, LanesAreEdge
  <2>4. x0 + 0 = x0
    BY <1>1
  <2>5. tiledIndex(<<x0, row>>) = At(t, r, 0)
    BY <2>2, <2>3, <2>4, AddressOfCell, LanesAreEdge
  <2>6. At(t, r, 0) + (k - 1) = At(t, r, k - 1)
    <3>1. t * kTileBytes \in Nat /\ r * Tile \in Nat
      BY Shape DEF Tiles, Lanes
    <3> QED BY <1>1, <3>1 DEF At
  <2>7. src[At(t, r, k - 1)] = g[CellIn(t, r, k - 1)] /\ CellIn(t, r, k - 1) \in Coords
    BY <2>2, GridOfBuffer, CellInside, LanesAreEdge DEF g
  <2>8. CellIn(t, r, k - 1) = <<x0 + (k - 1), row>>
    BY <2>2, <2>3
  <2>9. gatherHaloRow(row)[k] = g[CellIn(t, r, k - 1)]
    BY <2>1, <2>5, <2>6, <2>7
  <2>10. sampleCell(g, <<x0 + (k - 1), row>>) = g[CellIn(t, r, k - 1)]
    BY <2>7, <2>8 DEF sampleCell
  <2> QED BY <2>9, <2>10 DEF g
<1> QED BY <1>5, <1>6, <1>7, <1>8

LEMMA HaloType ==
  ASSUME src \in Buffers, tile \in Tiles, NEW row \in Int
  PROVE  gatherHaloRow(row) \in [HaloCols -> Cells]
<1>1. \A k \in HaloCols : gatherHaloRow(row)[k] \in Cells
  BY HaloIsSample, GridOfBuffer, LanesAreEdge, SampleType
<1> QED BY <1>1 DEF gatherHaloRow

-----------------------------------------------------------------------------
(* The vector a turn stores is the row of cells the scalar pass makes.     *)

\* The rows the vertical pass loads: its own, and the partner rows across the
\* edge of the tile.
LEMMA RowHere ==
  ASSUME src \in Buffers, tile \in Tiles, ly \in Lanes, NEW i \in Lanes
  PROVE  RowAt(base + ly * Tile)[i] = sampleCell(GridOf(src), Cell(i))
BY RowOfTile DEF base, Cell

LEMMA RowBelow ==
  ASSUME src \in Buffers, tile \in Tiles, ly \in Lanes, NEW i \in Lanes, y + 1 < H
  PROVE  RowAt(IF ly < Tile - 1 THEN base + ly * Tile + Tile ELSE base + tileRowStride)[i]
           = sampleCell(GridOf(src), Below(Cell(i)))
<1>1. /\ tx \in 0..(tilesX - 1) /\ ty \in 0..(tilesY - 1)
      /\ Below(Cell(i)) = <<tx * Tile + i, y + 1>>
  BY CellsOfTurn DEF Below
<1>2. tile \in Nat /\ ly \in Nat /\ ly <= Tile - 1
  BY Shape DEF Tiles, Lanes
<1>3. CASE ly < Tile - 1
  <2>1. ly + 1 \in Lanes
    BY <1>2, <1>3, Shape DEF Lanes
  <2>2. base + ly * Tile + Tile = tile * kTileBytes + (ly + 1) * Tile
    <3>1. (ly + 1) * Tile = ly * Tile + Tile /\ tile * kTileBytes \in Nat /\ ly * Tile \in Nat
      BY <1>2, Shape
    <3> QED BY <3>1, Shape DEF base
  <2>3. CellIn(tile, ly + 1, i) = Below(Cell(i))
    <3>1. ty * Tile + (ly + 1) = y + 1
      BY <1>1, <1>2, Shape DEF y
    <3> QED BY <1>1, <3>1 DEF CellIn, tx, ty
  <2>4. RowAt(tile * kTileBytes + (ly + 1) * Tile)[i] = sampleCell(GridOf(src), Below(Cell(i)))
    BY <2>1, <2>3, RowOfTile
  <2> QED BY <1>3, <2>2, <2>4
<1>4. CASE ~(ly < Tile - 1)
  <2>1. ly = Tile - 1 /\ 0 \in Lanes
    BY <1>2, <1>4, Shape DEF Lanes
  <2>2. y + 1 = Tile * (ty + 1)
    BY <1>1, <2>1, Shape DEF y
  <2>3. ty + 1 \in 0..(tilesY - 1)
    <3>1. ty + 1 # tilesY
      BY <2>2, Shape, GeometryAssumption
    <3> QED BY <1>1, <3>1, Shape
  <2>4. tile = tilesX * ty + tx
    BY TilePlace DEF tx, ty
  <2>5. tile + tilesX = tilesX * (ty + 1) + tx
    BY <1>1, <2>4, Shape
  <2>6. tile + tilesX \in Tiles
    BY <1>1, <2>3, <2>5, Shape, JoinBelow DEF Tiles
  <2>7. (tile + tilesX) \div tilesX = ty + 1 /\ (tile + tilesX) % tilesX = tx
    <3>1. PICK q \in Nat : q = ty + 1
      BY <2>3, Shape
    <3>2. (tilesX * q + tx) \div tilesX = q /\ (tilesX * q + tx) % tilesX = tx
      BY <1>1, Shape, DivModUnique
    <3> QED BY <2>5, <3>1, <3>2, Zenon
  <2>8. base + tileRowStride = (tile + tilesX) * kTileBytes + 0 * Tile
    <3>1. (tile + tilesX) * kTileBytes = tile * kTileBytes + tilesX * kTileBytes /\ 0 * Tile = 0
      BY <1>2, Shape
    <3>2. tile * kTileBytes \in Nat /\ tilesX * kTileBytes \in Nat
      BY <1>2, Shape
    <3> QED BY <3>1, <3>2 DEF base, tileRowStride
  <2>9. CellIn(tile + tilesX, 0, i) = Below(Cell(i))
    <3>1. (ty + 1) * Tile + 0 = y + 1
      BY <1>1, <2>2, Shape
    <3> QED BY <1>1, <2>7, <3>1 DEF CellIn
  <2>10. RowAt((tile + tilesX) * kTileBytes + 0 * Tile)[i] = sampleCell(GridOf(src), Below(Cell(i)))
    BY <2>1, <2>6, <2>9, RowOfTile
  <2> QED BY <1>4, <2>8, <2>10
<1> QED BY <1>3, <1>4

LEMMA RowAbove ==
  ASSUME src \in Buffers, tile \in Tiles, ly \in Lanes, NEW i \in Lanes, y - 1 >= 0
  PROVE  RowAt(IF ly > 0 THEN (base + ly * Tile) - Tile
               ELSE base - tileRowStride + (Tile - 1) * Tile)[i]
           = sampleCell(GridOf(src), Above(Cell(i)))
<1>1. /\ tx \in 0..(tilesX - 1) /\ ty \in 0..(tilesY - 1)
      /\ Above(Cell(i)) = <<tx * Tile + i, y - 1>>
  BY CellsOfTurn DEF Above
<1>2. tile \in Nat /\ ly \in Nat /\ ly <= Tile - 1
  BY Shape DEF Tiles, Lanes
<1>3. CASE ly > 0
  <2>1. ly - 1 \in Lanes
    BY <1>2, <1>3, Shape DEF Lanes
  <2>2. (base + ly * Tile) - Tile = tile * kTileBytes + (ly - 1) * Tile
    <3>1. (ly - 1) * Tile = ly * Tile - Tile /\ tile * kTileBytes \in Nat /\ ly * Tile \in Nat
      BY <1>2, Shape
    <3> QED BY <3>1, Shape DEF base
  <2>3. CellIn(tile, ly - 1, i) = Above(Cell(i))
    <3>1. ty * Tile + (ly - 1) = y - 1
      BY <1>1, <1>2, Shape DEF y
    <3> QED BY <1>1, <3>1 DEF CellIn, tx, ty
  <2>4. RowAt(tile * kTileBytes + (ly - 1) * Tile)[i] = sampleCell(GridOf(src), Above(Cell(i)))
    BY <2>1, <2>3, RowOfTile
  <2> QED BY <1>3, <2>2, <2>4
<1>4. CASE ~(ly > 0)
  <2>1. ly = 0 /\ Tile - 1 \in Lanes
    BY <1>2, <1>4, Shape DEF Lanes
  <2>2. y = Tile * ty
    BY <1>1, <2>1, Shape DEF y
  <2>3. ty - 1 \in 0..(tilesY - 1)
    <3>1. ty # 0
      BY <2>2, Shape
    <3> QED BY <1>1, <3>1, Shape
  <2>4. tile = tilesX * ty + tx
    BY TilePlace DEF tx, ty
  <2>5. tile - tilesX = tilesX * (ty - 1) + tx
    BY <1>1, <2>4, Shape
  <2>6. tile - tilesX \in Tiles
    BY <1>1, <2>3, <2>5, Shape, JoinBelow DEF Tiles
  <2>7. (tile - tilesX) \div tilesX = ty - 1 /\ (tile - tilesX) % tilesX = tx
    <3>1. PICK q \in Nat : q = ty - 1
      BY <2>3, Shape
    <3>2. (tilesX * q + tx) \div tilesX = q /\ (tilesX * q + tx) % tilesX = tx
      BY <1>1, Shape, DivModUnique
    <3> QED BY <2>5, <3>1, <3>2, Zenon
  <2>8. base - tileRowStride + (Tile - 1) * Tile
          = (tile - tilesX) * kTileBytes + (Tile - 1) * Tile
    <3>1. (tile - tilesX) * kTileBytes = tile * kTileBytes - tilesX * kTileBytes
      BY <1>2, Shape
    <3> QED BY <3>1 DEF base, tileRowStride
  <2>9. CellIn(tile - tilesX, Tile - 1, i) = Above(Cell(i))
    <3>1. (ty - 1) * Tile + (Tile - 1) = y - 1
      <4>1. (ty - 1) * Tile = Tile * ty - Tile
        BY <1>1, Shape
      <4> QED BY <1>1, <2>2, <4>1, Shape
    <3> QED BY <1>1, <2>7, <3>1 DEF CellIn
  <2>10. RowAt((tile - tilesX) * kTileBytes + (Tile - 1) * Tile)[i]
           = sampleCell(GridOf(src), Above(Cell(i)))
    BY <2>1, <2>6, <2>9, RowOfTile
  <2> QED BY <1>4, <2>8, <2>10
<1> QED BY <1>3, <1>4

LEMMA VerticalRowIsScalar ==
  ASSUME src \in Buffers, tile \in Tiles, ly \in Lanes, NEW i \in Lanes
  PROVE  VerticalOut[i] = verticalCell(GridOf(src), VerticalParity(frame), Cell(i))
<1> DEFINE g     == GridOf(src)
           p     == Cell(i)
           here  == base + ly * Tile
           below == IF ly < Tile - 1 THEN here + Tile ELSE base + tileRowStride
           above == IF ly > 0 THEN here - Tile ELSE base - tileRowStride + (Tile - 1) * Tile
<1>1. g \in Grids /\ \A q : sampleCell(g, q) \in Cells
  BY GridOfBuffer, LanesAreEdge, SampleType
<1>2. p = <<tx * Tile + i, y>> /\ p[2] = y /\ y \in Rows
  BY CellsOfTurn
<1>3. RowAt(here)[i] = sampleCell(g, p)
  BY RowHere
<1>4. y + 1 < H => RowAt(below)[i] = sampleCell(g, Below(p))
  BY RowBelow
<1>5. y - 1 >= 0 => RowAt(above)[i] = sampleCell(g, Above(p))
  BY RowAbove
<1>6. y \in Nat /\ y < H /\ H \in Nat
  BY <1>2, GeometryAssumption DEF Rows
<1>7. ~(y + 1 < H) => sampleCell(g, Below(p)) = Wall
  <2>1. Below(p)[2] = y + 1
    BY <1>2 DEF Below
  <2> QED BY <1>6, <2>1 DEF sampleCell, Coords, Rows
<1>8. ~(y - 1 >= 0) => sampleCell(g, Above(p)) = Wall
  <2>1. Above(p)[2] = y - 1
    BY <1>2 DEF Above
  <2> QED BY <1>6, <2>1 DEF sampleCell, Coords, Rows
<1>9. VerticalOut =
        IF y % 2 = VerticalParity(frame)
          THEN IF y + 1 >= H THEN RowAt(here)
               ELSE blendv(RowAt(here), RowAt(below), vSwapVertical(RowAt(here), RowAt(below)))
          ELSE IF y - 1 < 0 THEN RowAt(here)
               ELSE blendv(RowAt(here), RowAt(above), vSwapVertical(RowAt(above), RowAt(here)))
  BY DEF VerticalOut
<1> HIDE DEF g, p, here, below, above
<1>10. \A a, b, mask : blendv(a, b, mask)[i] = IF mask[i] THEN b[i] ELSE a[i]
  BY DEF blendv
<1>11. \A a, b : vSwapVertical(a, b)[i] = swapVertical(a[i], b[i])
  BY DEF vSwapVertical, swapVertical
<1>12. CASE y % 2 = VerticalParity(frame)
  <2>1. CASE y + 1 < H
    <3>1. VerticalOut = blendv(RowAt(here), RowAt(below), vSwapVertical(RowAt(here), RowAt(below)))
      BY <1>6, <1>9, <1>12, <2>1
    <3>2. VerticalOut[i] = IF swapVertical(RowAt(here)[i], RowAt(below)[i])
                             THEN RowAt(below)[i] ELSE RowAt(here)[i]
      BY <1>10, <1>11, <3>1
    <3> QED BY <1>2, <1>3, <1>4, <1>12, <2>1, <3>2 DEF verticalCell, g, p
  <2>2. CASE ~(y + 1 < H)
    <3>1. VerticalOut = RowAt(here)
      BY <1>6, <1>9, <1>12, <2>2
    <3>2. ~swapVertical(sampleCell(g, p), sampleCell(g, Below(p)))
      BY <1>1, <1>7, <2>2, WallNeverSwaps
    <3> QED BY <1>2, <1>3, <1>12, <3>1, <3>2 DEF verticalCell, g, p
  <2> QED BY <2>1, <2>2
<1>13. CASE y % 2 # VerticalParity(frame)
  <2>1. CASE y - 1 >= 0
    <3>1. VerticalOut = blendv(RowAt(here), RowAt(above), vSwapVertical(RowAt(above), RowAt(here)))
      BY <1>6, <1>9, <1>13, <2>1
    <3>2. VerticalOut[i] = IF swapVertical(RowAt(above)[i], RowAt(here)[i])
                             THEN RowAt(above)[i] ELSE RowAt(here)[i]
      BY <1>10, <1>11, <3>1
    <3> QED BY <1>2, <1>3, <1>5, <1>13, <2>1, <3>2 DEF verticalCell, g, p
  <2>2. CASE ~(y - 1 >= 0)
    <3>1. VerticalOut = RowAt(here)
      BY <1>6, <1>9, <1>13, <2>2
    <3>2. ~swapVertical(sampleCell(g, Above(p)), sampleCell(g, p))
      BY <1>1, <1>8, <2>2, WallNeverSwaps
    <3> QED BY <1>2, <1>3, <1>13, <3>1, <3>2 DEF verticalCell, g, p
  <2> QED BY <2>1, <2>2
<1> QED BY <1>12, <1>13

\* A scratch row that holds what gatherHaloRow puts there.
Holds(scratchRow, row) ==
  \A k \in HaloCols : scratchRow[k] = sampleCell(GridOf(src), <<tx * Tile + (k - 1), row>>)

LEMMA LoadsAround ==
  ASSUME tile \in Tiles, ly \in Lanes, NEW i \in Lanes,
         NEW c, NEW d, NEW u, Holds(c, y), Holds(d, y + 1), Holds(u, y - 1)
  PROVE  LET g == GridOf(src)
             p == Cell(i)
         IN  /\ Loadu(c, 0)[i] = sampleCell(g, LeftOf(p))
             /\ Loadu(c, 1)[i] = sampleCell(g, p)
             /\ Loadu(c, 2)[i] = sampleCell(g, RightOf(p))
             /\ Loadu(d, 0)[i] = sampleCell(g, Below(LeftOf(p)))
             /\ Loadu(d, 1)[i] = sampleCell(g, Below(p))
             /\ Loadu(d, 2)[i] = sampleCell(g, Below(RightOf(p)))
             /\ Loadu(u, 0)[i] = sampleCell(g, Above(LeftOf(p)))
             /\ Loadu(u, 1)[i] = sampleCell(g, Above(p))
             /\ Loadu(u, 2)[i] = sampleCell(g, Above(RightOf(p)))
<1> DEFINE x0 == tx * Tile
           p  == Cell(i)
<1>1. p = <<x0 + i, y>> /\ x0 \in Nat /\ i \in Nat
  BY CellsOfTurn, Shape DEF Lanes
<1>2. i + 0 \in HaloCols /\ i + 1 \in HaloCols /\ i + 2 \in HaloCols
  BY Shape DEF Lanes, HaloCols
<1>3. /\ x0 + ((i + 0) - 1) = (x0 + i) - 1
      /\ x0 + ((i + 1) - 1) = x0 + i
      /\ x0 + ((i + 2) - 1) = (x0 + i) + 1
  BY <1>1
<1>4. ASSUME NEW r, NEW row, Holds(r, row)
      PROVE  /\ Loadu(r, 0)[i] = sampleCell(GridOf(src), <<(x0 + i) - 1, row>>)
             /\ Loadu(r, 1)[i] = sampleCell(GridOf(src), <<x0 + i, row>>)
             /\ Loadu(r, 2)[i] = sampleCell(GridOf(src), <<(x0 + i) + 1, row>>)
  <2>1. /\ r[i + 0] = sampleCell(GridOf(src), <<x0 + ((i + 0) - 1), row>>)
        /\ r[i + 1] = sampleCell(GridOf(src), <<x0 + ((i + 1) - 1), row>>)
        /\ r[i + 2] = sampleCell(GridOf(src), <<x0 + ((i + 2) - 1), row>>)
    BY <1>2, <1>4 DEF Holds
  <2> QED BY <1>3, <2>1, Zenon DEF Loadu
<1>5. /\ LeftOf(p) = <<(x0 + i) - 1, y>> /\ RightOf(p) = <<(x0 + i) + 1, y>>
      /\ Below(LeftOf(p)) = <<(x0 + i) - 1, y + 1>> /\ Below(p) = <<x0 + i, y + 1>>
      /\ Below(RightOf(p)) = <<(x0 + i) + 1, y + 1>>
      /\ Above(LeftOf(p)) = <<(x0 + i) - 1, y - 1>> /\ Above(p) = <<x0 + i, y - 1>>
      /\ Above(RightOf(p)) = <<(x0 + i) + 1, y - 1>>
  BY <1>1 DEF LeftOf, RightOf, Below, Above
<1> HIDE DEF x0, p
<1>6. /\ Loadu(c, 0)[i] = sampleCell(GridOf(src), LeftOf(p))
      /\ Loadu(c, 1)[i] = sampleCell(GridOf(src), p)
      /\ Loadu(c, 2)[i] = sampleCell(GridOf(src), RightOf(p))
  BY <1>1, <1>4, <1>5, Zenon
<1>7. /\ Loadu(d, 0)[i] = sampleCell(GridOf(src), Below(LeftOf(p)))
      /\ Loadu(d, 1)[i] = sampleCell(GridOf(src), Below(p))
      /\ Loadu(d, 2)[i] = sampleCell(GridOf(src), Below(RightOf(p)))
  BY <1>4, <1>5, Zenon
<1>8. /\ Loadu(u, 0)[i] = sampleCell(GridOf(src), Above(LeftOf(p)))
      /\ Loadu(u, 1)[i] = sampleCell(GridOf(src), Above(p))
      /\ Loadu(u, 2)[i] = sampleCell(GridOf(src), Above(RightOf(p)))
  BY <1>4, <1>5, Zenon
<1> QED BY <1>6, <1>7, <1>8 DEF p

\* The vector predicate is the scalar one, lane by lane.
LEMMA VectorSpreads ==
  ASSUME NEW a, NEW b, NEW ba, NEW bb, NEW aa, NEW ab, NEW i \in Lanes
  PROVE  vSwapHorizontal(a, b, ba, bb, aa, ab)[i]
           = swapHorizontal(a[i], b[i], ba[i], bb[i], aa[i], ab[i])
<1>1. \A v, w, bv, bw, av : vSpreads(v, w, bv, bw, av)[i] = Spreads(v[i], w[i], bv[i], bw[i], av[i])
  BY DEF vSpreads, Spreads, isMobile, blockedVertically
<1>2. vSwapHorizontal(a, b, ba, bb, aa, ab)[i]
        = (vSpreads(a, b, ba, bb, aa)[i] \/ vSpreads(b, a, bb, ba, ab)[i])
  BY Zenon DEF vSwapHorizontal
<1>3. /\ vSpreads(a, b, ba, bb, aa)[i] = Spreads(a[i], b[i], ba[i], bb[i], aa[i])
      /\ vSpreads(b, a, bb, ba, ab)[i] = Spreads(b[i], a[i], bb[i], ba[i], ab[i])
  BY <1>1
<1> QED BY <1>2, <1>3, Zenon DEF swapHorizontal

LEMMA HorizontalRowIsScalar ==
  ASSUME tile \in Tiles, ly \in Lanes, NEW i \in Lanes,
         NEW c, NEW d, NEW u, Holds(c, y), Holds(d, y + 1), Holds(u, y - 1)
  PROVE  HorizontalOut(c, d, u)[i] = horizontalCell(GridOf(src), HorizontalParity(frame), Cell(i))
<1> DEFINE g == GridOf(src)
           p == Cell(i)
           decR == vSwapHorizontal(Loadu(c, 1), Loadu(c, 2), Loadu(d, 1), Loadu(d, 2),
                                   Loadu(u, 1), Loadu(u, 2))
           decL == vSwapHorizontal(Loadu(c, 0), Loadu(c, 1), Loadu(d, 0), Loadu(d, 1),
                                   Loadu(u, 0), Loadu(u, 1))
<1>1. /\ p = <<tx * Tile + i, y>> /\ tx \in Nat /\ i \in Nat /\ y \in Int
      /\ RightOf(LeftOf(p)) = p
  <2>1. p = <<tx * Tile + i, y>> /\ p \in Coords /\ tx \in Nat /\ y \in Rows
    BY CellsOfTurn
  <2> QED BY <2>1, BelowAbove, Shape DEF Lanes, Rows
<1>2. p[1] % 2 = i % 2
  <2>1. PICK m \in Nat : Tile = 2 * m
    <3>1. Tile % 2 = 0 /\ Tile \in Nat
      BY GeometryAssumption
    <3>2. Tile = 2 * (Tile \div 2) /\ Tile \div 2 \in Nat
      BY <3>1
    <3> QED BY <3>2
  <2>2. tx * Tile = 2 * (tx * m) /\ tx * m \in Nat
    BY <1>1, <2>1
  <2>3. PICK n \in Nat : tx * Tile = 2 * n
    BY <2>2
  <2>4. (2 * n + i) % 2 = i % 2
    BY <1>1
  <2>5. p[1] = tx * Tile + i
    BY <1>1
  <2> QED BY <2>3, <2>4, <2>5, Zenon
<1>3. /\ Loadu(c, 0)[i] = sampleCell(g, LeftOf(p))
      /\ Loadu(c, 1)[i] = sampleCell(g, p)
      /\ Loadu(c, 2)[i] = sampleCell(g, RightOf(p))
      /\ Loadu(d, 0)[i] = sampleCell(g, Below(LeftOf(p)))
      /\ Loadu(d, 1)[i] = sampleCell(g, Below(p))
      /\ Loadu(d, 2)[i] = sampleCell(g, Below(RightOf(p)))
      /\ Loadu(u, 0)[i] = sampleCell(g, Above(LeftOf(p)))
      /\ Loadu(u, 1)[i] = sampleCell(g, Above(p))
      /\ Loadu(u, 2)[i] = sampleCell(g, Above(RightOf(p)))
  BY LoadsAround
<1> HIDE DEF p, g
<1>4. decR[i] = PairSpreads(g, p)
  <2>1. decR[i] = swapHorizontal(Loadu(c, 1)[i], Loadu(c, 2)[i], Loadu(d, 1)[i],
                                 Loadu(d, 2)[i], Loadu(u, 1)[i], Loadu(u, 2)[i])
    BY VectorSpreads
  <2> QED BY <1>3, <2>1, Zenon DEF PairSpreads
<1>5. decL[i] = PairSpreads(g, LeftOf(p))
  <2>1. decL[i] = swapHorizontal(Loadu(c, 0)[i], Loadu(c, 1)[i], Loadu(d, 0)[i],
                                 Loadu(d, 1)[i], Loadu(u, 0)[i], Loadu(u, 1)[i])
    BY VectorSpreads
  <2> QED BY <1>1, <1>3, <2>1, Zenon DEF PairSpreads
<1> DEFINE asLeft  == blendv(Loadu(c, 1), Loadu(c, 2), decR)
           asRight == blendv(Loadu(c, 1), Loadu(c, 0), decL)
           isLeft  == [j \in Lanes |-> j % 2 = HorizontalParity(frame)]
<1>6. HorizontalOut(c, d, u) = blendv(asRight, asLeft, isLeft)
  BY DEF HorizontalOut
<1> HIDE DEF decL, decR
<1>7. \A a, b, mask : blendv(a, b, mask)[i] = IF mask[i] THEN b[i] ELSE a[i]
  BY DEF blendv
<1>8. HorizontalOut(c, d, u)[i] =
        IF i % 2 = HorizontalParity(frame)
          THEN IF decR[i] THEN Loadu(c, 2)[i] ELSE Loadu(c, 1)[i]
          ELSE IF decL[i] THEN Loadu(c, 0)[i] ELSE Loadu(c, 1)[i]
  <2>1. /\ asLeft[i] = IF decR[i] THEN Loadu(c, 2)[i] ELSE Loadu(c, 1)[i]
        /\ asRight[i] = IF decL[i] THEN Loadu(c, 0)[i] ELSE Loadu(c, 1)[i]
    BY <1>7, Zenon
  <2>2. isLeft[i] = (i % 2 = HorizontalParity(frame))
    BY Zenon
  <2> HIDE DEF asLeft, asRight, isLeft
  <2>3. HorizontalOut(c, d, u)[i] = IF isLeft[i] THEN asLeft[i] ELSE asRight[i]
    <3>1. blendv(asRight, asLeft, isLeft)[i] = IF isLeft[i] THEN asLeft[i] ELSE asRight[i]
      BY Zenon DEF blendv
    <3> QED BY <1>6, <3>1, Zenon
  <2> QED BY <2>1, <2>2, <2>3, Zenon
<1> QED BY <1>2, <1>3, <1>4, <1>5, <1>8 DEF horizontalCell, g, p

LEMMA DecayRowIsScalar ==
  ASSUME tile \in Tiles, ly \in Lanes, NEW i \in Lanes,
         NEW c, NEW d, NEW u, Holds(c, y), Holds(d, y + 1), Holds(u, y - 1)
  PROVE  DecayOut(c, d, u)[i] = decayCell(GridOf(src), noise, Cell(i))
<1> DEFINE g == GridOf(src)
           p == Cell(i)
<1>1. p = <<tx * Tile + i, y>> /\ tx \in Nat /\ i \in 0..(Tile - 1)
  BY CellsOfTurn DEF Lanes
<1>2. p[1] % Tile = i /\ p[1] \div Tile = tx /\ p[2] = y
  <2>1. (Tile * tx + i) % Tile = i /\ (Tile * tx + i) \div Tile = tx
    BY <1>1, Shape, DivModUnique
  <2>2. tx * Tile = Tile * tx
    BY <1>1, Shape
  <2> QED BY <1>1, <2>1, <2>2
<1>3. randBit(noise, p) = (i \in noise[<<tx, y>>])
  BY <1>2 DEF randBit
<1>4. /\ Loadu(c, 0)[i] = sampleCell(g, LeftOf(p))
      /\ Loadu(c, 1)[i] = sampleCell(g, p)
      /\ Loadu(c, 2)[i] = sampleCell(g, RightOf(p))
      /\ Loadu(d, 1)[i] = sampleCell(g, Below(p))
      /\ Loadu(u, 1)[i] = sampleCell(g, Above(p))
  BY LoadsAround
<1>5. /\ c[i] = sampleCell(g, LeftOf(p)) /\ c[i + 1] = sampleCell(g, p)
      /\ c[i + 2] = sampleCell(g, RightOf(p))
      /\ d[i + 1] = sampleCell(g, Below(p)) /\ u[i + 1] = sampleCell(g, Above(p))
  <2>1. i + 0 = i
    BY <1>1
  <2> QED BY <1>4, <2>1 DEF Loadu
<1>6. DecayOut(c, d, u)[i] =
        IF /\ c[i + 1] = Fire
           /\ Water \in {c[i], c[i + 2], u[i + 1], d[i + 1]} \/ i \in noise[<<tx, y>>]
          THEN 0 ELSE c[i + 1]
  BY DEF DecayOut
<1> HIDE DEF g, p
<1>7. decayCell(g, noise, p) =
        decayFire(c[i + 1], c[i], c[i + 2], u[i + 1], d[i + 1], i \in noise[<<tx, y>>])
  BY <1>3, <1>5, Zenon DEF decayCell
<1>8. DecayOut(c, d, u)[i] = decayCell(g, noise, p)
  BY <1>6, <1>7 DEF decayFire, Empty
<1> QED BY <1>8 DEF g, p

-----------------------------------------------------------------------------
(* The invariant: the scratch rows are right, and the destination buffer   *)
(* is exact in every row the pass has passed.                              *)

\* The cell the scalar code of this pass makes.
PassCell(p) ==
  CASE pc = "vertical"   -> verticalCell(GridOf(src), VerticalParity(frame), p)
    [] pc = "horizontal" -> horizontalCell(GridOf(src), HorizontalParity(frame), p)
    [] pc = "decay"      -> decayCell(GridOf(src), noise, p)

PassNames == {"vertical", "horizontal", "decay"}

Done(t, r) == t < tile \/ (t = tile /\ r < ly)

Progress ==
  /\ tile = tilesX * tilesY => ly = 0
  /\ pc \in PassNames =>
       \A t \in Tiles, r \in Lanes, i \in Lanes :
         Done(t, r) => dst[At(t, r, i)] = PassCell(CellIn(t, r, i))

IInv == RotationKeepsRows /\ Progress

LEMMA PassCellType ==
  ASSUME src \in Buffers, pc \in PassNames, NEW p
  PROVE  PassCell(p) \in Cells
<1>1. \A q : sampleCell(GridOf(src), q) \in Cells
  BY GridOfBuffer, LanesAreEdge, SampleType
<1> DEFINE g == GridOf(src)
<1> HIDE DEF g
<1>2. \A q : sampleCell(g, q) \in Cells
  BY <1>1 DEF g
<1>3. verticalCell(g, VerticalParity(frame), p) \in Cells
  BY <1>2 DEF verticalCell
<1>4. horizontalCell(g, HorizontalParity(frame), p) \in Cells
  BY <1>2 DEF horizontalCell
<1>5. decayCell(g, noise, p) \in Cells
  BY <1>2 DEF decayCell, decayFire, Cells, Empty
<1>6. PassCell(p) = CASE pc = "vertical"   -> verticalCell(g, VerticalParity(frame), p)
                      [] pc = "horizontal" -> horizontalCell(g, HorizontalParity(frame), p)
                      [] pc = "decay"      -> decayCell(g, noise, p)
  BY DEF PassCell, g
<1> QED BY <1>3, <1>4, <1>5, <1>6 DEF PassNames

LEMMA TurnAdvances ==
  ASSUME tile \in Tiles, ly \in Lanes, AdvanceRow
  PROVE  /\ tile' \in 0..(tilesX * tilesY) /\ ly' \in Lanes
         /\ tile' = tilesX * tilesY => ly' = 0
         /\ ly' > 0 => tile' = tile /\ ly' = ly + 1
         /\ \A t \in Tiles, r \in Lanes : Done(t, r)' => Done(t, r) \/ (t = tile /\ r = ly)
<1>1. /\ tile \in Nat /\ tile < tilesX * tilesY /\ tilesX * tilesY \in Nat
      /\ ly \in Nat /\ ly <= Tile - 1 /\ Tile \in Nat \ {0}
  BY Shape DEF Tiles, Lanes
<1>2. CASE ly = Tile - 1
  <2>1. tile' = tile + 1 /\ ly' = 0
    BY <1>1, <1>2 DEF AdvanceRow
  <2> QED BY <1>1, <1>2, <2>1 DEF Done, Tiles, Lanes
<1>3. CASE ly # Tile - 1
  <2>1. tile' = tile /\ ly' = ly + 1
    BY <1>1, <1>3 DEF AdvanceRow
  <2> QED BY <1>1, <1>3, <2>1 DEF Done, Tiles, Lanes
<1> QED BY <1>2, <1>3

\* A turn that stores the scalar cells of its row keeps the progress.
LEMMA TurnKeepsProgress ==
  ASSUME src \in Buffers, dst \in Buffers, Progress, pc \in PassNames,
         tile \in Tiles, ly \in Lanes, AdvanceRow, NEW out, StoreRow(out),
         \A i \in Lanes : out[i] = PassCell(Cell(i)),
         UNCHANGED <<src, frame, pc, noise>>
  PROVE  dst' \in Buffers /\ Progress'
<1> DEFINE here == base + ly * Tile
<1>1. dst' = [a \in 0..(Size - 1) |-> IF a - here \in Lanes THEN out[a - here] ELSE dst[a]]
  BY DEF StoreRow
<1>2. \A i \in Lanes : out[i] \in Cells
  BY PassCellType
<1>3. dst' \in Buffers
  <2> HIDE DEF here
  <2> QED BY <1>1, <1>2 DEF Buffers
<1>4. \A p : PassCell(p)' = PassCell(p)
  BY DEF PassCell
<1>5. /\ tile \in Nat /\ ly \in Nat /\ Lanes \subseteq Nat
      /\ tile * kTileBytes \in Nat /\ ly * Tile \in Nat
  BY Shape DEF Tiles, Lanes
<1>6. \A j \in Lanes : At(tile, ly, j) = here + j /\ here \in Nat
  BY <1>5 DEF At, base
<1>7. ASSUME NEW t \in Tiles, NEW r \in Lanes, NEW i \in Lanes, Done(t, r)'
      PROVE  dst'[At(t, r, i)] = PassCell(CellIn(t, r, i))
  <2>1. At(t, r, i) \in 0..(Size - 1) /\ At(t, r, i) \in Int
    BY AddressBelow, LanesAreEdge
  <2>2. CASE t = tile /\ r = ly
    <3>1. At(t, r, i) - here = i
      BY <1>5, <1>6, <2>2
    <3>2. dst'[At(t, r, i)] = out[i]
      BY <1>1, <2>1, <3>1
    <3> QED BY <2>2, <3>2 DEF Cell
  <2>3. CASE ~(t = tile /\ r = ly)
    <3>1. Done(t, r)
      BY <1>7, <2>3, TurnAdvances
    <3>2. At(t, r, i) - here \notin Lanes
      <4> SUFFICES ASSUME At(t, r, i) - here \in Lanes PROVE FALSE
        OBVIOUS
      <4>1. PICK j \in Lanes : j = At(t, r, i) - here
        OBVIOUS
      <4>2. At(tile, ly, j) = At(t, r, i)
        BY <1>5, <1>6, <2>1, <4>1
      <4> QED BY <2>3, <4>2, AddressUnique, LanesAreEdge
    <3>3. dst'[At(t, r, i)] = dst[At(t, r, i)]
      BY <1>1, <2>1, <3>2
    <3> QED BY <3>1, <3>3 DEF Progress
  <2> QED BY <2>2, <2>3
<1>8. tile' = tilesX * tilesY => ly' = 0
  BY TurnAdvances
<1> QED BY <1>3, <1>4, <1>7, <1>8 DEF Progress

LEMMA Rotation ==
  ASSUME {up, cu, dn} = 0..2
  PROVE  /\ up \in 0..2 /\ cu \in 0..2 /\ dn \in 0..2
         /\ up # cu /\ up # dn /\ cu # dn
<1>1. 0 \in {up, cu, dn} /\ 1 \in {up, cu, dn} /\ 2 \in {up, cu, dn}
  OBVIOUS
<1> QED BY <1>1

\* The three rows a halo pass computes with.
LEMMA GatheredRows ==
  ASSUME RotationKeepsRows, pc \in {"horizontal", "decay"}, tile \in Tiles
  PROVE  /\ Gathered \in [0..2 -> [HaloCols -> Cells]]
         /\ Gathered[up] = gatherHaloRow(y - 1)
         /\ Gathered[cu] = gatherHaloRow(y)
         /\ Gathered[dn] = gatherHaloRow(y + 1)
<1> DEFINE first == IF ly = 0
                      THEN [buf EXCEPT ![up] = gatherHaloRow(y - 1), ![cu] = gatherHaloRow(y)]
                      ELSE buf
           Halos == [HaloCols -> Cells]
<1>1. /\ src \in Buffers /\ ly \in Lanes /\ buf \in [0..2 -> Halos] /\ {up, cu, dn} = 0..2
      /\ ly > 0 => buf[up] = gatherHaloRow(y - 1) /\ buf[cu] = gatherHaloRow(y)
  <2>1. tile < tilesX * tilesY
    BY Shape DEF Tiles
  <2> QED BY <2>1 DEF RotationKeepsRows, TypeOK, Buffers
<1>2. up \in 0..2 /\ cu \in 0..2 /\ dn \in 0..2 /\ up # cu /\ up # dn /\ cu # dn
  BY <1>1, Rotation
<1>3. y \in Int
  BY <1>1, CellsOfTurn, GeometryAssumption DEF Rows
<1>4. /\ gatherHaloRow(y - 1) \in Halos /\ gatherHaloRow(y) \in Halos
      /\ gatherHaloRow(y + 1) \in Halos
  BY <1>1, <1>3, HaloType
<1>5. ly = 0 \/ ly > 0
  BY <1>1, Shape DEF Lanes
<1> HIDE DEF Halos
<1>6. /\ first \in [0..2 -> Halos]
      /\ first[up] = gatherHaloRow(y - 1) /\ first[cu] = gatherHaloRow(y)
  BY <1>1, <1>2, <1>4, <1>5
<1>7. Gathered = [first EXCEPT ![dn] = gatherHaloRow(y + 1)]
  BY DEF Gathered
<1> HIDE DEF first
<1> QED BY <1>2, <1>4, <1>6, <1>7 DEF Halos

LEMMA GatheredHold ==
  ASSUME RotationKeepsRows, pc \in {"horizontal", "decay"}, tile \in Tiles
  PROVE  Holds(Gathered[cu], y) /\ Holds(Gathered[dn], y + 1) /\ Holds(Gathered[up], y - 1)
<1>1. src \in Buffers /\ ly \in Lanes
  BY DEF RotationKeepsRows, TypeOK, Buffers
<1>2. y \in Int /\ y - 1 \in Int /\ y + 1 \in Int
  BY <1>1, CellsOfTurn, GeometryAssumption DEF Rows
<1>3. \A row \in Int : Holds(gatherHaloRow(row), row)
  BY <1>1, HaloIsSample DEF Holds
<1> QED BY <1>2, <1>3, GatheredRows

\* A turn of a halo pass keeps the invariant.
LEMMA HaloTurn ==
  ASSUME IInv, pc \in {"horizontal", "decay"}, tile < tilesX * tilesY,
         NEW out, StoreRow(out), \A i \in Lanes : out[i] = PassCell(Cell(i)),
         buf' = Gathered, Rotate, AdvanceRow,
         UNCHANGED <<src, frame, pc, noise, hasAvx2>>
  PROVE  IInv'
<1>1. /\ src \in Buffers /\ dst \in Buffers /\ ly \in Lanes /\ {up, cu, dn} = 0..2
      /\ pc \in PassNames /\ tile \in Tiles /\ Progress
  <2>1. tile \in 0..(tilesX * tilesY)
    BY DEF IInv, RotationKeepsRows, TypeOK
  <2>2. tile \in Tiles
    BY <2>1, Shape DEF Tiles
  <2> QED BY <2>2 DEF IInv, RotationKeepsRows, TypeOK, Buffers, PassNames
<1>2. dst' \in Buffers /\ Progress'
  BY <1>1, TurnKeepsProgress
<1>3. /\ tile' \in 0..(tilesX * tilesY) /\ ly' \in Lanes
      /\ ly' > 0 => tile' = tile /\ ly' = ly + 1
  BY <1>1, TurnAdvances
<1>4. /\ buf' \in [0..2 -> [HaloCols -> Cells]]
      /\ buf'[cu] = gatherHaloRow(y) /\ buf'[dn] = gatherHaloRow(y + 1)
  BY <1>1, GatheredRows DEF IInv
<1>5. up' = cu /\ cu' = dn /\ dn' = up /\ {up', cu', dn'} = 0..2
  BY <1>1 DEF Rotate
<1>6. TypeOK'
  BY <1>1, <1>2, <1>3, <1>4, <1>5 DEF IInv, RotationKeepsRows, TypeOK, Buffers
<1>7. ASSUME ly' > 0
      PROVE  buf'[up'] = gatherHaloRow(y - 1)' /\ buf'[cu'] = gatherHaloRow(y)'
  <2>1. tile' = tile /\ ly' = ly + 1
    BY <1>3, <1>7
  <2>2. y' - 1 = y /\ y' = y + 1
    <3>1. y \in Int /\ y = ty * Tile + ly /\ ty * Tile \in Int /\ ly \in Int
      BY <1>1, CellsOfTurn, Shape, GeometryAssumption DEF Rows, Lanes, y
    <3>2. y' = ty * Tile + (ly + 1)
      BY <2>1 DEF y, ty
    <3> QED BY <3>1, <3>2
  <2>3. \A row : gatherHaloRow(row)' = gatherHaloRow(row)
    BY <2>1 DEF gatherHaloRow, tx
  <2>4. gatherHaloRow(y - 1)' = gatherHaloRow(y) /\ gatherHaloRow(y)' = gatherHaloRow(y + 1)
    BY <2>1, <2>2 DEF gatherHaloRow, tx
  <2> QED BY <1>4, <1>5, <2>4
<1> QED BY <1>2, <1>6, <1>7 DEF IInv, RotationKeepsRows

LEMMA StartTypes ==
  /\ BufferOf(Cleared) \in Buffers /\ BufferOf(Blank) \in Buffers
  /\ 0 \in Frames /\ Calm \in Noise /\ 0 \in Lanes /\ 0 \in 0..(tilesX * tilesY)
<1>1. Cleared \in Grids /\ Blank \in Grids
  BY DEF Cleared, Blank, Grids, Cells, Wall, Empty
<1>2. 0 \in Frames /\ Calm \in Noise
  BY InputAssumption DEF Frames, Calm, Noise
<1>3. 0 \in Lanes /\ 0 \in 0..(tilesX * tilesY)
  BY Shape DEF Lanes
<1> QED BY <1>1, <1>2, <1>3, BufferOfGrid

LEMMA FrameOfBuffer ==
  ASSUME NEW b \in Buffers, NEW f \in Frames, NEW words
  PROVE  /\ NextFrame(GridOf(b), f, words) \in Grids
         /\ AfterExchange(GridOf(b), f) \in Grids
         /\ NextOf(f) \in Frames
<1>1. GridOf(b) \in Grids /\ f \in Nat
  BY GridOfBuffer, LanesAreEdge DEF Frames
<1>2. NextOf(f) \in Frames
  BY InputAssumption DEF NextOf, Frames
<1> QED BY <1>1, <1>2, FrameType

LEMMA InvInit == Init => IInv
<1> SUFFICES ASSUME Init PROVE IInv
  OBVIOUS
<1>1. /\ src \in Buffers /\ dst \in Buffers
      /\ frame \in Frames /\ noise \in Noise /\ ly \in Lanes /\ tile \in 0..(tilesX * tilesY)
  BY StartTypes DEF Init
<1>2. buf \in [0..2 -> [HaloCols -> Cells]]
  BY DEF Init, Stale, Cells, Empty
<1>3. TypeOK
  BY <1>1, <1>2 DEF Init, TypeOK, Buffers
<1> QED BY <1>3 DEF Init, IInv, RotationKeepsRows, Progress, PassNames

\* What an edit leaves in the buffers.
LEMMA EditTypes ==
  ASSUME IInv, Edit
  PROVE  src' \in Buffers /\ dst' \in Buffers /\ frame' \in Frames
<1>1. src \in Buffers /\ dst \in Buffers /\ frame \in Frames
  BY DEF IInv, RotationKeepsRows, TypeOK, Buffers
<1>2. GridOf(src) \in Grids
  BY <1>1, GridOfBuffer, LanesAreEdge
<1>3. CASE SetCell
  <2>1. PICK p \in Targets, c \in Materials : src' = [src EXCEPT ![tiledIndex(p)] = c]
    BY <1>3 DEF SetCell
  <2>2. c \in Cells /\ dst' = dst /\ frame' = frame
    BY <1>3, InputAssumption DEF SetCell
  <2> QED BY <1>1, <2>1, <2>2 DEF Buffers
<1>4. CASE PaintDisc
  <2>1. PICK p \in Targets, r \in Radii, c \in Materials :
           src' = BufferOf(Painted(GridOf(src), p, r, c))
    BY <1>4 DEF PaintDisc
  <2>2. c \in Cells /\ dst' = dst /\ frame' = frame
    BY <1>4, InputAssumption DEF PaintDisc
  <2>3. Painted(GridOf(src), p, r, c) \in Grids
    BY <1>2, <2>2, EditsType
  <2> QED BY <1>1, <2>1, <2>2, <2>3, BufferOfGrid
<1>5. CASE Clear
  BY <1>5, StartTypes DEF Clear
<1>6. CASE Seed
  <2>1. PICK fill \in SeedFills : src' = BufferOf(Seeded(GridOf(src), fill))
    BY <1>6 DEF Seed
  <2>2. Seeded(GridOf(src), fill) \in Grids
    BY <1>2, EditsType
  <2> QED BY <1>1, <1>6, <2>1, <2>2, BufferOfGrid, StartTypes DEF Seed
<1> QED BY <1>3, <1>4, <1>5, <1>6 DEF Edit

LEMMA EndPassKeeps ==
  ASSUME IInv, NEW pass \in PassNames, NEW next, EndPass(pass, next),
         next \in {"idle", "horizontal", "decay"},
         frame' \in Frames, noise' \in Noise, UNCHANGED hasAvx2
  PROVE  IInv'
<1>1. /\ src' = dst /\ dst' = src /\ pc' = next /\ tile' = 0 /\ ly' = ly /\ buf' = buf
      /\ up' = 0 /\ cu' = 1 /\ dn' = 2 /\ tile = tilesX * tilesY
  BY DEF EndPass
<1>2. ly = 0 /\ ly \in Nat
  BY <1>1, Shape DEF IInv, Progress, RotationKeepsRows, TypeOK, Lanes
<1>3. {up', cu', dn'} = 0..2
  BY <1>1
<1>4. TypeOK'
  BY <1>1, <1>3, StartTypes DEF IInv, RotationKeepsRows, TypeOK
<1>5. \A t \in Tiles, r \in Lanes : ~Done(t, r)'
  BY <1>1, <1>2, Shape DEF Done, Tiles, Lanes
<1>6. tilesX * tilesY # 0
  BY Shape
<1> QED BY <1>1, <1>2, <1>4, <1>5, <1>6 DEF IInv, RotationKeepsRows, Progress

LEMMA InvNext == IInv /\ [Next]_vars => IInv'
<1> SUFFICES ASSUME IInv, [Next]_vars PROVE IInv'
  OBVIOUS
<1>0. /\ src \in Buffers /\ dst \in Buffers /\ frame \in Frames /\ noise \in Noise
      /\ tile \in 0..(tilesX * tilesY) /\ ly \in Lanes /\ TypeOK
      /\ tile < tilesX * tilesY => tile \in Tiles
  <2>1. tile \in 0..(tilesX * tilesY)
    BY DEF IInv, RotationKeepsRows, TypeOK
  <2>2. tile < tilesX * tilesY => tile \in Tiles
    BY <2>1, Shape DEF Tiles
  <2> QED BY <2>2 DEF IInv, RotationKeepsRows, TypeOK, Buffers
<1>1. CASE BeginStep /\ UNCHANGED hasAvx2
  <2>1. /\ pc' = "vertical" /\ tile' = 0 /\ ly' = 0 /\ noise' \in NoiseWords
        /\ UNCHANGED <<src, dst, frame, buf, up, cu, dn, hasAvx2>>
    BY <1>1 DEF BeginStep, scratch
  <2>2. noise' \in Noise
    BY <2>1, InputAssumption
  <2>3. TypeOK'
    BY <1>0, <2>1, <2>2, StartTypes DEF TypeOK
  <2>4. \A t \in Tiles, r \in Lanes : ~Done(t, r)'
    BY <2>1, Shape DEF Done, Tiles, Lanes
  <2> QED BY <2>1, <2>3, <2>4 DEF IInv, RotationKeepsRows, Progress
<1>2. CASE ScalarStep /\ UNCHANGED hasAvx2
  <2>1. PICK words \in NoiseWords : src' = BufferOf(NextFrame(GridOf(src), frame, words))
    BY <1>2 DEF ScalarStep
  <2>2. /\ dst' = BufferOf(AfterExchange(GridOf(src), frame)) /\ frame' = NextOf(frame)
        /\ pc = "idle" /\ UNCHANGED <<pc, noise, tile, ly, buf, up, cu, dn, hasAvx2>>
    BY <1>2 DEF ScalarStep, scratch
  <2>3. src' \in Buffers /\ dst' \in Buffers /\ frame' \in Frames
    BY <1>0, <2>1, <2>2, FrameOfBuffer, BufferOfGrid
  <2>4. TypeOK'
    BY <1>0, <2>2, <2>3 DEF TypeOK, Buffers
  <2> QED BY <2>2, <2>4 DEF IInv, RotationKeepsRows, Progress, PassNames
<1>3. CASE VerticalRow /\ UNCHANGED hasAvx2
  <2>1. /\ pc = "vertical" /\ tile < tilesX * tilesY /\ StoreRow(VerticalOut) /\ AdvanceRow
        /\ UNCHANGED <<src, frame, pc, noise, buf, up, cu, dn, hasAvx2>>
    BY <1>3 DEF VerticalRow, scratch
  <2>2. \A i \in Lanes : VerticalOut[i] = PassCell(Cell(i))
    BY <1>0, <2>1, VerticalRowIsScalar DEF PassCell
  <2>3. dst' \in Buffers /\ Progress'
    BY <1>0, <2>1, <2>2, TurnKeepsProgress DEF IInv, PassNames
  <2>4. tile' \in 0..(tilesX * tilesY) /\ ly' \in Lanes
    BY <1>0, <2>1, TurnAdvances
  <2>5. TypeOK'
    BY <1>0, <2>1, <2>3, <2>4 DEF TypeOK, Buffers
  <2> QED BY <2>1, <2>3, <2>5 DEF IInv, RotationKeepsRows
<1>4. CASE HorizontalRow /\ UNCHANGED hasAvx2
  <2> DEFINE out == HorizontalOut(Gathered[cu], Gathered[dn], Gathered[up])
  <2>1. /\ pc = "horizontal" /\ tile < tilesX * tilesY
        /\ buf' = Gathered /\ Rotate /\ AdvanceRow
        /\ UNCHANGED <<src, frame, pc, noise, hasAvx2>>
    BY <1>4 DEF HorizontalRow, HaloRow
  <2>2. StoreRow(out)
    BY <1>4 DEF HorizontalRow, HaloRow
  <2>3. \A i \in Lanes : out[i] = PassCell(Cell(i))
    <3>1. Holds(Gathered[cu], y) /\ Holds(Gathered[dn], y + 1) /\ Holds(Gathered[up], y - 1)
      BY <1>0, <2>1, GatheredHold DEF IInv
    <3>2. \A i \in Lanes :
            out[i] = horizontalCell(GridOf(src), HorizontalParity(frame), Cell(i))
      BY <1>0, <2>1, <3>1, HorizontalRowIsScalar
    <3> HIDE DEF out
    <3> QED BY <2>1, <3>2 DEF PassCell
  <2> HIDE DEF out
  <2> QED BY <2>1, <2>2, <2>3, HaloTurn
<1>5. CASE DecayRow /\ UNCHANGED hasAvx2
  <2> DEFINE out == DecayOut(Gathered[cu], Gathered[dn], Gathered[up])
  <2>1. /\ pc = "decay" /\ tile < tilesX * tilesY
        /\ buf' = Gathered /\ Rotate /\ AdvanceRow
        /\ UNCHANGED <<src, frame, pc, noise, hasAvx2>>
    BY <1>5 DEF DecayRow, HaloRow
  <2>2. StoreRow(out)
    BY <1>5 DEF DecayRow, HaloRow
  <2>3. \A i \in Lanes : out[i] = PassCell(Cell(i))
    <3>1. Holds(Gathered[cu], y) /\ Holds(Gathered[dn], y + 1) /\ Holds(Gathered[up], y - 1)
      BY <1>0, <2>1, GatheredHold DEF IInv
    <3>2. \A i \in Lanes : out[i] = decayCell(GridOf(src), noise, Cell(i))
      BY <1>0, <2>1, <3>1, DecayRowIsScalar
    <3> HIDE DEF out
    <3> QED BY <2>1, <3>2 DEF PassCell
  <2> HIDE DEF out
  <2> QED BY <2>1, <2>2, <2>3, HaloTurn
<1>6. CASE EndVertical /\ UNCHANGED hasAvx2
  BY <1>0, <1>6, EndPassKeeps DEF EndVertical, PassNames
<1>7. CASE EndHorizontal /\ UNCHANGED hasAvx2
  BY <1>0, <1>7, EndPassKeeps DEF EndHorizontal, PassNames
<1>8. CASE EndDecay /\ UNCHANGED hasAvx2
  <2>1. frame' \in Frames /\ noise' \in Noise
    BY <1>0, <1>8, FrameOfBuffer, StartTypes DEF EndDecay
  <2> QED BY <1>8, <2>1, EndPassKeeps DEF EndDecay, PassNames
<1>9. CASE Edit /\ UNCHANGED hasAvx2
  <2>1. src' \in Buffers /\ dst' \in Buffers /\ frame' \in Frames
    BY <1>9, EditTypes
  <2>2. pc = "idle" /\ UNCHANGED <<pc, noise, tile, ly, buf, up, cu, dn, hasAvx2>>
    BY <1>9 DEF Edit, scratch
  <2>3. TypeOK'
    BY <1>0, <2>1, <2>2 DEF TypeOK, Buffers
  <2> QED BY <2>2, <2>3 DEF IInv, RotationKeepsRows, Progress, PassNames
<1>10. CASE UNCHANGED vars
  <2>1. UNCHANGED <<hasAvx2, src, dst, frame, pc, noise, tile, ly, buf, up, cu, dn>>
    BY <1>10 DEF vars, scratch
  <2>2. TypeOK'
    BY <1>0, <2>1 DEF TypeOK
  <2>3. Progress'
    BY <2>1 DEF IInv, Progress, PassCell, Done
  <2>4. gatherHaloRow(y - 1)' = gatherHaloRow(y - 1) /\ gatherHaloRow(y)' = gatherHaloRow(y)
    BY <2>1 DEF gatherHaloRow, tx, ty, y
  <2> QED BY <2>1, <2>2, <2>3, <2>4 DEF IInv, RotationKeepsRows
<1> QED BY <1>1, <1>2, <1>3, <1>4, <1>5, <1>6, <1>7, <1>8, <1>9, <1>10 DEF Next, Work

\* Within a tile the rows the rotation leaves in place are the rows a fresh
\* gather would bring, and every variable keeps its range.
THEOREM RotationIsExact == Spec => []RotationKeepsRows
<1>1. IInv => RotationKeepsRows
  BY DEF IInv
<1> QED BY <1>1, InvInit, InvNext, PTL DEF Spec

-----------------------------------------------------------------------------
(* Refinement.                                                             *)

\* A pass that has reached the last tile has computed the whole pass.
LEMMA PassIsComplete ==
  ASSUME IInv, tile = tilesX * tilesY
  PROVE  /\ pc = "vertical" =>
              GridOf(dst) = verticalScalar(GridOf(src), VerticalParity(frame))
         /\ pc = "horizontal" =>
              GridOf(dst) = horizontalScalar(GridOf(src), HorizontalParity(frame))
         /\ pc = "decay" => GridOf(dst) = decayScalar(GridOf(src), noise)
<1>1. dst \in Buffers /\ Progress
  BY DEF IInv, RotationKeepsRows, TypeOK, Buffers
<1>2. ASSUME pc \in PassNames, NEW p \in Coords PROVE GridOf(dst)[p] = PassCell(p)
  <2>1. PICK t \in Tiles, r \in Lanes, i \in Lanes : p = CellIn(t, r, i)
    BY PlaceOfCell, LanesAreEdge
  <2>2. Done(t, r)
    BY Shape DEF Done, Tiles
  <2>3. dst[At(t, r, i)] = GridOf(dst)[p] /\ dst[At(t, r, i)] = PassCell(p)
    BY <1>1, <1>2, <2>1, <2>2, GridOfBuffer, LanesAreEdge DEF Progress
  <2> QED BY <2>3
<1>3. pc \in PassNames => GridOf(dst) = [p \in Coords |-> PassCell(p)]
  <2>1. GridOf(dst) = [p \in Coords |-> GridOf(dst)[p]]
    BY <1>1, GridOfBuffer, LanesAreEdge DEF Grids
  <2> QED BY <1>2, <2>1, Zenon
<1>4. CASE pc = "vertical"
  BY <1>3, <1>4 DEF PassNames, PassCell, verticalScalar
<1>5. CASE pc = "horizontal"
  BY <1>3, <1>5 DEF PassNames, PassCell, horizontalScalar
<1>6. CASE pc = "decay"
  BY <1>3, <1>6 DEF PassNames, PassCell, decayScalar
<1> QED BY <1>4, <1>5, <1>6

LEMMA SameGeometry ==
  /\ Sim!Coords = Coords /\ Sim!Interior = Interior /\ Sim!Ledges = Ledges
  /\ Sim!Cleared = Cleared
  /\ \A g, fill : Sim!Seeded(g, fill) = Seeded(g, fill)
  /\ \A g, p, r, c : Sim!Painted(g, p, r, c) = Painted(g, p, r, c)
  /\ \A f : Sim!NextOf(f) = NextOf(f)
<1>1. Sim!Coords = Coords
  BY DEF Sim!Coords, Sim!Cols, Sim!Rows, Coords, Cols, Rows
<1>2. Sim!Interior = Interior
  BY <1>1 DEF Sim!Interior, Interior
<1>3. Sim!Ledges = Ledges
  BY <1>2 DEF Sim!Ledges, Ledges
<1>4. Sim!Cleared = Cleared
  BY <1>1, <1>2 DEF Sim!Cleared, Cleared, Sim!Border, Border,
                    Sim!Wall, Wall, Sim!Empty, Empty
<1>5. ASSUME NEW g, NEW fill PROVE Sim!Seeded(g, fill) = Seeded(g, fill)
  BY <1>1, <1>2, <1>3 DEF Sim!Seeded, Seeded, Sim!Wall, Wall
<1>6. ASSUME NEW p, NEW r PROVE Sim!Disc(p, r) = Disc(p, r)
  BY <1>2 DEF Sim!Disc, Disc
<1>7. ASSUME NEW g, NEW p, NEW r, NEW c
      PROVE  Sim!Painted(g, p, r, c) = Painted(g, p, r, c)
  BY <1>1, <1>6 DEF Sim!Painted, Painted
<1>8. ASSUME NEW f PROVE Sim!NextOf(f) = NextOf(f)
  BY DEF Sim!NextOf, NextOf
<1> QED BY <1>1, <1>2, <1>3, <1>4, <1>5, <1>7, <1>8

LEMMA SameRules ==
  /\ \A a, b : Sim!swapVertical(a, b) = swapVertical(a, b)
  /\ \A a, b, ba, bb, aa, ab :
        Sim!swapHorizontal(a, b, ba, bb, aa, ab) = swapHorizontal(a, b, ba, bb, aa, ab)
  /\ \A c, l, r, u, d, burns :
        Sim!decayFire(c, l, r, u, d, burns) = decayFire(c, l, r, u, d, burns)
<1> USE DEF Sim!Empty, Empty, Sim!Sand, Sand, Sim!Water, Water, Sim!Fire, Fire,
            Sim!Wall, Wall
<1>1. ASSUME NEW a, NEW b PROVE Sim!swapVertical(a, b) = swapVertical(a, b)
  BY DEF Sim!swapVertical, swapVertical, Sim!denserThan, denserThan,
         Sim!Signed8, Signed8, Sim!densityBiased, densityBiased
<1>2. ASSUME NEW a, NEW b, NEW ba, NEW bb, NEW aa, NEW ab
      PROVE  Sim!swapHorizontal(a, b, ba, bb, aa, ab) =
                swapHorizontal(a, b, ba, bb, aa, ab)
  BY DEF Sim!swapHorizontal, swapHorizontal, Sim!Spreads, Spreads,
         Sim!isMobile, isMobile, Sim!blockedVertically, blockedVertically
<1>3. ASSUME NEW c, NEW l, NEW r, NEW u, NEW d, NEW burns
      PROVE  Sim!decayFire(c, l, r, u, d, burns) = decayFire(c, l, r, u, d, burns)
  BY DEF Sim!decayFire, decayFire
<1> QED BY <1>1, <1>2, <1>3

LEMMA SamePasses ==
  \A g, f, z : Sim!NextFrame(g, f, z) = NextFrame(g, f, z)
<1> USE DEF Sim!Above, Above, Sim!Below, Below, Sim!LeftOf, LeftOf,
            Sim!RightOf, RightOf
<1>1. ASSUME NEW s, NEW p PROVE Sim!sampleCell(s, p) = sampleCell(s, p)
  BY SameGeometry DEF Sim!sampleCell, sampleCell, Sim!Wall, Wall
<1>2. ASSUME NEW s, NEW parity
      PROVE  Sim!verticalScalar(s, parity) = verticalScalar(s, parity)
  <2>1. ASSUME NEW p PROVE Sim!verticalCell(s, parity, p) = verticalCell(s, parity, p)
    BY <1>1, SameRules DEF Sim!verticalCell, verticalCell
  <2> QED BY <2>1, SameGeometry DEF Sim!verticalScalar, verticalScalar
<1>3. ASSUME NEW s, NEW parity
      PROVE  Sim!horizontalScalar(s, parity) = horizontalScalar(s, parity)
  <2>1. ASSUME NEW p PROVE Sim!PairSpreads(s, p) = PairSpreads(s, p)
    BY <1>1, SameRules DEF Sim!PairSpreads, PairSpreads
  <2>2. ASSUME NEW p PROVE Sim!horizontalCell(s, parity, p) = horizontalCell(s, parity, p)
    BY <1>1, <2>1 DEF Sim!horizontalCell, horizontalCell
  <2> QED BY <2>2, SameGeometry DEF Sim!horizontalScalar, horizontalScalar
<1>4. ASSUME NEW s, NEW z PROVE Sim!decayScalar(s, z) = decayScalar(s, z)
  <2>1. ASSUME NEW p PROVE Sim!decayCell(s, z, p) = decayCell(s, z, p)
    BY <1>1, SameRules DEF Sim!decayCell, decayCell, Sim!randBit, randBit
  <2> QED BY <2>1, SameGeometry DEF Sim!decayScalar, decayScalar
<1> QED BY <1>2, <1>3, <1>4
        DEF Sim!NextFrame, NextFrame, Sim!AfterExchange, AfterExchange,
            Sim!VerticalParity, VerticalParity, Sim!HorizontalParity, HorizontalParity

\* A byte written through tiledIndex is a cell written in the grid.
LEMMA SetThroughIndex ==
  ASSUME NEW b \in Buffers, NEW p \in Coords, NEW c
  PROVE  GridOf([b EXCEPT ![tiledIndex(p)] = c]) = [GridOf(b) EXCEPT ![p] = c]
<1>1. \A q \in Coords : tiledIndex(q) \in 0..(Size - 1)
  BY IndexInverse
<1>2. \A q \in Coords : tiledIndex(q) = tiledIndex(p) => q = p
  BY IndexInverse, Zenon
<1> DEFINE new == [b EXCEPT ![tiledIndex(p)] = c]
<1>3. \A q \in Coords : new[tiledIndex(q)] = IF q = p THEN c ELSE b[tiledIndex(q)]
  BY <1>1, <1>2 DEF Buffers
<1> HIDE DEF new
<1>4. GridOf(new) = [q \in Coords |-> IF q = p THEN c ELSE b[tiledIndex(q)]]
  BY <1>3 DEF GridOf
<1>5. [GridOf(b) EXCEPT ![p] = c] = [q \in Coords |-> IF q = p THEN c ELSE b[tiledIndex(q)]]
  BY DEF GridOf
<1> QED BY <1>4, <1>5 DEF new

LEMMA RefineInit == Init => Sim!Init
<1> SUFFICES ASSUME Init PROVE Sim!Init
  OBVIOUS
<1>1. Cleared \in Grids
  BY DEF Cleared, Grids, Cells, Wall, Empty
<1>2. Promised = Cleared
  BY <1>1, BufferOfGrid DEF Init, Promised
<1> QED BY <1>2, SameGeometry DEF Init, Sim!Init

LEMMA RefineNext == IInv /\ [Next]_vars => [Sim!Next]_(Sim!vars)
<1> SUFFICES ASSUME IInv, [Next]_vars PROVE [Sim!Next]_(Sim!vars)
  OBVIOUS
<1> DEFINE F == IF pc = "idle" THEN frame ELSE NextOf(frame)
           g == GridOf(src)
<1>s. Promised' = Promised /\ F' = F => UNCHANGED Sim!vars
  BY DEF Sim!vars
<1>0. src \in Buffers /\ dst \in Buffers /\ frame \in Frames /\ g \in Grids
  BY GridOfBuffer, LanesAreEdge DEF IInv, RotationKeepsRows, TypeOK, Buffers
<1>1. CASE BeginStep
  <2>1. /\ pc = "idle" /\ pc' = "vertical" /\ noise' \in NoiseWords
        /\ src' = src /\ frame' = frame
    BY <1>1 DEF BeginStep
  <2>2. Promised = g /\ Promised' = NextFrame(g, frame, noise')
    BY <2>1 DEF Promised
  <2>3. Sim!Step
    BY <2>1, <2>2, SameGeometry, SamePasses DEF Sim!Step
  <2> QED BY <2>3 DEF Sim!Next
<1>2. CASE ScalarStep
  <2>1. PICK words \in NoiseWords : src' = BufferOf(NextFrame(g, frame, words))
    BY <1>2 DEF ScalarStep
  <2>2. pc = "idle" /\ pc' = "idle" /\ frame' = NextOf(frame)
    BY <1>2 DEF ScalarStep
  <2>3. GridOf(src') = NextFrame(g, frame, words)
    BY <1>0, <2>1, FrameOfBuffer, BufferOfGrid
  <2>4. Promised = g /\ Promised' = NextFrame(g, frame, words)
    BY <2>2, <2>3 DEF Promised
  <2>5. Sim!Step
    BY <2>2, <2>4, SameGeometry, SamePasses DEF Sim!Step
  <2> QED BY <2>5 DEF Sim!Next
<1>3. CASE VerticalRow \/ HorizontalRow \/ DecayRow
  <2>1. UNCHANGED <<src, frame, pc, noise>>
    BY <1>3 DEF VerticalRow, HorizontalRow, DecayRow, HaloRow
  <2>2. Promised' = Promised /\ F' = F
    BY <2>1 DEF Promised
  <2> QED BY <2>2, <1>s
<1>4. CASE EndVertical
  <2>1. /\ pc = "vertical" /\ pc' = "horizontal"
        /\ frame' = frame /\ noise' = noise
        /\ GridOf(src') = verticalScalar(g, VerticalParity(frame))
    BY <1>4, PassIsComplete DEF EndVertical, EndPass
  <2>2. Promised' = Promised /\ F' = F
    BY <2>1 DEF Promised, NextFrame, AfterExchange
  <2> QED BY <2>2, <1>s
<1>5. CASE EndHorizontal
  <2>1. /\ pc = "horizontal" /\ pc' = "decay"
        /\ frame' = frame /\ noise' = noise
        /\ GridOf(src') = horizontalScalar(g, HorizontalParity(frame))
    BY <1>5, PassIsComplete DEF EndHorizontal, EndPass
  <2>2. Promised' = Promised /\ F' = F
    BY <2>1 DEF Promised
  <2> QED BY <2>2, <1>s
<1>6. CASE EndDecay
  <2>1. /\ pc = "decay" /\ pc' = "idle" /\ frame' = NextOf(frame)
        /\ GridOf(src') = decayScalar(g, noise)
    BY <1>6, PassIsComplete DEF EndDecay, EndPass
  <2>2. Promised' = Promised /\ F' = F
    BY <2>1 DEF Promised
  <2> QED BY <2>2, <1>s
<1>7. CASE Edit
  <2>1. /\ pc = "idle" /\ pc' = "idle"
        /\ Promised = g /\ Promised' = GridOf(src') /\ F = frame /\ F' = frame'
    BY <1>7 DEF Edit, Promised
  <2>2. CASE SetCell
    <3>1. PICK p \in Targets, c \in Materials : src' = [src EXCEPT ![tiledIndex(p)] = c]
      BY <2>2 DEF SetCell
    <3>2. Promised' = [Promised EXCEPT ![p] = c]
      BY <1>0, <2>1, <3>1, SetThroughIndex, InputAssumption
    <3> QED BY <2>1, <2>2, <3>2 DEF SetCell, Sim!SetCell, Sim!Edit, Sim!Next
  <2>3. CASE PaintDisc
    <3>1. PICK p \in Targets, r \in Radii, c \in Materials :
             src' = BufferOf(Painted(g, p, r, c))
      BY <2>3 DEF PaintDisc
    <3>2. Painted(g, p, r, c) \in Grids
      BY <1>0, EditsType, InputAssumption
    <3>3. Promised' = Painted(Promised, p, r, c)
      BY <2>1, <3>1, <3>2, BufferOfGrid
    <3> QED BY <2>1, <2>3, <3>3, SameGeometry DEF PaintDisc, Sim!PaintDisc, Sim!Edit, Sim!Next
  <2>4. CASE Clear
    <3>1. Cleared \in Grids
      BY <1>0, EditsType
    <3>2. Promised' = Cleared
      BY <2>1, <2>4, <3>1, BufferOfGrid DEF Clear
    <3> QED BY <2>1, <2>4, <3>2, SameGeometry DEF Clear, Sim!Clear, Sim!Edit, Sim!Next
  <2>5. CASE Seed
    <3>1. PICK fill \in SeedFills : src' = BufferOf(Seeded(g, fill))
      BY <2>5 DEF Seed
    <3>2. Seeded(g, fill) \in Grids
      BY <1>0, EditsType
    <3>3. Promised' = Seeded(Promised, fill)
      BY <2>1, <3>1, <3>2, BufferOfGrid
    <3> QED BY <2>1, <2>5, <3>3, SameGeometry DEF Seed, Sim!Seed, Sim!Edit, Sim!Next
  <2> QED BY <1>7, <2>2, <2>3, <2>4, <2>5 DEF Edit
<1>8. CASE UNCHANGED vars
  <2>1. Promised' = Promised /\ F' = F
    BY <1>8 DEF vars, scratch, Promised
  <2> QED BY <2>1, <1>s
<1> QED BY <1>1, <1>2, <1>3, <1>4, <1>5, <1>6, <1>7, <1>8 DEF Next, Work

\* The vector backend implements the atomic simulation: it makes the frames of
\* the scalar code, bit for bit, on every grid.  The invariant asks nothing of the
\* scratch rows when a tile begins, so nothing depends on what they hold then.
THEOREM Avx2ImplementsSimulation == Spec => Implements
<1>1. Init => IInv
  BY InvInit
<1>2. IInv /\ [Next]_vars => IInv'
  BY InvNext
<1>3. Init => Sim!Init
  BY RefineInit
<1>4. IInv /\ [Next]_vars => [Sim!Next]_(Sim!vars)
  BY RefineNext
<1> QED BY <1>1, <1>2, <1>3, <1>4, PTL DEF Spec, Implements, Sim!Spec
=============================================================================
