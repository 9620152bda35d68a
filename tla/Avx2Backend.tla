----------------------------- MODULE Avx2Backend -----------------------------
(***************************************************************************)
(* backends/simd_avx2.cpp: the three passes a tile row, Tile lanes, at a   *)
(* time.  The vertical pass addresses the partner row in the buffer; the   *)
(* other two keep three scratch rows with a halo of one cell at each end,  *)
(* gather one row per turn and rotate the three pointers.  The scratch     *)
(* rows are never cleared: from tile to tile they hold stale cells, and so  *)
(* they do, whatever the stack held before, when a pass begins.            *)
(***************************************************************************)
EXTENDS Grid

VARIABLES hasAvx2,      \* what cpuSupportsAvx2() finds on this machine
          src, dst,     \* the two buffers, tiled
          frame,
          pc,           \* the pass step() is in, "idle" outside of step()
          noise,        \* the random words of the frame being computed
          tile, ly,     \* loop counters: tile, and row within the tile
          buf,          \* the three scratch rows
          up, cu, dn    \* which of them holds the row above, this one, below

scratch == <<buf, up, cu, dn>>
vars == <<hasAvx2, src, dst, frame, pc, noise, tile, ly, scratch>>

Lanes    == 0..(Tile - 1)
HaloCols == 0..(Tile + 1)

tileRowStride == tilesX * kTileBytes

-----------------------------------------------------------------------------
(* Vectors: one value per lane.                                            *)

blendv(x, y, mask) == [i \in Lanes |-> IF mask[i] THEN y[i] ELSE x[i]]

vSwapVertical(a, b) == [i \in Lanes |-> a[i] # Wall /\ denserThan(a[i], b[i])]

\* One direction of the lateral move, from a to b.
vSpreads(a, b, below, belowTo, above) ==
  [i \in Lanes |-> /\ b[i] = Empty
                   /\ a[i] # Empty /\ a[i] # Wall
                   /\ IF a[i] = Fire THEN above[i] # Empty ELSE below[i] # Empty
                   /\ a[i] # Sand \/ belowTo[i] = Empty]

vSwapHorizontal(a, b, ba, bb, aa, ab) ==
  [i \in Lanes |-> vSpreads(a, b, ba, bb, aa)[i] \/ vSpreads(b, a, bb, ba, ab)[i]]

-----------------------------------------------------------------------------
(* Rows.                                                                   *)

tx == tile % tilesX
ty == tile \div tilesX
base == tile * kTileBytes
y == ty * Tile + ly

RowAt(addr) == [i \in Lanes |-> src[addr + i]]

gatherHaloRow_EdgeNotWalled(row) ==
  LET x0 == tx * Tile
  IN  [k \in HaloCols |->
         IF row \notin Rows THEN Wall
         ELSE IF k = 0 THEN IF x0 - 1 >= 0 THEN src[tiledIndex(<<x0 - 1, row>>)] ELSE Wall
         ELSE IF k = Tile + 1
           THEN IF x0 + Tile < W THEN src[tiledIndex(<<x0 + Tile, row>>)] ELSE Empty
         ELSE src[tiledIndex(<<x0, row>>) + (k - 1)]]

\* Cells x0 - 1 .. x0 + Tile of a row of this tile column; outside the grid all
\* is Wall.
gatherHaloRow(row) ==
  LET x0 == tx * Tile
  IN  [k \in HaloCols |->
         IF row \notin Rows THEN Wall
         ELSE IF k = 0 THEN IF x0 - 1 >= 0 THEN src[tiledIndex(<<x0 - 1, row>>)] ELSE Wall
         ELSE IF k = Tile + 1
           THEN IF x0 + Tile < W THEN src[tiledIndex(<<x0 + Tile, row>>)] ELSE Wall
         ELSE src[tiledIndex(<<x0, row>>) + (k - 1)]]

\* An unaligned load from a scratch row.
Loadu(row, offset) == [i \in Lanes |-> row[i + offset]]

StoreRow(out) ==
  dst' = [a \in 0..(Size - 1) |->
            IF a - (base + ly * Tile) \in Lanes THEN out[a - (base + ly * Tile)] ELSE dst[a]]

-----------------------------------------------------------------------------
(* The vector a turn of each pass stores.                                  *)

VerticalOut ==
  LET here  == base + ly * Tile
      below == IF ly < Tile - 1 THEN here + Tile ELSE base + tileRowStride
      above == IF ly > 0 THEN here - Tile ELSE base - tileRowStride + (Tile - 1) * Tile
  IN  IF y % 2 = VerticalParity(frame)
        THEN IF y + 1 >= H THEN RowAt(here)
             ELSE blendv(RowAt(here), RowAt(below), vSwapVertical(RowAt(here), RowAt(below)))
        ELSE IF y - 1 < 0 THEN RowAt(here)
             ELSE blendv(RowAt(here), RowAt(above), vSwapVertical(RowAt(above), RowAt(here)))

\* `c`, `d` and `u` are the scratch rows of this row, the one below and the one
\* above.
HorizontalOut(c, d, u) ==
  LET decR == vSwapHorizontal(Loadu(c, 1), Loadu(c, 2), Loadu(d, 1), Loadu(d, 2),
                              Loadu(u, 1), Loadu(u, 2))
      decL == vSwapHorizontal(Loadu(c, 0), Loadu(c, 1), Loadu(d, 0), Loadu(d, 1),
                              Loadu(u, 0), Loadu(u, 1))
      asLeft  == blendv(Loadu(c, 1), Loadu(c, 2), decR)
      asRight == blendv(Loadu(c, 1), Loadu(c, 0), decL)
      isLeft  == [i \in Lanes |-> i % 2 = HorizontalParity(frame)]
  IN  blendv(asRight, asLeft, isLeft)

DecayOut(c, d, u) ==
  [i \in Lanes |->
     LET nearWater == Water \in {c[i], c[i + 2], u[i + 1], d[i + 1]}
         rnd       == i \in noise[<<tx, y>>]
     IN  IF c[i + 1] = Fire /\ (nearWater \/ rnd) THEN 0 ELSE c[i + 1]]

-----------------------------------------------------------------------------
Stale == [k \in HaloCols |-> Empty]

Init ==
  /\ hasAvx2 \in BOOLEAN
  /\ src = BufferOf(Cleared) /\ dst = BufferOf(Blank)
  /\ frame = 0 /\ pc = "idle" /\ noise = Calm
  /\ tile = 0 /\ ly = 0
  /\ buf = [k \in 0..2 |-> Stale] /\ up = 0 /\ cu = 1 /\ dn = 2

BeginStep ==
  /\ pc = "idle" /\ hasAvx2
  /\ pc' = "vertical" /\ tile' = 0 /\ ly' = 0
  /\ noise' \in NoiseWords
  /\ UNCHANGED <<src, dst, frame, scratch>>

\* Without AVX2 step() runs the scalar passes of the reference backend: the
\* front buffer has been swapped three times.
ScalarStep ==
  /\ pc = "idle" /\ ~hasAvx2
  /\ \E words \in NoiseWords : src' = BufferOf(NextFrame(GridOf(src), frame, words))
  /\ dst' = BufferOf(AfterExchange(GridOf(src), frame))
  /\ frame' = NextOf(frame)
  /\ UNCHANGED <<pc, noise, tile, ly, scratch>>

\* The inner loop over the rows of a tile, the outer one over the tiles.
AdvanceRow ==
  /\ ly' = (ly + 1) % Tile
  /\ tile' = IF ly = Tile - 1 THEN tile + 1 ELSE tile

VerticalRow ==
  /\ pc = "vertical" /\ tile < tilesX * tilesY
  /\ StoreRow(VerticalOut)
  /\ AdvanceRow
  /\ UNCHANGED <<src, frame, pc, noise, scratch>>

Rotate_DropBelow == up' = cu /\ cu' = up /\ dn' = dn

Rotate == up' = cu /\ cu' = dn /\ dn' = up

\* Before the first row of a tile the rows above and at it are gathered, before
\* every row the one below it.
Gathered ==
  LET first == IF ly = 0
                 THEN [buf EXCEPT ![up] = gatherHaloRow(y - 1), ![cu] = gatherHaloRow(y)]
                 ELSE buf
  IN  [first EXCEPT ![dn] = gatherHaloRow(y + 1)]

HaloRow(pass, Out(_, _, _)) ==
  /\ pc = pass /\ tile < tilesX * tilesY
  /\ buf' = Gathered
  /\ StoreRow(Out(buf'[cu], buf'[dn], buf'[up]))
  /\ Rotate
  /\ AdvanceRow
  /\ UNCHANGED <<src, frame, pc, noise>>

HorizontalRow == HaloRow("horizontal", HorizontalOut)
DecayRow      == HaloRow("decay", DecayOut)

EndPass(pass, next) ==
  /\ pc = pass /\ tile = tilesX * tilesY
  /\ src' = dst /\ dst' = src
  /\ pc' = next /\ tile' = 0
  /\ up' = 0 /\ cu' = 1 /\ dn' = 2     \* locals of the next pass
  /\ UNCHANGED <<ly, buf>>

EndVertical   == EndPass("vertical", "horizontal") /\ UNCHANGED <<frame, noise>>
EndHorizontal == EndPass("horizontal", "decay") /\ UNCHANGED <<frame, noise>>
EndDecay      == /\ EndPass("decay", "idle")
                 /\ frame' = NextOf(frame)
                 /\ noise' = Calm

Work == \/ BeginStep \/ ScalarStep \/ VerticalRow \/ HorizontalRow \/ DecayRow
        \/ EndVertical \/ EndHorizontal \/ EndDecay

SetCell ==
  /\ \E p \in Targets, c \in Materials : src' = [src EXCEPT ![tiledIndex(p)] = c]
  /\ UNCHANGED <<dst, frame>>

PaintDisc ==
  /\ \E p \in Targets, r \in Radii, c \in Materials :
        src' = BufferOf(Painted(GridOf(src), p, r, c))
  /\ UNCHANGED <<dst, frame>>

Clear == src' = BufferOf(Cleared) /\ dst' = BufferOf(Blank) /\ frame' = 0

Seed ==
  /\ \E fill \in SeedFills : src' = BufferOf(Seeded(GridOf(src), fill))
  /\ frame' = 0
  /\ UNCHANGED dst

Edit == /\ pc = "idle"
        /\ SetCell \/ PaintDisc \/ Clear \/ Seed
        /\ UNCHANGED <<pc, noise, tile, ly, scratch>>

Next == (Work \/ Edit) /\ UNCHANGED hasAvx2

Spec == Init /\ [][Next]_vars

-----------------------------------------------------------------------------
TypeOK ==
  /\ hasAvx2 \in BOOLEAN
  /\ src \in [0..(Size - 1) -> Cells] /\ dst \in [0..(Size - 1) -> Cells]
  /\ frame \in Frames
  /\ pc \in {"idle", "vertical", "horizontal", "decay"}
  /\ noise \in Noise
  /\ tile \in 0..(tilesX * tilesY) /\ ly \in Lanes
  /\ buf \in [0..2 -> [HaloCols -> Cells]]
  /\ {up, cu, dn} = 0..2

\* Within a tile the rotation leaves this row and the one above in place, halo
\* included, as if they had been gathered afresh; the three rows stay apart and
\* every variable in its range.
RotationKeepsRows ==
  /\ TypeOK
  /\ pc \in {"horizontal", "decay"} /\ tile < tilesX * tilesY /\ ly > 0 =>
       buf[up] = gatherHaloRow(y - 1) /\ buf[cu] = gatherHaloRow(y)

\* The frame a step in progress will have produced.
Promised ==
  LET g == GridOf(src)
  IN  CASE pc = "idle"       -> g
        [] pc = "vertical"   -> NextFrame(g, frame, noise)
        [] pc = "horizontal" -> decayScalar(horizontalScalar(g, HorizontalParity(frame)), noise)
        [] pc = "decay"      -> decayScalar(g, noise)

Sim == INSTANCE Simulation
         WITH Pictures <- {},
              grid     <- Promised,
              frame    <- IF pc = "idle" THEN frame ELSE NextOf(frame)

\* The vector backend makes the frames of the scalar code, bit for bit: at the
\* edges of tiles, at the edges of the grid, and with stale scratch rows.
Implements == Sim!Spec
=============================================================================
