-------------------------------- MODULE Grid --------------------------------
(***************************************************************************)
(* The operations of class Grid (core/grid.cpp) that change its cells, as  *)
(* functions from a grid to a grid, and what the environment feeds them.   *)
(***************************************************************************)
EXTENDS Passes

Interior == {p \in Coords : p[1] \in 1..(W - 2) /\ p[2] \in 1..(H - 2)}
Border   == Coords \ Interior

\* Where seedRandom draws its walls: row h/3 on the left half of the grid and
\* row 2h/3 on the right half.
Ledges == {p \in Interior :
             \/ p[2] = H \div 3 /\ p[1] < W \div 2
             \/ p[2] = (2 * H) \div 3 /\ p[1] >= W \div 2}

CONSTANTS NoiseWords,  \* the random words the hash may yield for a frame
          SeedFills,   \* what the hash of seedRandom may strew between the ledges
          FrameMod,    \* the frame counter wraps here: 2^64 in the code
          Radii,       \* brush radii
          Targets,     \* the cells the user aims the brush or Grid::set at
          Materials    \* materials the user may paint or set

ASSUME InputAssumption ==
  /\ NoiseWords \subseteq Noise
  /\ SeedFills \subseteq [Interior \ Ledges -> {Empty, Sand, Water}]
  /\ FrameMod \in Nat \ {0} /\ FrameMod % 4 = 0
  /\ Radii \subseteq Int
  /\ Targets \subseteq Coords
  /\ Materials \subseteq Cells

Calm == [k \in TileCols \X Rows |-> {}]   \* no lane burns out

Frames == 0..(FrameMod - 1)

NextOf(f) == (f + 1) % FrameMod

\* clear() as it leaves the front buffer: fillBorders draws the ring.
Cleared == [p \in Coords |-> IF p \in Border THEN Wall ELSE Empty]

\* memset of a whole buffer.
Blank == [p \in Coords |-> Empty]

\* seedRandom with `fill` for what the hash picks where no ledge is drawn over
\* it afterwards; the border is kept.
Seeded(g, fill) ==
  [p \in Coords |-> IF p \in Ledges THEN Wall
                    ELSE IF p \in Interior THEN fill[p] ELSE g[p]]

Disc_ClippedToGrid(center, r) ==
  LET R == IF r < 0 THEN 0 ELSE r
      dx(p) == p[1] - center[1]
      dy(p) == p[2] - center[2]
  IN  {p \in Coords : dx(p) * dx(p) + dy(p) * dy(p) <= R * R}

\* paintDisc: clipped to the interior, a negative radius counts as 0.
Disc(center, r) ==
  LET R == IF r < 0 THEN 0 ELSE r
      dx(p) == p[1] - center[1]
      dy(p) == p[2] - center[2]
  IN  {p \in Interior : dx(p) * dx(p) + dy(p) * dy(p) <= R * R}

Painted_Unclipped(g, center, r, c) ==
  LET R    == IF r < 0 THEN 0 ELSE r
      disc == {<<center[1] + d[1], center[2] + d[2]>> :
                 d \in {e \in ((-R)..R) \X ((-R)..R) : e[1] * e[1] + e[2] * e[2] <= R * R}}
  IN  [p \in Coords \cup disc |-> IF p \in disc THEN c ELSE g[p]]

Painted(g, center, r, c) ==
  [p \in Coords |-> IF p \in Disc(center, r) THEN c ELSE g[p]]
=============================================================================
