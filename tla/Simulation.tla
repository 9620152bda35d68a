----------------------------- MODULE Simulation -----------------------------
(***************************************************************************)
(* What every backend promises: IBackend::step advances the grid by one    *)
(* frame, three passes and the frame counter, in one indivisible step      *)
(* between two user edits.  The edits are the operations of class Grid the *)
(* native and the web application call between frames.                     *)
(***************************************************************************)
EXTENDS Grid

CONSTANT Pictures  \* what an untouched run starts from: painted interiors

ASSUME PicturesAssumption == Pictures \subseteq [Interior -> Cells]

VARIABLES grid,   \* the buffer Grid::src()
          frame

vars == <<grid, frame>>

-----------------------------------------------------------------------------
Init == grid = Cleared /\ frame = 0

Step ==
  /\ frame' = NextOf(frame)
  /\ \E noise \in NoiseWords : grid' = NextFrame(grid, frame, noise)

\* Grid::set accepts every cell of the grid, the border included.
SetCell ==
  /\ \E p \in Targets, c \in Materials : grid' = [grid EXCEPT ![p] = c]
  /\ UNCHANGED frame

PaintDisc ==
  /\ \E p \in Targets, r \in Radii, c \in Materials : grid' = Painted(grid, p, r, c)
  /\ UNCHANGED frame

Clear == grid' = Cleared /\ frame' = 0

Seed ==
  /\ \E fill \in SeedFills : grid' = Seeded(grid, fill)
  /\ frame' = 0

Edit == SetCell \/ PaintDisc \/ Clear \/ Seed

Next == Step \/ Edit

Spec == Init /\ [][Next]_vars

-----------------------------------------------------------------------------
(* A run nobody touches: some picture was painted, now the loop steps for  *)
(* ever.  The application loop and the benchmark call step() without end,  *)
(* so Step is weakly fair; the user's edits never are.                     *)

UntouchedInit ==
  /\ \E fill \in Pictures :
        grid = [p \in Coords |-> IF p \in Interior THEN fill[p] ELSE Wall]
  /\ frame = 0

Untouched == UntouchedInit /\ [][Step]_vars /\ WF_vars(Step)

-----------------------------------------------------------------------------
TypeOK == grid \in Grids /\ frame \in Frames

\* A frame creates and destroys no sand, water or wall, and a fire only turns
\* into empty space: all motion is a pair swap, and only the decay pass
\* rewrites a cell (grid.hpp, "exactly mass-conserving").
MassKept ==
  /\ \A c \in {Sand, Water, Wall} : Count(grid', c) = Count(grid, c)
  /\ Count(grid', Fire) <= Count(grid, Fire)
MassConserved == [][Step => MassKept]_vars

\* No frame ends with a fire beside water: the decay pass, which puts such a
\* fire out, runs after the passes that may bring the two together.
FireBesideWater(g) ==
  \E p \in Coords : g[p] = Fire /\ \E q \in Neighbours(p) : sampleCell(g, q) = Water
WaterQuenches == [][Step => ~FireBesideWater(grid')]_vars

\* A frame leaves every wall where it is and makes no new one, wherever the
\* walls are: also in a grid whose border was overwritten.
WallsStand == [][Step => CellsOf(grid', Wall) = CellsOf(grid, Wall)]_vars

\* Only Grid::set can open the border; painting, seeding and stepping keep a
\* closed one closed.
Sealed(g) == Border \subseteq CellsOf(g, Wall)
OnlySetOpensBorder == [][Sealed(grid) /\ ~Sealed(grid') => SetCell]_vars

\* Sand, the densest mobile cell, never gains height: from whatever row one
\* looks, a frame takes no sand away from what is at that row and below it.
SandFrom(g, y) == Cardinality({p \in CellsOf(g, Sand) : p[2] >= y})
SandNeverRises ==
  [][Step => \A y \in Rows : SandFrom(grid', y) >= SandFrom(grid, y)]_vars

\* An untouched world comes to rest: from some frame on the sand stands still,
\* whatever the water and the fire around it keep doing.
SandSettles == <>[][CellsOf(grid', Sand) = CellsOf(grid, Sand)]_vars

\* ... and it rests on something that carries it: on sand or wall, never on
\* empty space, water or fire (test "a single sand grain falls and comes to
\* rest").
Unsupported(g) ==
  {p \in CellsOf(g, Sand) : sampleCell(g, Below(p)) \in {Empty, Water, Fire}}
SandRests == <>[](Unsupported(grid) = {})

\* Water too ends up with nothing but empty space above its level: from some
\* frame on no water hangs over an empty cell.
Hanging(g) == {p \in CellsOf(g, Water) : sampleCell(g, Below(p)) = Empty}
WaterComesDown == <>[](Hanging(grid) = {})

\* tests/test_tiling.cpp, "material crosses a horizontal tile seam": the lateral
\* pass moves sand that stands on a floor into the empty cell beside it, over
\* the same floor, when the two are a pair.
SandSpreadsOverFloor ==
  \A l \in Coords :
    /\ RightOf(l) \in Coords /\ l[1] % 2 = HorizontalParity(frame)
    /\ grid[l] = Sand /\ grid[RightOf(l)] = Empty
    /\ sampleCell(grid, Below(l)) = Wall /\ sampleCell(grid, Below(RightOf(l))) = Wall
    => horizontalScalar(grid, HorizontalParity(frame))[RightOf(l)] = Sand
=============================================================================
