-------------------------- MODULE Simulation_proofs --------------------------
(***************************************************************************)
(* The safety properties of Simulation, for every grid size, every tile    *)
(* edge and every random word.                                             *)
(***************************************************************************)
EXTENDS Simulation, Grid_proofs

\* Type correctness, for every value of the constants.
THEOREM TypeCorrect == Spec => []TypeOK
<1>1. Init => TypeOK
  <2> SUFFICES ASSUME Init PROVE TypeOK
    OBVIOUS
  <2>1. Cleared \in Grids
    BY DEF Cleared, Grids, Cells, Wall, Empty
  <2> QED BY <2>1, InputAssumption DEF Init, TypeOK, Frames
<1>2. TypeOK /\ [Next]_vars => TypeOK'
  <2> SUFFICES ASSUME TypeOK, [Next]_vars PROVE TypeOK'
    OBVIOUS
  <2> USE InputAssumption DEF TypeOK, Frames, NextOf
  <2>1. CASE Step
    BY <2>1, FrameType DEF Step
  <2>2. CASE SetCell
    BY <2>2 DEF SetCell, Grids
  <2>3. CASE PaintDisc
    <3>1. PICK p \in Targets, r \in Radii, c \in Materials :
             grid' = Painted(grid, p, r, c)
      BY <2>3 DEF PaintDisc
    <3>2. c \in Cells
      OBVIOUS
    <3> QED BY <3>1, <3>2, <2>3, EditsType DEF PaintDisc
  <2>4. CASE Clear
    BY <2>4, EditsType DEF Clear
  <2>5. CASE Seed
    BY <2>5, EditsType DEF Seed
  <2>6. CASE UNCHANGED vars
    BY <2>6 DEF vars
  <2> QED BY <2>1, <2>2, <2>3, <2>4, <2>5, <2>6 DEF Next, Edit
<1> QED BY <1>1, <1>2, PTL DEF Spec

-----------------------------------------------------------------------------
LEMMA StepIsFrame ==
  ASSUME TypeOK, Step
  PROVE  /\ grid \in Grids /\ frame \in Nat
         /\ AfterExchange(grid, frame) \in Grids
         /\ \E noise \in NoiseWords :
              grid' = decayScalar(AfterExchange(grid, frame), noise)
BY FrameType, InputAssumption DEF TypeOK, Frames, Step, NextFrame

\* A frame conserves sand, water and wall, and makes no fire.
THEOREM MassIsConserved == Spec => MassConserved
<1>1. TypeOK /\ [Next]_vars => [Step => MassKept]_vars
  <2> SUFFICES ASSUME TypeOK, Step PROVE MassKept
    OBVIOUS
  <2> DEFINE x == AfterExchange(grid, frame)
  <2>1. x \in Grids /\ \A c : Count(x, c) = Count(grid, c)
    BY StepIsFrame, ExchangeOfFrame
  <2>2. PICK noise : grid' = decayScalar(x, noise)
    BY StepIsFrame
  <2> HIDE DEF x
  <2>3. \A c \in {Sand, Water, Wall} : Count(grid', c) = Count(x, c)
    BY <2>1, <2>2, DecayOfGrid DEF Count
  <2>4. CellsOf(grid', Fire) \in SUBSET CellsOf(x, Fire)
    BY <2>1, <2>2, DecayOfGrid
  <2>5. Count(grid', Fire) <= Count(x, Fire)
    BY <2>4, CoordsFinite, FS_Subset DEF Count
  <2> QED BY <2>1, <2>3, <2>5 DEF MassKept
<1> QED BY <1>1, TypeCorrect, PTL DEF Spec, MassConserved

\* A frame neither moves nor makes a wall.
THEOREM WallsAreFixed == Spec => WallsStand
<1>1. TypeOK /\ [Next]_vars => [Step => CellsOf(grid', Wall) = CellsOf(grid, Wall)]_vars
  <2> SUFFICES ASSUME TypeOK, Step
               PROVE  CellsOf(grid', Wall) = CellsOf(grid, Wall)
    OBVIOUS
  <2> QED BY StepIsFrame, ExchangeOfFrame, DecayOfGrid
<1> QED BY <1>1, TypeCorrect, PTL DEF Spec, WallsStand

\* No frame ends with a fire beside water.
THEOREM WaterAlwaysQuenches == Spec => WaterQuenches
<1>1. TypeOK /\ [Next]_vars => [Step => ~FireBesideWater(grid')]_vars
  <2> SUFFICES ASSUME TypeOK, Step, FireBesideWater(grid') PROVE FALSE
    OBVIOUS
  <2> DEFINE x == AfterExchange(grid, frame)
  <2>1. x \in Grids
    BY StepIsFrame
  <2>2. PICK noise : grid' = decayScalar(x, noise)
    BY StepIsFrame
  <2> HIDE DEF x
  <2>3. PICK p \in Coords : /\ grid'[p] = Fire
                           /\ \E q \in Neighbours(p) : sampleCell(grid', q) = Water
    BY DEF FireBesideWater
  <2>4. PICK q \in Neighbours(p) : sampleCell(grid', q) = Water
    BY <2>3
  <2>5. q \in Coords /\ grid'[q] = Water
    BY <2>4 DEF sampleCell, Water, Wall
  <2>6. x[q] = Water /\ x[p] = Fire
    BY <2>1, <2>2, <2>3, <2>5, DecayCells DEF Empty, Water, Fire
  <2>7. sampleCell(x, q) = Water
    BY <2>5, <2>6 DEF sampleCell
  <2>8. grid'[p] = Empty
    BY <2>1, <2>2, <2>3, <2>6, <2>7, DecayCells
  <2> QED BY <2>3, <2>8 DEF Empty, Fire
<1> QED BY <1>1, TypeCorrect, PTL DEF Spec, WaterQuenches

\* Only Grid::set opens a closed border.
THEOREM BorderHolds == Spec => OnlySetOpensBorder
<1>1. TypeOK /\ [Next]_vars =>
        [Sealed(grid) /\ ~Sealed(grid') => SetCell]_vars
  <2> SUFFICES ASSUME TypeOK, Next, ~SetCell, Sealed(grid) PROVE Sealed(grid')
    OBVIOUS
  <2>1. CASE Step
    <3>1. CellsOf(grid', Wall) = CellsOf(grid, Wall)
      BY <2>1, StepIsFrame, ExchangeOfFrame, DecayOfGrid
    <3> QED BY <3>1 DEF Sealed
  <2>2. CASE PaintDisc
    <3>1. PICK p, r, c : grid' = Painted(grid, p, r, c)
      BY <2>2 DEF PaintDisc
    <3>2. Disc(p, r) \subseteq Interior
      BY DEF Disc
    <3>3. \A q \in Border : grid'[q] = grid[q]
      BY <3>1, <3>2, InteriorInside DEF Painted
    <3> QED BY <3>3, InteriorInside DEF Sealed, CellsOf
  <2>3. CASE Clear
    BY <2>3, InteriorInside DEF Clear, Cleared, Sealed, CellsOf
  <2>4. CASE Seed
    <3>1. PICK fill : grid' = Seeded(grid, fill)
      BY <2>4 DEF Seed
    <3>2. Ledges \subseteq Interior
      BY DEF Ledges
    <3>3. \A q \in Border : grid'[q] = grid[q]
      BY <3>1, <3>2, InteriorInside DEF Seeded
    <3> QED BY <3>3, InteriorInside DEF Sealed, CellsOf
  <2> QED BY <2>1, <2>2, <2>3, <2>4 DEF Next, Edit
<1> QED BY <1>1, TypeCorrect, PTL DEF Spec, OnlySetOpensBorder

-----------------------------------------------------------------------------
(* Sand never gains height.  Following each grain through a pass maps the  *)
(* sand at or below a row one to one into the sand that is there after it. *)

LEMMA SandIsDensest ==
  ASSUME NEW a \in Cells PROVE ~swapVertical(a, Sand)
BY SignedDensities, CellsEnumerated
   DEF swapVertical, denserThan, Empty, Sand, Water, Fire, Wall

\* A grain moves down or stays in the vertical pass, and keeps its row in the
\* horizontal one.
LEMMA GrainsDescend ==
  ASSUME NEW s \in Grids, NEW parity \in {0, 1}, NEW p \in CellsOf(s, Sand)
  PROVE  /\ VSource(s, parity, p)[2] >= p[2]
         /\ HSource(s, parity, p)[2] = p[2]
<1>1. /\ p \in Coords /\ s[p] = Sand /\ sampleCell(s, p) = Sand
      /\ p[1] \in Int /\ p[2] \in Int /\ Below(Above(p)) = p
  BY BelowAbove, GeometryAssumption DEF CellsOf, sampleCell, Cols, Rows
<1>2. ~PairFalls(s, Above(p))
  BY <1>1, SampleType, SandIsDensest DEF PairFalls
<1>3. VSource(s, parity, p) \in {p, Below(p)}
  BY <1>1, <1>2 DEF VSource, Upper
<1>4. HSource(s, parity, p) \in {p, RightOf(p), LeftOf(p)}
  BY DEF HSource
<1> QED BY <1>1, <1>3, <1>4 DEF Below, RightOf, LeftOf

LEMMA InjectionKeepsDepth ==
  ASSUME NEW s, NEW t, NEW y \in Int, NEW from \in [Coords -> Coords],
         \A p \in Coords : from[from[p]] = p,
         \A p \in Coords : t[p] = s[from[p]],
         \A p \in CellsOf(s, Sand) : from[p][2] >= p[2]
  PROVE  SandFrom(t, y) >= SandFrom(s, y)
<1> DEFINE S == {p \in CellsOf(s, Sand) : p[2] >= y}
           T == {p \in CellsOf(t, Sand) : p[2] >= y}
           f == [p \in S |-> from[p]]
<1>1. \A p \in Coords : p[2] \in Int
  BY BelowAbove, GeometryAssumption DEF Rows
<1>2. f \in [S -> T]
  <2> SUFFICES ASSUME NEW p \in S PROVE from[p] \in T
    OBVIOUS
  <2>1. p \in Coords /\ p \in CellsOf(s, Sand) /\ s[p] = Sand /\ p[2] >= y
    BY DEF CellsOf
  <2>2. from[p] \in Coords /\ t[from[p]] = Sand
    BY <2>1
  <2>3. from[p][2] >= y
    BY <2>1, <2>2, <1>1
  <2> QED BY <2>2, <2>3 DEF CellsOf
<1>3. \A a, b \in S : f[a] = f[b] => a = b
  BY DEF CellsOf
<1> HIDE DEF f
<1>4. f \in Injection(S, T)
  BY <1>2, <1>3, Fun_IsInj
<1>5. T \in SUBSET CellsOf(t, Sand)
  OBVIOUS
<1>6. IsFiniteSet(T)
  BY <1>5, CoordsFinite, FS_Subset
<1>7. IsFiniteSet(S) /\ Cardinality(S) <= Cardinality(T)
  BY <1>4, <1>6, FS_Injection
<1>8. Cardinality(S) \in Int /\ Cardinality(T) \in Int
  BY <1>6, <1>7, FS_CardinalityType
<1> QED BY <1>7, <1>8 DEF SandFrom

LEMMA ExchangeKeepsDepth ==
  ASSUME NEW s \in Grids, NEW parity \in {0, 1}, NEW y \in Int
  PROVE  /\ SandFrom(verticalScalar(s, parity), y) >= SandFrom(s, y)
         /\ SandFrom(horizontalScalar(s, parity), y) >= SandFrom(s, y)
<1>0. \A p \in Coords : p[2] \in Int
  BY BelowAbove, GeometryAssumption DEF Rows
<1>1. SandFrom(verticalScalar(s, parity), y) >= SandFrom(s, y)
  <2> DEFINE from == [p \in Coords |-> VSource(s, parity, p)]
  <2>1. /\ from \in [Coords -> Coords]
        /\ \A p \in Coords : from[from[p]] = p
        /\ \A p \in Coords : verticalScalar(s, parity)[p] = s[from[p]]
    BY VerticalGathers
  <2>2. \A p \in CellsOf(s, Sand) : from[p][2] >= p[2]
    BY GrainsDescend DEF CellsOf
  <2> HIDE DEF from
  <2> QED BY <2>1, <2>2, InjectionKeepsDepth
<1>2. SandFrom(horizontalScalar(s, parity), y) >= SandFrom(s, y)
  <2> DEFINE from == [p \in Coords |-> HSource(s, parity, p)]
  <2>1. /\ from \in [Coords -> Coords]
        /\ \A p \in Coords : from[from[p]] = p
        /\ \A p \in Coords : horizontalScalar(s, parity)[p] = s[from[p]]
    BY HorizontalGathers
  <2>2. \A p \in CellsOf(s, Sand) : from[p][2] >= p[2]
    BY GrainsDescend, <1>0 DEF CellsOf
  <2> HIDE DEF from
  <2> QED BY <2>1, <2>2, InjectionKeepsDepth
<1> QED BY <1>1, <1>2

LEMMA SandFromType ==
  ASSUME NEW g, NEW y PROVE SandFrom(g, y) \in Nat
<1>1. {p \in CellsOf(g, Sand) : p[2] >= y} \in SUBSET CellsOf(g, Sand)
  OBVIOUS
<1> QED BY <1>1, CoordsFinite, FS_Subset, FS_CardinalityType DEF SandFrom

\* In a frame no row and what lies below it loses sand.
THEOREM SandOnlySinks == Spec => SandNeverRises
<1>1. TypeOK /\ [Next]_vars =>
        [Step => \A y \in Rows : SandFrom(grid', y) >= SandFrom(grid, y)]_vars
  <2> SUFFICES ASSUME TypeOK, Step, NEW y \in Rows
               PROVE  SandFrom(grid', y) >= SandFrom(grid, y)
    OBVIOUS
  <2> DEFINE v == verticalScalar(grid, VerticalParity(frame))
             x == AfterExchange(grid, frame)
  <2>1. /\ grid \in Grids /\ v \in Grids /\ x \in Grids /\ y \in Int
        /\ VerticalParity(frame) \in {0, 1} /\ HorizontalParity(frame) \in {0, 1}
    BY StepIsFrame, FrameType, ParityType, GeometryAssumption DEF Rows
  <2>2. x = horizontalScalar(v, HorizontalParity(frame))
    BY DEF AfterExchange
  <2>3. PICK noise : grid' = decayScalar(x, noise)
    BY StepIsFrame
  <2>4. SandFrom(v, y) >= SandFrom(grid, y)
    BY <2>1, ExchangeKeepsDepth
  <2> HIDE DEF v, x
  <2>5. SandFrom(x, y) >= SandFrom(v, y)
    BY <2>1, <2>2, ExchangeKeepsDepth
  <2>6. SandFrom(grid', y) = SandFrom(x, y)
    BY <2>1, <2>3, DecayOfGrid DEF SandFrom
  <2> QED BY <2>4, <2>5, <2>6, SandFromType
<1> QED BY <1>1, TypeCorrect, PTL DEF Spec, SandNeverRises
=============================================================================
