----------------------------- MODULE Grid_proofs -----------------------------
(***************************************************************************)
(* Facts about the cell rules, for every cell value, and about the passes  *)
(* and the operations of class Grid, for a grid of every size: the two     *)
(* exchange passes permute the cells, none of the three passes moves a     *)
(* wall, and every operation yields a grid.                                *)
(***************************************************************************)
EXTENDS Grid, TLAPS, FiniteSetTheorems, FunctionTheorems, WellFoundedInduction

-----------------------------------------------------------------------------
(* Induction and recursion over the natural numbers, for sets and          *)
(* functions: what the recursive functions of the models compute follows.  *)

LEMMA SetInduction ==
  ASSUME NEW T \in SUBSET Nat, 0 \in T, \A n \in T : n + 1 \in T
  PROVE  T = Nat
<1> DEFINE L == OpToRel(<, Nat)
           U == Nat \ T
<1>1. IsWellFoundedOn(L, Nat)
  BY NatLessThanWellFounded
<1>2. \A x, y \in Nat : x < y => <<x, y>> \in L
  BY DEF OpToRel
<1> HIDE DEF L
<1>3. SUFFICES ASSUME U # {} PROVE FALSE
  OBVIOUS
<1>4. PICK x \in U : \A y \in U : ~(<<y, x>> \in L)
  BY <1>1, <1>3, WFMin, Zenon
<1>5. x # 0 /\ x \in Nat
  OBVIOUS
<1>6. x - 1 \in Nat /\ x - 1 < x
  BY <1>5
<1>7. x - 1 \notin U
  BY <1>2, <1>4, <1>5, <1>6
<1>8. (x - 1) + 1 \in T
  BY <1>6, <1>7
<1> QED BY <1>5, <1>8

\* f starts at b and follows the step function.
Iterates(f, b, step) == f[0] = b /\ \A n \in Nat : f[n + 1] = step[<<n, f[n]>>]

\* A step function has a sequence that starts anywhere and follows it.
LEMMA NatRecursion ==
  ASSUME NEW S, NEW b \in S, NEW step \in [Nat \X S -> S]
  PROVE  \E f \in [Nat -> S] : Iterates(f, b, step)
<1> DEFINE Follows(f, n) == f[0] = b /\ \A k \in 0..(n - 1) : f[k + 1] = step[<<k, f[k]>>]
           Start(n) == {f \in [0..n -> S] : Follows(f, n)}
<1>1. \A n \in Nat : Start(n) # {}
  <2> DEFINE T == {n \in Nat : Start(n) # {}}
  <2>1. 0 \in T
    <3>1. [i \in 0..0 |-> b] \in Start(0)
      OBVIOUS
    <3> QED BY <3>1
  <2>2. ASSUME NEW n \in T PROVE n + 1 \in T
    <3>1. PICK f : f \in Start(n)
      OBVIOUS
    <3> DEFINE g == [i \in 0..(n + 1) |-> IF i <= n THEN f[i] ELSE step[<<n, f[n]>>]]
    <3>2. f[n] \in S /\ step[<<n, f[n]>>] \in S
      BY <3>1
    <3>3. g \in [0..(n + 1) -> S]
      BY <3>1, <3>2
    <3>4. g[0] = b
      BY <3>1
    <3>5. ASSUME NEW k \in 0..((n + 1) - 1) PROVE g[k + 1] = step[<<k, g[k]>>]
      <4>1. k \in 0..(n + 1) /\ k + 1 \in 0..(n + 1) /\ k <= n /\ n \in Nat
        OBVIOUS
      <4>2. /\ g[k] = f[k]
            /\ g[k + 1] = IF k + 1 <= n THEN f[k + 1] ELSE step[<<n, f[n]>>]
        BY <4>1
      <4> HIDE DEF g
      <4>3. CASE k < n
        <5>1. f[k + 1] = step[<<k, f[k]>>]
          BY <3>1, <4>1, <4>3
        <5> QED BY <4>1, <4>2, <4>3, <5>1
      <4>4. CASE k = n
        BY <4>1, <4>2, <4>4
      <4> QED BY <4>1, <4>3, <4>4
    <3> HIDE DEF g
    <3>6. g \in Start(n + 1)
      BY <3>3, <3>4, <3>5
    <3> QED BY <3>6
  <2> HIDE DEF T
  <2>3. T = Nat
    <3>1. T \in SUBSET Nat
      BY DEF T
    <3> QED BY <2>1, <2>2, <3>1, SetInduction
  <2> QED BY <2>3 DEF T
<1>2. \A n \in Nat : \A m \in Nat : \A f \in Start(n), g \in Start(m) :
        n <= m => f[n] = g[n]
  <2> DEFINE T == {k \in Nat : \A n, m \in Nat : \A f \in Start(n), g \in Start(m) :
                                k <= n /\ k <= m => f[k] = g[k]}
  <2>1. 0 \in T
    OBVIOUS
  <2>2. ASSUME NEW k \in T PROVE k + 1 \in T
    <3>1. ASSUME NEW n \in Nat, NEW m \in Nat,
                 NEW f \in Start(n), NEW g \in Start(m), k + 1 <= n, k + 1 <= m
          PROVE  f[k + 1] = g[k + 1]
      <4>1. k \in Nat /\ k <= n /\ k <= m /\ k \in 0..(n - 1) /\ k \in 0..(m - 1)
        BY <3>1
      <4>2. f[k] = g[k]
        <5> HIDE DEF Start
        <5> QED BY <4>1
      <4>3. f[k + 1] = step[<<k, f[k]>>] /\ g[k + 1] = step[<<k, g[k]>>]
        BY <4>1
      <4> QED BY <4>2, <4>3
    <3>2. k + 1 \in Nat
      OBVIOUS
    <3> HIDE DEF Start
    <3> QED BY <3>1, <3>2, Zenon
  <2> HIDE DEF T
  <2>3. T = Nat
    <3>1. T \in SUBSET Nat
      BY DEF T
    <3> QED BY <2>1, <2>2, <3>1, SetInduction
  <2> SUFFICES ASSUME NEW n \in Nat, NEW m \in Nat, NEW f \in Start(n),
                      NEW g \in Start(m), n <= m
               PROVE  f[n] = g[n]
    OBVIOUS
  <2>4. n \in T /\ n <= n
    BY <2>3
  <2> HIDE DEF Start
  <2> QED BY <2>4 DEF T
<1> DEFINE pick(n) == CHOOSE f : f \in Start(n)
           F == [n \in Nat |-> pick(n)[n]]
<1>3. \A n \in Nat : pick(n) \in Start(n)
  BY <1>1
<1> HIDE DEF pick
<1>4. F \in [Nat -> S]
  BY <1>3
<1>5. F[0] = b
  BY <1>3
<1>6. ASSUME NEW n \in Nat PROVE F[n + 1] = step[<<n, F[n]>>]
  <2>1. pick(n + 1)[n] = pick(n)[n]
    <3> HIDE DEF Start
    <3>1. n + 1 \in Nat /\ n <= n + 1
      OBVIOUS
    <3> QED BY <1>2, <1>3, <3>1
  <2>2. pick(n + 1)[n + 1] = step[<<n, pick(n + 1)[n]>>]
    BY <1>3
  <2> QED BY <2>1, <2>2
<1> QED BY <1>4, <1>5, <1>6 DEF Iterates

-----------------------------------------------------------------------------
(* The cell rules, for every cell value.                                   *)

\* The real densities the comment above densityBiased gives.
RealDensity(c) ==
  IF c = Fire THEN 0 ELSE IF c = Empty THEN 1
  ELSE IF c = Water THEN 2 ELSE IF c = Sand THEN 3 ELSE 255

\* The signed bytes in the table, cell by cell: the real densities less 128, and
\* 127 for a wall.
LEMMA SignedDensities ==
  /\ Signed8(densityBiased(Empty)) = -127
  /\ Signed8(densityBiased(Sand))  = -125
  /\ Signed8(densityBiased(Water)) = -126
  /\ Signed8(densityBiased(Fire))  = -128
  /\ Signed8(densityBiased(Wall))  = 127
BY DEF densityBiased, Signed8, Empty, Sand, Water, Fire, Wall

LEMMA CellsEnumerated == Cells = {Empty, Sand, Water, Fire, Wall}
BY DEF Cells, Empty, Sand, Water, Fire, Wall

\* The signed compare of the biased densities orders the movable cells as the
\* unsigned compare of the real densities does.
THEOREM BiasedCompareIsDensityOrder ==
  ASSUME NEW a \in Cells, NEW b \in Cells
  PROVE  denserThan(a, b) <=> RealDensity(a) > RealDensity(b)
BY SignedDensities, CellsEnumerated
   DEF denserThan, RealDensity, Empty, Sand, Water, Fire, Wall

\* A vertical swap moves two different cells, neither of them a wall, and is
\* never undone by the same rule.
THEOREM VerticalSwapIsStrict ==
  ASSUME NEW a \in Cells, NEW b \in Cells, swapVertical(a, b)
  PROVE  a # Wall /\ b # Wall /\ a # b /\ ~swapVertical(b, a)
BY SignedDensities, CellsEnumerated
   DEF swapVertical, denserThan, Empty, Sand, Water, Fire, Wall

\* At most one of the two directions of a lateral move is possible (the comment
\* above swapHorizontal), and the pair holds one empty cell and one mobile one.
THEOREM LateralMoveIsExclusive ==
  ASSUME NEW a \in Cells, NEW b \in Cells, NEW ba \in Cells, NEW bb \in Cells,
         NEW aa \in Cells, NEW ab \in Cells
  PROVE  /\ ~(Spreads(a, b, ba, bb, aa) /\ Spreads(b, a, bb, ba, ab))
         /\ swapHorizontal(a, b, ba, bb, aa, ab) =>
              a # Wall /\ b # Wall /\ (a = Empty) # (b = Empty)
BY DEF Cells, swapHorizontal, Spreads, isMobile, Empty, Sand, Water, Fire, Wall

\* Decay rewrites fires only, and only into empty space.
LEMMA DecayOnlyKillsFire ==
  ASSUME NEW c \in Cells, NEW l, NEW r, NEW u, NEW d, NEW burns \in BOOLEAN
  PROVE  /\ decayFire(c, l, r, u, d, burns) \in {c, Empty}
         /\ c # Fire => decayFire(c, l, r, u, d, burns) = c
         /\ c = Fire /\ Water \in {l, r, u, d} =>
              decayFire(c, l, r, u, d, burns) = Empty
BY DEF decayFire, Cells, Empty, Fire

-----------------------------------------------------------------------------
(* The passes and the operations of class Grid.                            *)

LEMMA SampleType ==
  ASSUME NEW s \in Grids, NEW p
  PROVE  sampleCell(s, p) \in Cells
BY DEF Grids, sampleCell, Cells, Wall

\* Each pass maps a grid to a grid.
LEMMA PassesType ==
  ASSUME NEW s \in Grids, NEW parity, NEW noise
  PROVE  /\ verticalScalar(s, parity) \in Grids
         /\ horizontalScalar(s, parity) \in Grids
         /\ decayScalar(s, noise) \in Grids
<1>1. \A p : verticalCell(s, parity, p) \in Cells
  BY SampleType DEF verticalCell
<1>2. \A p : horizontalCell(s, parity, p) \in Cells
  BY SampleType DEF horizontalCell
<1>3. \A p : decayCell(s, noise, p) \in Cells
  <2> SUFFICES ASSUME NEW p PROVE decayCell(s, noise, p) \in Cells
    OBVIOUS
  <2> QED BY SampleType DEF decayCell, decayFire, Cells, Empty
<1> QED BY <1>1, <1>2, <1>3 DEF Grids, verticalScalar, horizontalScalar, decayScalar

-----------------------------------------------------------------------------
(* An exchange pass permutes the cells: the cell it writes at p is the one *)
(* the source buffer holds at VSource (HSource) of p, and that map is its  *)
(* own inverse.                                                            *)

Upper(parity, p) == IF p[2] % 2 = parity THEN p ELSE Above(p)
Left(parity, p)  == IF p[1] % 2 = parity THEN p ELSE LeftOf(p)

PairFalls(s, u) == swapVertical(sampleCell(s, u), sampleCell(s, Below(u)))

VSource(s, parity, p) ==
  IF ~PairFalls(s, Upper(parity, p)) THEN p
  ELSE IF p[2] % 2 = parity THEN Below(p) ELSE Above(p)

HSource(s, parity, p) ==
  IF ~PairSpreads(s, Left(parity, p)) THEN p
  ELSE IF p[1] % 2 = parity THEN RightOf(p) ELSE LeftOf(p)

LEMMA BelowAbove ==
  ASSUME NEW p \in Coords
  PROVE  /\ p = <<p[1], p[2]>> /\ p[1] \in Cols /\ p[2] \in Rows
         /\ Below(Above(p)) = p /\ Above(Below(p)) = p
         /\ RightOf(LeftOf(p)) = p /\ LeftOf(RightOf(p)) = p
BY GeometryAssumption DEF Coords, Cols, Rows, Above, Below, LeftOf, RightOf

\* A pair that swaps lies inside the grid and holds no wall.
LEMMA FallingPairInside ==
  ASSUME NEW s \in Grids, NEW u, PairFalls(s, u)
  PROVE  /\ u \in Coords /\ Below(u) \in Coords
         /\ s[u] # Wall /\ s[Below(u)] # Wall
<1>1. /\ sampleCell(s, u) \in Cells
      /\ sampleCell(s, Below(u)) \in Cells
  BY SampleType
<1>2. sampleCell(s, u) # Wall /\ sampleCell(s, Below(u)) # Wall
  BY <1>1, VerticalSwapIsStrict DEF PairFalls
<1> QED BY <1>2 DEF sampleCell

LEMMA SpreadingPairInside ==
  ASSUME NEW s \in Grids, NEW l, PairSpreads(s, l)
  PROVE  /\ l \in Coords /\ RightOf(l) \in Coords
         /\ s[l] # Wall /\ s[RightOf(l)] # Wall
<1>1. \A p : sampleCell(s, p) \in Cells
  BY SampleType
<1>2. sampleCell(s, l) # Wall /\ sampleCell(s, RightOf(l)) # Wall
  BY <1>1, LateralMoveIsExclusive DEF PairSpreads
<1> QED BY <1>2 DEF sampleCell

LEMMA VerticalGathers ==
  ASSUME NEW s \in Grids, NEW parity \in {0, 1}, NEW p \in Coords
  PROVE  /\ VSource(s, parity, p) \in Coords
         /\ verticalScalar(s, parity)[p] = s[VSource(s, parity, p)]
         /\ VSource(s, parity, VSource(s, parity, p)) = p
         /\ s[p] = Wall => VSource(s, parity, p) = p
<1>0. /\ p = <<p[1], p[2]>> /\ p[1] \in Int /\ p[2] \in Int
      /\ Below(Above(p)) = p /\ Above(Below(p)) = p
  BY BelowAbove, GeometryAssumption DEF Cols, Rows
<1>1. CASE ~PairFalls(s, Upper(parity, p))
  <2>1. VSource(s, parity, p) = p
    BY <1>1 DEF VSource
  <2>2. verticalCell(s, parity, p) = s[p]
    <3>1. CASE p[2] % 2 = parity
      BY <3>1, <1>1 DEF verticalCell, Upper, PairFalls, sampleCell
    <3>2. CASE p[2] % 2 # parity
      BY <3>2, <1>1, <1>0 DEF verticalCell, Upper, PairFalls, sampleCell
    <3> QED BY <3>1, <3>2
  <2> QED BY <2>1, <2>2 DEF verticalScalar
<1>2. CASE PairFalls(s, Upper(parity, p)) /\ p[2] % 2 = parity
  <2>1. Upper(parity, p) = p /\ VSource(s, parity, p) = Below(p)
    BY <1>2 DEF VSource, Upper
  <2>2. Below(p) \in Coords /\ s[p] # Wall
    BY <1>2, <2>1, FallingPairInside
  <2>3. verticalCell(s, parity, p) = s[Below(p)]
    BY <1>2, <2>1, <2>2 DEF verticalCell, PairFalls, sampleCell
  <2>4. Below(p)[2] % 2 # parity
    BY <1>0, <1>2 DEF Below
  <2>5. Upper(parity, Below(p)) = p
    BY <2>4, <1>0 DEF Upper
  <2>6. VSource(s, parity, Below(p)) = p
    BY <2>4, <2>5, <2>1, <1>2, <1>0 DEF VSource
  <2> QED BY <2>1, <2>2, <2>3, <2>6 DEF verticalScalar
<1>3. CASE PairFalls(s, Upper(parity, p)) /\ p[2] % 2 # parity
  <2>1. Upper(parity, p) = Above(p) /\ VSource(s, parity, p) = Above(p)
    BY <1>3 DEF VSource, Upper
  <2>2. Above(p) \in Coords /\ s[p] # Wall
    BY <1>3, <2>1, <1>0, FallingPairInside
  <2>3. verticalCell(s, parity, p) = s[Above(p)]
    BY <1>3, <2>1, <2>2, <1>0 DEF verticalCell, PairFalls, sampleCell
  <2>4. Above(p)[2] % 2 = parity
    BY <1>0, <1>3 DEF Above
  <2>6. VSource(s, parity, Above(p)) = p
    BY <2>4, <2>1, <1>3, <1>0 DEF VSource, Upper
  <2> QED BY <2>1, <2>2, <2>3, <2>6 DEF verticalScalar
<1> QED BY <1>1, <1>2, <1>3

LEMMA HorizontalGathers ==
  ASSUME NEW s \in Grids, NEW parity \in {0, 1}, NEW p \in Coords
  PROVE  /\ HSource(s, parity, p) \in Coords
         /\ horizontalScalar(s, parity)[p] = s[HSource(s, parity, p)]
         /\ HSource(s, parity, HSource(s, parity, p)) = p
         /\ s[p] = Wall => HSource(s, parity, p) = p
<1>0. /\ p = <<p[1], p[2]>> /\ p[1] \in Int /\ p[2] \in Int
      /\ RightOf(LeftOf(p)) = p /\ LeftOf(RightOf(p)) = p
  BY BelowAbove, GeometryAssumption DEF Cols, Rows
<1>1. CASE ~PairSpreads(s, Left(parity, p))
  <2>1. HSource(s, parity, p) = p
    BY <1>1 DEF HSource
  <2>2. horizontalCell(s, parity, p) = s[p]
    BY <1>1 DEF horizontalCell, Left, sampleCell
  <2> QED BY <2>1, <2>2 DEF horizontalScalar
<1>2. CASE PairSpreads(s, Left(parity, p)) /\ p[1] % 2 = parity
  <2>1. Left(parity, p) = p /\ HSource(s, parity, p) = RightOf(p)
    BY <1>2 DEF HSource, Left
  <2>2. RightOf(p) \in Coords /\ s[p] # Wall
    BY <1>2, <2>1, SpreadingPairInside
  <2>3. horizontalCell(s, parity, p) = s[RightOf(p)]
    BY <1>2, <2>1, <2>2 DEF horizontalCell, sampleCell
  <2>4. RightOf(p)[1] % 2 # parity
    BY <1>0, <1>2 DEF RightOf
  <2>5. Left(parity, RightOf(p)) = p
    BY <2>4, <1>0 DEF Left
  <2>6. HSource(s, parity, RightOf(p)) = p
    BY <2>4, <2>5, <2>1, <1>2, <1>0 DEF HSource
  <2> QED BY <2>1, <2>2, <2>3, <2>6 DEF horizontalScalar
<1>3. CASE PairSpreads(s, Left(parity, p)) /\ p[1] % 2 # parity
  <2>1. Left(parity, p) = LeftOf(p) /\ HSource(s, parity, p) = LeftOf(p)
    BY <1>3 DEF HSource, Left
  <2>2. LeftOf(p) \in Coords /\ s[p] # Wall
    BY <1>3, <2>1, <1>0, SpreadingPairInside
  <2>3. horizontalCell(s, parity, p) = s[LeftOf(p)]
    BY <1>3, <2>1, <2>2 DEF horizontalCell, sampleCell
  <2>4. LeftOf(p)[1] % 2 = parity
    BY <1>0, <1>3 DEF LeftOf
  <2>6. HSource(s, parity, LeftOf(p)) = p
    BY <2>4, <2>1, <1>3, <1>0 DEF HSource, Left
  <2> QED BY <2>1, <2>2, <2>3, <2>6 DEF horizontalScalar
<1> QED BY <1>1, <1>2, <1>3

-----------------------------------------------------------------------------
(* What follows from it.                                                   *)

LEMMA CoordsFinite ==
  /\ IsFiniteSet(Coords)
  /\ \A s, c : IsFiniteSet(CellsOf(s, c)) /\ Count(s, c) \in Nat
<1>1. IsFiniteSet(Cols) /\ IsFiniteSet(Rows)
  BY FS_Interval, GeometryAssumption DEF Cols, Rows
<1>2. IsFiniteSet(Coords)
  BY <1>1, FS_Product DEF Coords
<1>3. ASSUME NEW s, NEW c
      PROVE  IsFiniteSet(CellsOf(s, c)) /\ Count(s, c) \in Nat
  <2>1. CellsOf(s, c) \in SUBSET Coords
    BY DEF CellsOf
  <2> QED BY <2>1, <1>2, FS_Subset, FS_CardinalityType DEF Count
<1> QED BY <1>2, <1>3

\* A grid whose cells are those of another one, permuted by an involution,
\* holds as many cells of every kind.
LEMMA InvolutionKeepsCounts ==
  ASSUME NEW s, NEW t, NEW from \in [Coords -> Coords],
         \A p \in Coords : from[from[p]] = p,
         \A p \in Coords : t[p] = s[from[p]],
         NEW c
  PROVE  Count(t, c) = Count(s, c)
<1> DEFINE S == CellsOf(s, c)
           T == CellsOf(t, c)
           f == [p \in S |-> from[p]]
<1>1. f \in [S -> T]
  BY DEF CellsOf
<1>2. \A a, b \in S : f[a] = f[b] => a = b
  BY DEF CellsOf
<1>3. \A q \in T : \E p \in S : f[p] = q
  <2> SUFFICES ASSUME NEW q \in T PROVE \E p \in S : f[p] = q
    OBVIOUS
  <2>1. from[q] \in S /\ f[from[q]] = q
    BY DEF CellsOf
  <2> QED BY <2>1
<1>4. f \in Bijection(S, T)
  BY <1>1, <1>2, <1>3, Fun_IsBij
<1>5. ExistsBijection(S, T)
  BY <1>4, Fun_ExistsBij
<1> QED BY <1>5, CoordsFinite, FS_Bijection DEF Count

\* The two exchange passes keep the number of cells of every kind.
THEOREM ExchangeKeepsCounts ==
  ASSUME NEW s \in Grids, NEW parity \in {0, 1}, NEW c
  PROVE  /\ Count(verticalScalar(s, parity), c) = Count(s, c)
         /\ Count(horizontalScalar(s, parity), c) = Count(s, c)
<1>1. Count(verticalScalar(s, parity), c) = Count(s, c)
  <2> DEFINE from == [p \in Coords |-> VSource(s, parity, p)]
  <2>1. from \in [Coords -> Coords]
    BY VerticalGathers
  <2>2. \A p \in Coords : from[from[p]] = p
    BY VerticalGathers
  <2>3. \A p \in Coords : verticalScalar(s, parity)[p] = s[from[p]]
    BY VerticalGathers
  <2> HIDE DEF from
  <2> QED BY <2>1, <2>2, <2>3, InvolutionKeepsCounts
<1>2. Count(horizontalScalar(s, parity), c) = Count(s, c)
  <2> DEFINE from == [p \in Coords |-> HSource(s, parity, p)]
  <2>1. from \in [Coords -> Coords]
    BY HorizontalGathers
  <2>2. \A p \in Coords : from[from[p]] = p
    BY HorizontalGathers
  <2>3. \A p \in Coords : horizontalScalar(s, parity)[p] = s[from[p]]
    BY HorizontalGathers
  <2> HIDE DEF from
  <2> QED BY <2>1, <2>2, <2>3, InvolutionKeepsCounts
<1> QED BY <1>1, <1>2

\* ... and leave every wall where it is.
LEMMA ExchangeKeepsWalls ==
  ASSUME NEW s \in Grids, NEW parity \in {0, 1}
  PROVE  /\ CellsOf(verticalScalar(s, parity), Wall) = CellsOf(s, Wall)
         /\ CellsOf(horizontalScalar(s, parity), Wall) = CellsOf(s, Wall)
<1>1. \A p \in Coords : verticalScalar(s, parity)[p] = Wall <=> s[p] = Wall
  BY VerticalGathers
<1>2. \A p \in Coords : horizontalScalar(s, parity)[p] = Wall <=> s[p] = Wall
  BY HorizontalGathers
<1> QED BY <1>1, <1>2 DEF CellsOf

\* The decay pass touches burning cells only, and puts out each one beside water.
LEMMA DecayCells ==
  ASSUME NEW s \in Grids, NEW noise, NEW p \in Coords
  PROVE  LET d == decayScalar(s, noise)[p]
         IN  /\ s[p] # Fire => d = s[p]
             /\ s[p] = Fire => d \in {Fire, Empty}
             /\ s[p] = Fire /\ (\E q \in Neighbours(p) : sampleCell(s, q) = Water) =>
                  d = Empty
<1>1. decayScalar(s, noise)[p] = decayCell(s, noise, p)
  BY DEF decayScalar
<1>2. sampleCell(s, p) = s[p]
  BY DEF sampleCell
<1> QED BY <1>1, <1>2 DEF decayCell, decayFire, Neighbours

-----------------------------------------------------------------------------
(* Types.                                                                  *)

LEMMA ParityType ==
  ASSUME NEW f \in Nat
  PROVE  VerticalParity(f) \in {0, 1} /\ HorizontalParity(f) \in {0, 1}
BY DEF VerticalParity, HorizontalParity

LEMMA FrameType ==
  ASSUME NEW g \in Grids, NEW f \in Nat, NEW noise
  PROVE  /\ verticalScalar(g, VerticalParity(f)) \in Grids
         /\ AfterExchange(g, f) \in Grids
         /\ NextFrame(g, f, noise) \in Grids
BY PassesType DEF AfterExchange, NextFrame

LEMMA InteriorInside ==
  /\ Interior \subseteq Coords /\ Border \subseteq Coords
  /\ Coords = Interior \cup Border /\ Interior \cap Border = {}
BY DEF Interior, Border

LEMMA EditsType ==
  ASSUME NEW g \in Grids
  PROVE  /\ Cleared \in Grids
         /\ \A fill \in SeedFills : Seeded(g, fill) \in Grids
         /\ \A p, r : \A c \in Cells : Painted(g, p, r, c) \in Grids
<1>1. Cleared \in Grids
  BY DEF Cleared, Grids, Cells, Wall, Empty
<1>2. ASSUME NEW fill \in SeedFills
      PROVE  Seeded(g, fill) \in Grids
  BY InputAssumption DEF Seeded, Grids, Cells, Wall, Empty, Sand, Water
<1>3. ASSUME NEW p, NEW r, NEW c \in Cells
      PROVE  Painted(g, p, r, c) \in Grids
  BY DEF Painted, Grids
<1> QED BY <1>1, <1>2, <1>3

LEMMA ExchangeOfFrame ==
  ASSUME NEW g \in Grids, NEW f \in Nat
  PROVE  /\ \A c : Count(AfterExchange(g, f), c) = Count(g, c)
         /\ CellsOf(AfterExchange(g, f), Wall) = CellsOf(g, Wall)
<1> DEFINE v == verticalScalar(g, VerticalParity(f))
<1>1. v \in Grids /\ VerticalParity(f) \in {0, 1} /\ HorizontalParity(f) \in {0, 1}
  BY ParityType, FrameType
<1>2. \A c : Count(v, c) = Count(g, c)
  BY <1>1, ExchangeKeepsCounts
<1>3. CellsOf(v, Wall) = CellsOf(g, Wall)
  BY <1>1, ExchangeKeepsWalls
<1>4. AfterExchange(g, f) = horizontalScalar(v, HorizontalParity(f))
  BY DEF AfterExchange
<1> HIDE DEF v
<1>5. \A c : Count(AfterExchange(g, f), c) = Count(v, c)
  BY <1>1, <1>4, ExchangeKeepsCounts
<1>6. CellsOf(AfterExchange(g, f), Wall) = CellsOf(v, Wall)
  BY <1>1, <1>4, ExchangeKeepsWalls
<1> QED BY <1>2, <1>3, <1>5, <1>6

LEMMA DecayOfGrid ==
  ASSUME NEW g \in Grids, NEW noise
  PROVE  /\ \A c \in {Sand, Water, Wall} :
              CellsOf(decayScalar(g, noise), c) = CellsOf(g, c)
         /\ CellsOf(decayScalar(g, noise), Fire) \subseteq CellsOf(g, Fire)
<1> DEFINE d == decayScalar(g, noise)
<1>1. \A p \in Coords : /\ g[p] # Fire => d[p] = g[p]
                        /\ g[p] = Fire => d[p] \in {Fire, Empty}
  BY DecayCells
<1> HIDE DEF d
<1>2. \A c \in {Sand, Water, Wall} : CellsOf(d, c) = CellsOf(g, c)
  BY <1>1 DEF CellsOf, Empty, Sand, Water, Fire, Wall
<1>3. CellsOf(d, Fire) \subseteq CellsOf(g, Fire)
  BY <1>1 DEF CellsOf
<1> QED BY <1>2, <1>3 DEF d

\* The border is a wall all around.
Closed(g) == Border \subseteq CellsOf(g, Wall)

\* A frame and the edits of class Grid but set() keep it.
LEMMA BorderStaysClosed ==
  ASSUME NEW g \in Grids, Closed(g)
  PROVE  /\ Closed(Cleared)
         /\ \A f \in Nat : \A noise : Closed(NextFrame(g, f, noise))
         /\ \A fill : Closed(Seeded(g, fill))
         /\ \A at, r, c : Closed(Painted(g, at, r, c))
<1>1. \A q \in Border : q \in Coords /\ q \notin Interior /\ g[q] = Wall
  BY InteriorInside DEF Closed, CellsOf
<1>2. Closed(Cleared)
  BY InteriorInside DEF Closed, CellsOf, Cleared
<1>3. ASSUME NEW f \in Nat, NEW noise PROVE Closed(NextFrame(g, f, noise))
  <2>1. /\ AfterExchange(g, f) \in Grids
        /\ CellsOf(AfterExchange(g, f), Wall) = CellsOf(g, Wall)
    BY FrameType, ExchangeOfFrame
  <2>2. CellsOf(NextFrame(g, f, noise), Wall) = CellsOf(AfterExchange(g, f), Wall)
    BY <2>1, DecayOfGrid DEF NextFrame
  <2> QED BY <2>1, <2>2 DEF Closed
<1>4. ASSUME NEW fill PROVE Closed(Seeded(g, fill))
  <2>1. Ledges \subseteq Interior
    BY DEF Ledges
  <2> QED BY <1>1, <2>1 DEF Closed, CellsOf, Seeded
<1>5. ASSUME NEW at, NEW r, NEW c PROVE Closed(Painted(g, at, r, c))
  <2>1. Disc(at, r) \subseteq Interior
    BY DEF Disc
  <2> QED BY <1>1, <2>1 DEF Closed, CellsOf, Painted
<1> QED BY <1>2, <1>3, <1>4, <1>5

\* Of a closed grid seedRandom leaves nothing.
LEMMA SeededForgets ==
  ASSUME NEW g \in Grids, NEW h \in Grids, Closed(g), Closed(h), NEW fill
  PROVE  Seeded(g, fill) = Seeded(h, fill)
<1>1. \A p \in Coords : p \notin Interior => g[p] = h[p]
  BY InteriorInside DEF Closed, CellsOf
<1>2. Ledges \subseteq Interior
  BY DEF Ledges
<1> QED BY <1>1, <1>2 DEF Seeded

\* The scan of a pass meets every cell of the grid: the cells numbered in
\* row-major order are the coordinates.
LEMMA DivMod ==
  ASSUME NEW n \in Nat, NEW b \in Nat \ {0}
  PROVE  /\ n % b \in 0..(b - 1) /\ n \div b \in Nat
         /\ n = b * (n \div b) + (n % b)
OBVIOUS

LEMMA DivModUnique ==
  ASSUME NEW b \in Nat \ {0}, NEW q \in Nat, NEW r \in 0..(b - 1)
  PROVE  /\ (b * q + r) % b = r
         /\ (b * q + r) \div b = q
<1> DEFINE n  == b * q + r
           q2 == n \div b
           r2 == n % b
<1>1. n \in Nat
  OBVIOUS
<1>2. r2 \in 0..(b - 1) /\ q2 \in Nat /\ n = b * q2 + r2
  BY <1>1, DivMod
<1> HIDE DEF q2, r2
<1>3. b * q + r = b * q2 + r2
  BY <1>2
<1>4. q2 = q
  <2>1. CASE q2 > q
    <3>1. b * (q2 - q) >= b
      BY <2>1, <1>2
    <3>2. b * (q2 - q) = r - r2
      BY <1>2, <1>3
    <3> QED BY <3>1, <3>2, <1>2
  <2>2. CASE q2 < q
    <3>1. b * (q - q2) >= b
      BY <2>2, <1>2
    <3>2. b * (q - q2) = r2 - r
      BY <1>2, <1>3
    <3> QED BY <3>1, <3>2, <1>2
  <2> QED BY <2>1, <2>2, <1>2
<1>5. r2 = r
  BY <1>2, <1>3, <1>4
<1> QED BY <1>4, <1>5 DEF q2, r2

-----------------------------------------------------------------------------
(* Addresses: lane i of row r of tile t.                                   *)

\* The tiles, and the rows and columns of one.
Tiles == 0..(tilesX * tilesY - 1)
Edge  == 0..(Tile - 1)

At(t, r, i)     == t * kTileBytes + r * Tile + i
CellIn(t, r, i) == <<(t % tilesX) * Tile + i, (t \div tilesX) * Tile + r>>

LEMMA Shape ==
  /\ Tile \in Nat \ {0} /\ tilesX \in Nat \ {0} /\ tilesY \in Nat \ {0}
  /\ W = Tile * tilesX /\ H = Tile * tilesY
  /\ kTileBytes \in Nat \ {0} /\ kTileBytes = Tile * Tile
  /\ tilesX * tilesY \in Nat \ {0} /\ Size = kTileBytes * (tilesX * tilesY)
<1>1. Tile \in Nat \ {0} /\ W \in Nat \ {0} /\ H \in Nat \ {0} /\ W % Tile = 0 /\ H % Tile = 0
  BY GeometryAssumption
<1>2. /\ tilesX \in Nat /\ tilesY \in Nat
      /\ W = Tile * tilesX /\ H = Tile * tilesY
  <2>1. W = Tile * (W \div Tile) + (W % Tile) /\ W \div Tile \in Nat
    BY <1>1, DivMod
  <2>2. H = Tile * (H \div Tile) + (H % Tile) /\ H \div Tile \in Nat
    BY <1>1, DivMod
  <2> QED BY <1>1, <2>1, <2>2 DEF tilesX, tilesY
<1>3. tilesX # 0 /\ tilesY # 0
  BY <1>1, <1>2
<1> DEFINE X == tilesX
           Y == tilesY
<1>4. X \in Nat \ {0} /\ Y \in Nat \ {0}
  BY <1>2, <1>3
<1>5. W * H = (Tile * X) * (Tile * Y)
  BY <1>2
<1> HIDE DEF X, Y
<1>6. X * Y \in Nat \ {0} /\ Tile * Tile \in Nat \ {0}
  BY <1>1, <1>4
<1>7. (Tile * X) * (Tile * Y) = (Tile * Tile) * (X * Y)
  BY <1>1, <1>4
<1> QED BY <1>1, <1>2, <1>4, <1>5, <1>6, <1>7 DEF X, Y, Size, kTileBytes

\* Quotient and remainder, of a number below a product.
LEMMA SplitBelow ==
  ASSUME NEW b \in Nat \ {0}, NEW m \in Nat \ {0}, NEW n \in 0..(b * m - 1)
  PROVE  n \div b \in 0..(m - 1) /\ n % b \in 0..(b - 1) /\ n = b * (n \div b) + (n % b)
<1>1. b * m \in Nat /\ n \in Nat /\ n < b * m
  OBVIOUS
<1> DEFINE q == n \div b
           k == n % b
<1>2. q \in Nat /\ k \in 0..(b - 1) /\ n = b * q + k
  BY <1>1, DivMod
<1> HIDE DEF q, k
<1>3. q < m
  <2> SUFFICES ASSUME q >= m PROVE FALSE
    BY <1>2
  <2>1. q - m \in Nat
    BY <1>2
  <2>2. b * (q - m) >= 0
    BY <2>1
  <2>3. b * (q - m) = b * q - b * m
    BY <1>2
  <2> QED BY <1>1, <1>2, <2>2, <2>3
<1> QED BY <1>2, <1>3 DEF q, k

\* ... and put together again.
LEMMA JoinBelow ==
  ASSUME NEW b \in Nat \ {0}, NEW m \in Nat \ {0}, NEW q \in 0..(m - 1), NEW k \in 0..(b - 1)
  PROVE  b * q + k \in 0..(b * m - 1)
<1>1. m - 1 - q \in Nat
  OBVIOUS
<1>2. b * (m - 1 - q) >= 0
  BY <1>1
<1>3. b * (m - 1 - q) = b * m - b - b * q
  OBVIOUS
<1>4. b * q \in Nat /\ b * m \in Nat
  OBVIOUS
<1> QED BY <1>2, <1>3, <1>4

LEMMA TilePlace ==
  ASSUME NEW t \in Tiles
  PROVE  /\ t % tilesX \in 0..(tilesX - 1) /\ t \div tilesX \in 0..(tilesY - 1)
         /\ t = tilesX * (t \div tilesX) + (t % tilesX)
BY Shape, SplitBelow DEF Tiles

LEMMA CellInside ==
  ASSUME NEW t \in Tiles, NEW r \in Edge, NEW i \in Edge
  PROVE  CellIn(t, r, i) \in Coords
<1>1. (t % tilesX) \in 0..(tilesX - 1) /\ (t \div tilesX) \in 0..(tilesY - 1)
  BY TilePlace
<1>2. Tile * (t % tilesX) + i \in 0..(W - 1)
  BY <1>1, Shape, JoinBelow DEF Edge
<1>3. Tile * (t \div tilesX) + r \in 0..(H - 1)
  BY <1>1, Shape, JoinBelow DEF Edge
<1>4. Tile * (t % tilesX) = (t % tilesX) * Tile /\ Tile * (t \div tilesX) = (t \div tilesX) * Tile
  BY <1>1, Shape
<1> QED BY <1>2, <1>3, <1>4 DEF CellIn, Coords, Cols, Rows

LEMMA AddressBelow ==
  ASSUME NEW t \in Tiles, NEW r \in Edge, NEW i \in Edge
  PROVE  /\ At(t, r, i) \in 0..(Size - 1)
         /\ At(t, r, i) \div kTileBytes = t
         /\ (At(t, r, i) % kTileBytes) \div Tile = r
         /\ (At(t, r, i) % kTileBytes) % Tile = i
<1> DEFINE c == Tile * r + i
<1>0. r \in 0..(Tile - 1) /\ i \in 0..(Tile - 1) /\ t \in 0..(tilesX * tilesY - 1) /\ t \in Nat /\ r \in Nat
  BY Shape DEF Edge, Tiles
<1>1. c \in 0..(kTileBytes - 1)
  BY <1>0, Shape, JoinBelow
<1>2. c \div Tile = r /\ c % Tile = i
  BY <1>0, Shape, DivModUnique
<1>3. At(t, r, i) = kTileBytes * t + c
  <2>1. t * kTileBytes = kTileBytes * t /\ r * Tile = Tile * r /\ t * kTileBytes \in Nat /\ r * Tile \in Nat
    BY <1>0, Shape
  <2> QED BY <2>1, <1>0 DEF At
<1> HIDE DEF c
<1>4. (kTileBytes * t + c) \div kTileBytes = t /\ (kTileBytes * t + c) % kTileBytes = c
  BY <1>0, <1>1, Shape, DivModUnique
<1>5. kTileBytes * t + c \in 0..(Size - 1)
  BY <1>0, <1>1, Shape, JoinBelow
<1> QED BY <1>2, <1>3, <1>4, <1>5, Zenon

\* tiledIndex and CoordOf, on the cells of a tile.
LEMMA AddressOfCell ==
  ASSUME NEW t \in Tiles, NEW r \in Edge, NEW i \in Edge
  PROVE  /\ tiledIndex(CellIn(t, r, i)) = At(t, r, i)
         /\ CoordOf(At(t, r, i)) = CellIn(t, r, i)
<1> DEFINE q == t \div tilesX
           k == t % tilesX
           p == CellIn(t, r, i)
<1>0. Edge = 0..(Tile - 1)
  BY DEF Edge
<1>1. q \in Nat /\ k \in Nat /\ t = tilesX * q + k
  BY TilePlace, Shape
<1>2. p[1] = k * Tile + i /\ p[2] = q * Tile + r
  BY DEF CellIn
<1>a. p = <<k * Tile + i, q * Tile + r>>
  BY DEF CellIn
<1> HIDE DEF q, k, p
<1>3. k * Tile = Tile * k /\ q * Tile = Tile * q /\ q * tilesX = tilesX * q
  BY <1>1, Shape
<1>4. p[1] \div Tile = k /\ p[1] % Tile = i
  <2>1. (Tile * k + i) \div Tile = k /\ (Tile * k + i) % Tile = i
    BY <1>0, <1>1, Shape, DivModUnique
  <2> QED BY <1>2, <1>3, <2>1, Zenon
<1>5. p[2] \div Tile = q /\ p[2] % Tile = r
  <2>1. (Tile * q + r) \div Tile = q /\ (Tile * q + r) % Tile = r
    BY <1>0, <1>1, Shape, DivModUnique
  <2> QED BY <1>2, <1>3, <2>1, Zenon
<1>6. (q * tilesX + k) * kTileBytes + r * Tile + i = At(t, r, i)
  BY <1>1, <1>3 DEF At
<1>7. tiledIndex(p) = At(t, r, i)
  BY <1>4, <1>5, <1>6 DEF tiledIndex
<1>8. CoordOf(At(t, r, i)) = <<k * Tile + i, q * Tile + r>>
  <2>1. /\ At(t, r, i) \div kTileBytes = t
        /\ (At(t, r, i) % kTileBytes) \div Tile = r
        /\ (At(t, r, i) % kTileBytes) % Tile = i
    BY AddressBelow
  <2>2. CoordOf(At(t, r, i)) = <<(t % tilesX) * Tile + i, (t \div tilesX) * Tile + r>>
    BY <2>1 DEF CoordOf
  <2> QED BY <2>2 DEF q, k
<1> QED BY <1>7, <1>8, <1>a DEF p

\* Every cell and every address has its place.
LEMMA PlaceOfCell ==
  ASSUME NEW p \in Coords
  PROVE  \E t \in Tiles, r \in Edge, i \in Edge : p = CellIn(t, r, i)
<1> DEFINE k == p[1] \div Tile
           i == p[1] % Tile
           q == p[2] \div Tile
           r == p[2] % Tile
           t == tilesX * q + k
<1>1. p = <<p[1], p[2]>> /\ p[1] \in 0..(Tile * tilesX - 1) /\ p[2] \in 0..(Tile * tilesY - 1)
  BY Shape DEF Coords, Cols, Rows
<1>2. k \in 0..(tilesX - 1) /\ i \in 0..(Tile - 1) /\ p[1] = Tile * k + i
  BY <1>1, Shape, SplitBelow
<1>3. q \in 0..(tilesY - 1) /\ r \in 0..(Tile - 1) /\ p[2] = Tile * q + r
  BY <1>1, Shape, SplitBelow
<1> HIDE DEF k, i, q, r
<1>4. t \in Tiles
  BY <1>2, <1>3, Shape, JoinBelow DEF Tiles
<1>5. t \div tilesX = q /\ t % tilesX = k
  BY <1>2, <1>3, Shape, DivModUnique
<1> HIDE DEF t
<1>6. Tile * k = k * Tile /\ Tile * q = q * Tile
  BY <1>2, <1>3, Shape
<1>7. p = CellIn(t, r, i)
  BY <1>1, <1>2, <1>3, <1>5, <1>6, Zenon DEF CellIn
<1> QED BY <1>2, <1>3, <1>4, <1>7 DEF Edge

LEMMA PlaceOfAddress ==
  ASSUME NEW n \in 0..(Size - 1)
  PROVE  \E t \in Tiles, r \in Edge, i \in Edge : n = At(t, r, i)
<1> DEFINE t == n \div kTileBytes
           c == n % kTileBytes
           r == c \div Tile
           i == c % Tile
<1>1. t \in Tiles /\ c \in 0..(kTileBytes - 1) /\ n = kTileBytes * t + c
  BY Shape, SplitBelow DEF Tiles
<1> HIDE DEF t, c
<1>2. r \in 0..(Tile - 1) /\ i \in 0..(Tile - 1) /\ c = Tile * r + i
  BY <1>1, Shape, SplitBelow
<1> HIDE DEF r, i
<1>3. n = At(t, r, i)
  <2>1. t \in Nat /\ r \in Nat
    BY <1>1, <1>2, Shape DEF Tiles
  <2>2. t * kTileBytes = kTileBytes * t /\ r * Tile = Tile * r
    BY <2>1, Shape
  <2>3. kTileBytes * t \in Nat /\ Tile * r \in Nat /\ i \in Nat
    BY <2>1, <1>2, Shape
  <2> QED BY <1>1, <1>2, <2>2, <2>3 DEF At
<1> QED BY <1>1, <1>2, <1>3 DEF Edge

LEMMA AddressUnique ==
  ASSUME NEW t \in Tiles, NEW r \in Edge, NEW i \in Edge,
         NEW t2 \in Tiles, NEW r2 \in Edge, NEW i2 \in Edge,
         At(t, r, i) = At(t2, r2, i2)
  PROVE  t = t2 /\ r = r2 /\ i = i2
<1>1. /\ At(t, r, i) \div kTileBytes = t
      /\ (At(t, r, i) % kTileBytes) \div Tile = r
      /\ (At(t, r, i) % kTileBytes) % Tile = i
  BY AddressBelow
<1>2. /\ At(t2, r2, i2) \div kTileBytes = t2
      /\ (At(t2, r2, i2) % kTileBytes) \div Tile = r2
      /\ (At(t2, r2, i2) % kTileBytes) % Tile = i2
  BY AddressBelow
<1> QED BY <1>1, <1>2, Zenon

-----------------------------------------------------------------------------
(* A buffer and the grid it holds.                                         *)

LEMMA IndexInverse ==
  ASSUME NEW p \in Coords
  PROVE  tiledIndex(p) \in 0..(Size - 1) /\ CoordOf(tiledIndex(p)) = p
<1>1. PICK t \in Tiles, r \in Edge, i \in Edge : p = CellIn(t, r, i)
  BY PlaceOfCell
<1>2. tiledIndex(p) = At(t, r, i) /\ CoordOf(At(t, r, i)) = p
  BY <1>1, AddressOfCell
<1> QED BY <1>2, AddressBelow

LEMMA CoordInside ==
  ASSUME NEW n \in 0..(Size - 1)
  PROVE  CoordOf(n) \in Coords
<1>1. PICK t \in Tiles, r \in Edge, i \in Edge : n = At(t, r, i)
  BY PlaceOfAddress
<1> QED BY <1>1, AddressOfCell, CellInside

Buffers == [0..(Size - 1) -> Cells]

LEMMA BufferOfGrid ==
  ASSUME NEW g \in Grids
  PROVE  BufferOf(g) \in Buffers /\ GridOf(BufferOf(g)) = g
<1>1. BufferOf(g) \in Buffers
  BY CoordInside DEF BufferOf, Buffers, Grids
<1>2. \A p \in Coords : BufferOf(g)[tiledIndex(p)] = g[p]
  BY IndexInverse DEF BufferOf
<1>3. GridOf(BufferOf(g)) = [p \in Coords |-> g[p]]
  BY <1>2 DEF GridOf
<1> QED BY <1>1, <1>3 DEF Grids

LEMMA GridOfBuffer ==
  ASSUME NEW b \in Buffers
  PROVE  /\ GridOf(b) \in Grids
         /\ \A t \in Tiles, r \in Edge, i \in Edge : b[At(t, r, i)] = GridOf(b)[CellIn(t, r, i)]
<1>1. GridOf(b) \in Grids
  BY IndexInverse DEF GridOf, Grids, Buffers
<1>2. ASSUME NEW t \in Tiles, NEW r \in Edge, NEW i \in Edge
      PROVE  b[At(t, r, i)] = GridOf(b)[CellIn(t, r, i)]
  BY CellInside, AddressOfCell, Zenon DEF GridOf
<1> QED BY <1>1, <1>2

\* A row of the grid is, in every tile column, a row of some tile.
LEMMA RowPlace ==
  ASSUME NEW col \in 0..(tilesX - 1), NEW row \in Rows
  PROVE  \E t \in Tiles, r \in Edge : \A i \in Edge : CellIn(t, r, i) = <<col * Tile + i, row>>
<1> DEFINE q == row \div Tile
           r == row % Tile
           t == tilesX * q + col
<1>1. q \in 0..(tilesY - 1) /\ r \in 0..(Tile - 1) /\ row = Tile * q + r
  BY Shape, SplitBelow DEF Rows
<1> HIDE DEF q, r
<1>2. t \in Tiles
  BY <1>1, Shape, JoinBelow DEF Tiles
<1>3. t \div tilesX = q /\ t % tilesX = col
  BY <1>1, Shape, DivModUnique
<1> HIDE DEF t
<1>4. row = q * Tile + r
  BY <1>1, Shape
<1>5. \A i \in Edge : CellIn(t, r, i) = <<col * Tile + i, row>>
  BY <1>3, <1>4, Zenon DEF CellIn
<1> QED BY <1>1, <1>2, <1>5 DEF Edge
-----------------------------------------------------------------------------
(* The rows of tiles above and below one another.                          *)

\* Nothing falls through the edge of the grid, where the scalar code reads Wall.
LEMMA WallNeverSwaps ==
  ASSUME NEW c \in Cells
  PROVE  ~swapVertical(c, Wall) /\ ~swapVertical(Wall, c)
<1>1. Wall \in Cells
  BY DEF Cells, Wall
<1> QED BY <1>1, VerticalSwapIsStrict

LEMMA TileRows ==
  ASSUME NEW t \in Tiles
  PROVE  /\ tilesX \in Nat /\ tilesY \in Nat /\ tilesX * (tilesY - 1) \in Nat
         /\ t >= tilesX <=> t \div tilesX >= 1
         /\ t < tilesX * (tilesY - 1) <=> t \div tilesX < tilesY - 1
<1> DEFINE q == t \div tilesX
           k == t % tilesX
<1>1. q \in 0..(tilesY - 1) /\ k \in 0..(tilesX - 1) /\ t = tilesX * q + k
  BY TilePlace
<1> HIDE DEF q, k
<1>2. tilesX \in Nat \ {0} /\ tilesY \in Nat \ {0} /\ tilesX * (tilesY - 1) \in Nat
  <2>1. tilesX \in Nat \ {0} /\ tilesY \in Nat \ {0}
    BY Shape
  <2>2. tilesY - 1 \in Nat
    BY <2>1
  <2> QED BY <2>1, <2>2
<1>3. \A a \in Nat, b \in Nat : a >= b => tilesX * a >= tilesX * b
  <2> SUFFICES ASSUME NEW a \in Nat, NEW b \in Nat, a >= b PROVE tilesX * a >= tilesX * b
    OBVIOUS
  <2>1. a - b \in Nat /\ tilesX * (a - b) \in Nat /\ tilesX * (a - b) = tilesX * a - tilesX * b
    BY <1>2
  <2> QED BY <1>2, <2>1
<1>4. t >= tilesX <=> q >= 1
  <2>1. CASE q = 0
    BY <1>1, <1>2, <2>1
  <2>2. CASE q # 0
    <3>1. tilesX * q >= tilesX * 1
      BY <1>1, <1>2, <1>3, <2>2
    <3> QED BY <1>1, <1>2, <2>2, <3>1
  <2> QED BY <2>1, <2>2
<1>5. t < tilesX * (tilesY - 1) <=> q < tilesY - 1
  <2>1. CASE q < tilesY - 1
    <3>1. q + 1 \in Nat /\ tilesY - 1 \in Nat /\ tilesY - 1 >= q + 1
      BY <1>1, <1>2, <2>1
    <3>2. tilesX * (tilesY - 1) >= tilesX * (q + 1) /\ tilesX * (q + 1) = tilesX * q + tilesX
      BY <1>1, <1>2, <1>3, <3>1
    <3> QED BY <1>1, <1>2, <2>1, <3>2
  <2>2. CASE ~(q < tilesY - 1)
    <3>1. q = tilesY - 1
      BY <1>1, <1>2, <2>2
    <3> QED BY <1>1, <1>2, <3>1
  <2> QED BY <2>1, <2>2
<1> QED BY <1>2, <1>4, <1>5 DEF q

\* The cell below the last row of a tile is in the first row of the tile one row of
\* tiles further on, or out of the grid.
LEMMA BelowOfCell ==
  ASSUME NEW t \in Tiles, NEW r \in Edge, NEW i \in Edge
  PROVE  /\ r # Tile - 1 => r + 1 \in Edge /\ Below(CellIn(t, r, i)) = CellIn(t, r + 1, i)
         /\ r = Tile - 1 /\ t < tilesX * (tilesY - 1) =>
              t + tilesX \in Tiles /\ Below(CellIn(t, r, i)) = CellIn(t + tilesX, 0, i)
         /\ r = Tile - 1 /\ ~(t < tilesX * (tilesY - 1)) => Below(CellIn(t, r, i)) \notin Coords
<1> DEFINE q == t \div tilesX
           k == t % tilesX
<1>1. q \in 0..(tilesY - 1) /\ k \in 0..(tilesX - 1) /\ t = tilesX * q + k
  BY TilePlace
<1>2. t < tilesX * (tilesY - 1) <=> q < tilesY - 1
  BY TileRows
<1>3. Below(CellIn(t, r, i)) = <<k * Tile + i, (q * Tile + r) + 1>>
  BY DEF CellIn, Below
<1>4. CellIn(t, r + 1, i) = <<k * Tile + i, q * Tile + (r + 1)>>
  BY DEF CellIn
<1>5. CellIn(t + tilesX, 0, i) =
        <<((t + tilesX) % tilesX) * Tile + i, ((t + tilesX) \div tilesX) * Tile + 0>>
  BY DEF CellIn
<1> HIDE DEF q, k
<1>6. /\ tilesX \in Nat \ {0} /\ tilesY \in Nat \ {0} /\ Tile \in Nat \ {0} /\ H = Tile * tilesY
      /\ r \in 0..(Tile - 1)
  BY Shape DEF Edge
<1>7. CASE r # Tile - 1
  <2>1. r + 1 \in Edge
    BY <1>6, <1>7 DEF Edge
  <2>2. q * Tile \in Nat
    BY <1>1, <1>6
  <2>3. (q * Tile + r) + 1 = q * Tile + (r + 1)
    BY <1>6, <2>2
  <2> QED BY <1>3, <1>4, <1>7, <2>1, <2>3
<1>8. CASE r = Tile - 1
  <2>1. (q * Tile + r) + 1 = Tile * (q + 1) /\ Tile * (q + 1) = (q + 1) * Tile + 0
    BY <1>1, <1>6, <1>8
  <2>2. CASE q < tilesY - 1
    <3>1. q + 1 \in 0..(tilesY - 1) /\ t + tilesX = tilesX * (q + 1) + k
      BY <1>1, <1>6, <2>2
    <3>2. t + tilesX \in Tiles
      BY <1>1, <1>6, <3>1, JoinBelow DEF Tiles
    <3>3. (t + tilesX) \div tilesX = q + 1 /\ (t + tilesX) % tilesX = k
      <4>1. PICK n \in Nat : n = q + 1
        BY <3>1
      <4>2. (tilesX * n + k) \div tilesX = n /\ (tilesX * n + k) % tilesX = k
        BY <1>1, <1>6, DivModUnique
      <4> QED BY <3>1, <4>1, <4>2, Zenon
    <3>4. CellIn(t + tilesX, 0, i) = <<k * Tile + i, (q + 1) * Tile + 0>>
      BY <1>5, <3>3, Zenon
    <3> QED BY <1>2, <1>3, <1>8, <2>1, <2>2, <3>2, <3>4, Zenon
  <2>3. CASE ~(q < tilesY - 1)
    <3>1. q + 1 = tilesY
      BY <1>1, <1>6, <2>3
    <3>2. (q * Tile + r) + 1 = H
      BY <1>6, <2>1, <3>1
    <3>3. H \notin Rows
      BY GeometryAssumption DEF Rows
    <3>4. Below(CellIn(t, r, i)) \notin Coords
      BY <1>3, <3>2, <3>3 DEF Coords
    <3> QED BY <1>2, <1>8, <2>3, <3>4, Zenon
  <2> QED BY <2>2, <2>3
<1> QED BY <1>7, <1>8

\* ... and likewise above the first row.
LEMMA AboveOfCell ==
  ASSUME NEW t \in Tiles, NEW r \in Edge, NEW i \in Edge
  PROVE  /\ r # 0 => r - 1 \in Edge /\ Above(CellIn(t, r, i)) = CellIn(t, r - 1, i)
         /\ r = 0 /\ t >= tilesX =>
              t - tilesX \in Tiles /\ Above(CellIn(t, r, i)) = CellIn(t - tilesX, Tile - 1, i)
         /\ r = 0 /\ ~(t >= tilesX) => Above(CellIn(t, r, i)) \notin Coords
<1> DEFINE q == t \div tilesX
           k == t % tilesX
<1>1. q \in 0..(tilesY - 1) /\ k \in 0..(tilesX - 1) /\ t = tilesX * q + k
  BY TilePlace
<1>2. t >= tilesX <=> q >= 1
  BY TileRows
<1>3. Above(CellIn(t, r, i)) = <<k * Tile + i, (q * Tile + r) - 1>>
  BY DEF CellIn, Above
<1>4. CellIn(t, r - 1, i) = <<k * Tile + i, q * Tile + (r - 1)>>
  BY DEF CellIn
<1>5. CellIn(t - tilesX, Tile - 1, i) =
        <<((t - tilesX) % tilesX) * Tile + i, ((t - tilesX) \div tilesX) * Tile + (Tile - 1)>>
  BY DEF CellIn
<1> HIDE DEF q, k
<1>6. /\ tilesX \in Nat \ {0} /\ tilesY \in Nat \ {0} /\ Tile \in Nat \ {0}
      /\ r \in 0..(Tile - 1)
  BY Shape DEF Edge
<1>7. CASE r # 0
  <2>1. r - 1 \in Edge
    BY <1>6, <1>7 DEF Edge
  <2>2. q * Tile \in Nat
    BY <1>1, <1>6
  <2>3. (q * Tile + r) - 1 = q * Tile + (r - 1)
    BY <1>6, <2>2
  <2> QED BY <1>3, <1>4, <1>7, <2>1, <2>3
<1>8. CASE r = 0
  <2>1. CASE q >= 1
    <3>1. /\ q - 1 \in 0..(tilesY - 1) /\ t - tilesX = tilesX * (q - 1) + k
          /\ (q * Tile + r) - 1 = (q - 1) * Tile + (Tile - 1)
      BY <1>1, <1>6, <1>8, <2>1
    <3>2. t - tilesX \in Tiles
      BY <1>1, <1>6, <3>1, JoinBelow DEF Tiles
    <3>3. (t - tilesX) \div tilesX = q - 1 /\ (t - tilesX) % tilesX = k
      <4>1. PICK n \in Nat : n = q - 1
        BY <3>1
      <4>2. (tilesX * n + k) \div tilesX = n /\ (tilesX * n + k) % tilesX = k
        BY <1>1, <1>6, DivModUnique
      <4> QED BY <3>1, <4>1, <4>2, Zenon
    <3>4. CellIn(t - tilesX, Tile - 1, i) = <<k * Tile + i, (q - 1) * Tile + (Tile - 1)>>
      BY <1>5, <3>3, Zenon
    <3> QED BY <1>2, <1>3, <1>8, <2>1, <3>1, <3>2, <3>4, Zenon
  <2>2. CASE ~(q >= 1)
    <3>1. (q * Tile + r) - 1 = -1
      BY <1>1, <1>6, <1>8, <2>2
    <3>2. -1 \notin Rows
      BY DEF Rows
    <3>3. Above(CellIn(t, r, i)) \notin Coords
      BY <1>3, <3>1, <3>2 DEF Coords
    <3> QED BY <1>2, <1>8, <2>2, <3>3, Zenon
  <2> QED BY <2>1, <2>2
<1> QED BY <1>7, <1>8

\* A tile has an even number of rows: the parity of a row is that of its place.
LEMMA RowParity ==
  ASSUME NEW t \in Tiles, NEW r \in Edge, NEW i \in Edge
  PROVE  CellIn(t, r, i)[2] % 2 = r % 2
<1> DEFINE q == t \div tilesX
<1>1. q \in Nat /\ CellIn(t, r, i)[2] = q * Tile + r
  BY TilePlace, Shape DEF CellIn
<1> HIDE DEF q
<1>2. Tile \in Nat /\ r \in Nat /\ Tile % 2 = 0
  BY GeometryAssumption DEF Edge
<1>3. PICK h \in Nat : Tile = 2 * h
  <2>1. Tile = 2 * (Tile \div 2) + (Tile % 2) /\ Tile \div 2 \in Nat
    BY <1>2, DivMod
  <2> QED BY <1>2, <2>1
<1>4. PICK m \in Nat : q * Tile = 2 * m
  <2>1. q * Tile = 2 * (q * h) /\ q * h \in Nat
    BY <1>1, <1>3
  <2> QED BY <2>1
<1>5. (2 * m + r) % 2 = r % 2
  BY <1>2
<1> QED BY <1>1, <1>4, <1>5
=============================================================================
