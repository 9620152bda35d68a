------------------------- MODULE NaiveBackend_proofs -------------------------
(***************************************************************************)
(* The double-buffered backend keeps its invariant and implements the      *)
(* atomic simulation, for every grid size and every random word.           *)
(***************************************************************************)
EXTENDS NaiveBackend, Grid_proofs

\* Every cell is visited by the scan.
LEMMA ScanCovers ==
  /\ Size \in Nat
  /\ \A n \in 0..(Size - 1) : CellAt(n) \in Coords
  /\ \A p \in Coords : \E n \in 0..(Size - 1) : CellAt(n) = p
<1> USE GeometryAssumption
<1>1. Size \in Nat
  BY DEF Size
<1>2. ASSUME NEW n \in 0..(Size - 1) PROVE CellAt(n) \in Coords
  <2>1. n \in Nat /\ n < W * H
    BY <1>1 DEF Size
  <2>2. n % W \in 0..(W - 1) /\ n \div W \in Nat /\ n = W * (n \div W) + (n % W)
    BY <2>1, DivMod
  <2>3. n \div W < H
    <3> DEFINE q == n \div W
    <3>1. W * q <= n /\ q \in Nat
      BY <2>1, <2>2
    <3> HIDE DEF q
    <3>2. CASE q >= H
      <4>1. W * q >= W * H
        BY <3>1, <3>2
      <4> QED BY <4>1, <3>1, <2>1
    <3>3. CASE q < H
      BY <3>3 DEF q
    <3> QED BY <3>1, <3>2, <3>3
  <2> QED BY <2>2, <2>3 DEF CellAt, Coords, Cols, Rows
<1>3. ASSUME NEW p \in Coords PROVE \E n \in 0..(Size - 1) : CellAt(n) = p
  <2>1. p = <<p[1], p[2]>> /\ p[1] \in 0..(W - 1) /\ p[2] \in 0..(H - 1)
    BY DEF Coords, Cols, Rows
  <2> DEFINE n == W * p[2] + p[1]
  <2>2. n % W = p[1] /\ n \div W = p[2]
    BY <2>1, DivModUnique
  <2>3. n \in 0..(Size - 1)
    <3>1. n \in Nat /\ n <= W * p[2] + (W - 1)
      BY <2>1
    <3>2. W * p[2] + W = W * (p[2] + 1) /\ W * (p[2] + 1) <= W * H
      BY <2>1
    <3> QED BY <3>1, <3>2, <2>1 DEF Size
  <2> QED BY <2>1, <2>2, <2>3 DEF CellAt
<1> QED BY <1>1, <1>2, <1>3

-----------------------------------------------------------------------------
IInv == TypeOK /\ Progress

LEMMA CalmIsNoise == Calm \in Noise
BY DEF Calm, Noise

LEMMA GatheredType ==
  ASSUME src \in Grids, pc \in PassNames, NEW p
  PROVE  Gathered(p) \in Cells
<1>1. CASE pc = "vertical"
  BY <1>1, SampleType DEF Gathered, verticalCell
<1>2. CASE pc = "horizontal"
  BY <1>2, SampleType DEF Gathered, horizontalCell
<1>3. CASE pc = "decay"
  BY <1>3, SampleType DEF Gathered, decayCell, decayFire, Cells, Empty
<1> QED BY <1>1, <1>2, <1>3 DEF PassNames

LEMMA InvInit == Init => IInv
<1> SUFFICES ASSUME Init PROVE IInv
  OBVIOUS
<1>1. Cleared \in Grids /\ Blank \in Grids
  BY DEF Cleared, Blank, Grids, Cells, Wall, Empty
<1> QED BY <1>1, CalmIsNoise, ScanCovers, InputAssumption
        DEF Init, IInv, TypeOK, Progress, Frames, PassNames

LEMMA InvNext == IInv /\ [Next]_vars => IInv'
<1> SUFFICES ASSUME IInv, [Next]_vars PROVE IInv'
  OBVIOUS
<1> USE DEF IInv, TypeOK
<1>0. Size \in Nat /\ 0 \in 0..Size
  BY ScanCovers
<1>1. CASE BeginStep
  BY <1>1, <1>0, InputAssumption DEF BeginStep, PassNames, Progress
<1>2. CASE WriteCell
  <2> DEFINE q == CellAt(cursor)
  <2>1. /\ q \in Coords /\ cursor \in 0..(Size - 1)
        /\ src' = src /\ frame' = frame /\ noise' = noise /\ pc' = pc
        /\ pc \in PassNames /\ cursor' = cursor + 1
        /\ dst' = [dst EXCEPT ![q] = Gathered(q)]
    BY <1>2, <1>0, ScanCovers DEF WriteCell
  <2>2. \A p : Gathered(p)' = Gathered(p)
    BY <2>1 DEF Gathered
  <2>3. dst' \in Grids
    BY <2>1, GatheredType DEF Grids
  <2>4. ASSUME NEW n \in 0..cursor
        PROVE  dst'[CellAt(n)] = Gathered(CellAt(n))
    <3>1. CellAt(n) \in Coords
      BY <2>1, <1>0, ScanCovers
    <3>2. CASE CellAt(n) = q
      BY <3>2, <2>1 DEF Grids
    <3>3. CASE CellAt(n) # q
      <4>1. n \in 0..(cursor - 1)
        BY <3>3, <2>1
      <4> QED BY <4>1, <3>1, <3>3, <2>1 DEF Progress, Grids
    <3> QED BY <3>2, <3>3
  <2>5. Progress'
    BY <2>1, <2>2, <2>4 DEF Progress
  <2> QED BY <2>1, <2>3, <2>5, <1>0
<1>3. CASE EndVertical \/ EndHorizontal
  BY <1>3, <1>0 DEF EndVertical, EndHorizontal, EndPass, swapBuffers, PassNames, Progress
<1>4. CASE EndDecay
  BY <1>4, <1>0, CalmIsNoise, InputAssumption
     DEF EndDecay, EndPass, swapBuffers, PassNames, Progress, Frames, NextOf
<1>5. CASE Edit
  <2>0. Blank \in Grids /\ 0 \in Frames
    BY InputAssumption DEF Blank, Grids, Cells, Empty, Frames
  <2>1. src' \in Grids /\ dst' \in Grids /\ frame' \in Frames
    <3>1. CASE SetCell
      BY <3>1, InputAssumption DEF SetCell, Grids
    <3>2. CASE PaintDisc
      <4>1. PICK p \in Targets, r \in Radii, c \in Materials : src' = Painted(src, p, r, c)
        BY <3>2 DEF PaintDisc
      <4>2. c \in Cells
        BY InputAssumption
      <4> QED BY <4>1, <4>2, <3>2, EditsType DEF PaintDisc
    <3>3. CASE Clear
      BY <3>3, <2>0, EditsType DEF Clear
    <3>4. CASE Seed
      BY <3>4, <2>0, EditsType DEF Seed
    <3> QED BY <3>1, <3>2, <3>3, <3>4, <1>5 DEF Edit
  <2> QED BY <2>1, <1>5 DEF Edit, Progress, PassNames
<1>6. CASE UNCHANGED vars
  BY <1>6 DEF vars, Progress, Gathered
<1> QED BY <1>1, <1>2, <1>3, <1>4, <1>5, <1>6 DEF Next, Work

\* The types are right and the back buffer is exact behind the cursor.
THEOREM InvariantHolds == Spec => [](TypeOK /\ Progress)
BY InvInit, InvNext, PTL DEF Spec, IInv

-----------------------------------------------------------------------------
\* A pass that has reached the last cell has computed the whole pass.
LEMMA PassIsComplete ==
  ASSUME IInv, cursor = Size
  PROVE  /\ pc = "vertical" => dst = verticalScalar(src, VerticalParity(frame))
         /\ pc = "horizontal" => dst = horizontalScalar(src, HorizontalParity(frame))
         /\ pc = "decay" => dst = decayScalar(src, noise)
<1>1. pc \in PassNames => \A p \in Coords : dst[p] = Gathered(p)
  BY ScanCovers DEF IInv, Progress
<1>2. dst = [p \in Coords |-> dst[p]]
  BY DEF IInv, TypeOK, Grids
<1>3. CASE pc = "vertical"
  BY <1>1, <1>2, <1>3 DEF PassNames, Gathered, verticalScalar
<1>4. CASE pc = "horizontal"
  BY <1>1, <1>2, <1>4 DEF PassNames, Gathered, horizontalScalar
<1>5. CASE pc = "decay"
  BY <1>1, <1>2, <1>5 DEF PassNames, Gathered, decayScalar
<1> QED BY <1>3, <1>4, <1>5

(* The instance brings its own copy of every definition; on the same grid  *)
(* the copies mean the same.                                               *)

LEMMA SameGeometry ==
  /\ Sim!Coords = Coords /\ Sim!Interior = Interior /\ Sim!Ledges = Ledges
  /\ Sim!Cleared = Cleared
  /\ \A g, fill : Sim!Seeded(g, fill) = Seeded(g, fill)
  /\ \A g, p, r, c : Sim!Painted(g, p, r, c) = Painted(g, p, r, c)
  /\ \A f : Sim!NextOf(f) = NextOf(f)
<1>1. Sim!Coords = Coords
  BY DEF Sim!Coords, Sim!Cols, Sim!Rows, Coords, Cols, Rows
<1>2. Sim!Interior = Interior
  BY <1>1 DEF Sim!Interior, Interior
<1>3. Sim!Ledges = Ledges
  BY <1>2 DEF Sim!Ledges, Ledges
<1>4. Sim!Cleared = Cleared
  BY <1>1, <1>2 DEF Sim!Cleared, Cleared, Sim!Border, Border,
                    Sim!Wall, Wall, Sim!Empty, Empty
<1>5. ASSUME NEW g, NEW fill PROVE Sim!Seeded(g, fill) = Seeded(g, fill)
  BY <1>1, <1>2, <1>3 DEF Sim!Seeded, Seeded, Sim!Wall, Wall
<1>6. ASSUME NEW p, NEW r PROVE Sim!Disc(p, r) = Disc(p, r)
  BY <1>2 DEF Sim!Disc, Disc
<1>7. ASSUME NEW g, NEW p, NEW r, NEW c
      PROVE  Sim!Painted(g, p, r, c) = Painted(g, p, r, c)
  BY <1>1, <1>6 DEF Sim!Painted, Painted
<1>8. ASSUME NEW f PROVE Sim!NextOf(f) = NextOf(f)
  BY DEF Sim!NextOf, NextOf
<1> QED BY <1>1, <1>2, <1>3, <1>4, <1>5, <1>7, <1>8

LEMMA SameRules ==
  /\ \A a, b : Sim!swapVertical(a, b) = swapVertical(a, b)
  /\ \A a, b, ba, bb, aa, ab :
        Sim!swapHorizontal(a, b, ba, bb, aa, ab) = swapHorizontal(a, b, ba, bb, aa, ab)
  /\ \A c, l, r, u, d, burns :
        Sim!decayFire(c, l, r, u, d, burns) = decayFire(c, l, r, u, d, burns)
<1> USE DEF Sim!Empty, Empty, Sim!Sand, Sand, Sim!Water, Water, Sim!Fire, Fire,
            Sim!Wall, Wall
<1>1. ASSUME NEW a, NEW b PROVE Sim!swapVertical(a, b) = swapVertical(a, b)
  BY DEF Sim!swapVertical, swapVertical, Sim!denserThan, denserThan,
         Sim!Signed8, Signed8, Sim!densityBiased, densityBiased
<1>2. ASSUME NEW a, NEW b, NEW ba, NEW bb, NEW aa, NEW ab
      PROVE  Sim!swapHorizontal(a, b, ba, bb, aa, ab) =
                swapHorizontal(a, b, ba, bb, aa, ab)
  BY DEF Sim!swapHorizontal, swapHorizontal, Sim!Spreads, Spreads,
         Sim!isMobile, isMobile, Sim!blockedVertically, blockedVertically
<1>3. ASSUME NEW c, NEW l, NEW r, NEW u, NEW d, NEW burns
      PROVE  Sim!decayFire(c, l, r, u, d, burns) = decayFire(c, l, r, u, d, burns)
  BY DEF Sim!decayFire, decayFire
<1> QED BY <1>1, <1>2, <1>3

LEMMA SamePasses ==
  \A g, f, z : Sim!NextFrame(g, f, z) = NextFrame(g, f, z)
<1> USE DEF Sim!Above, Above, Sim!Below, Below, Sim!LeftOf, LeftOf,
            Sim!RightOf, RightOf
<1>1. ASSUME NEW s, NEW p PROVE Sim!sampleCell(s, p) = sampleCell(s, p)
  BY SameGeometry DEF Sim!sampleCell, sampleCell, Sim!Wall, Wall
<1>2. ASSUME NEW s, NEW parity
      PROVE  Sim!verticalScalar(s, parity) = verticalScalar(s, parity)
  <2>1. ASSUME NEW p PROVE Sim!verticalCell(s, parity, p) = verticalCell(s, parity, p)
    BY <1>1, SameRules DEF Sim!verticalCell, verticalCell
  <2> QED BY <2>1, SameGeometry DEF Sim!verticalScalar, verticalScalar
<1>3. ASSUME NEW s, NEW parity
      PROVE  Sim!horizontalScalar(s, parity) = horizontalScalar(s, parity)
  <2>1. ASSUME NEW p PROVE Sim!PairSpreads(s, p) = PairSpreads(s, p)
    BY <1>1, SameRules DEF Sim!PairSpreads, PairSpreads
  <2>2. ASSUME NEW p PROVE Sim!horizontalCell(s, parity, p) = horizontalCell(s, parity, p)
    BY <1>1, <2>1 DEF Sim!horizontalCell, horizontalCell
  <2> QED BY <2>2, SameGeometry DEF Sim!horizontalScalar, horizontalScalar
<1>4. ASSUME NEW s, NEW z PROVE Sim!decayScalar(s, z) = decayScalar(s, z)
  <2>1. ASSUME NEW p PROVE Sim!decayCell(s, z, p) = decayCell(s, z, p)
    BY <1>1, SameRules DEF Sim!decayCell, decayCell, Sim!randBit, randBit
  <2> QED BY <2>1, SameGeometry DEF Sim!decayScalar, decayScalar
<1> QED BY <1>2, <1>3, <1>4
        DEF Sim!NextFrame, NextFrame, Sim!AfterExchange, AfterExchange,
            Sim!VerticalParity, VerticalParity, Sim!HorizontalParity, HorizontalParity

LEMMA RefineInit == Init => Sim!Init
BY SameGeometry DEF Init, Sim!Init, Promised

LEMMA RefineNext == IInv /\ [Next]_vars => [Sim!Next]_(Sim!vars)
<1> SUFFICES ASSUME IInv, [Next]_vars PROVE [Sim!Next]_(Sim!vars)
  OBVIOUS
<1> DEFINE F == IF pc = "idle" THEN frame ELSE NextOf(frame)
<1>s. Promised' = Promised /\ F' = F => UNCHANGED Sim!vars
  BY DEF Sim!vars
<1>1. CASE BeginStep
  <2>1. /\ pc = "idle" /\ pc' = "vertical" /\ noise' \in NoiseWords
        /\ src' = src /\ frame' = frame
    BY <1>1 DEF BeginStep
  <2>2. Promised = src /\ Promised' = NextFrame(src, frame, noise')
    BY <2>1 DEF Promised
  <2>3. Sim!Step
    BY <2>1, <2>2, SameGeometry, SamePasses DEF Sim!Step
  <2> QED BY <2>3 DEF Sim!Next
<1>2. CASE WriteCell
  <2>1. Promised' = Promised /\ F' = F
    BY <1>2 DEF WriteCell, Promised
  <2> QED BY <2>1, <1>s
<1>3. CASE EndVertical
  <2>1. /\ pc = "vertical" /\ pc' = "horizontal"
        /\ frame' = frame /\ noise' = noise
        /\ src' = verticalScalar(src, VerticalParity(frame))
    BY <1>3, PassIsComplete DEF EndVertical, EndPass, swapBuffers
  <2>2. Promised' = Promised
    BY <2>1 DEF Promised, NextFrame, AfterExchange
  <2> QED BY <2>1, <2>2, <1>s
<1>4. CASE EndHorizontal
  <2>1. /\ pc = "horizontal" /\ pc' = "decay"
        /\ frame' = frame /\ noise' = noise
        /\ src' = horizontalScalar(src, HorizontalParity(frame))
    BY <1>4, PassIsComplete DEF EndHorizontal, EndPass, swapBuffers
  <2>2. Promised' = Promised
    BY <2>1 DEF Promised
  <2> QED BY <2>1, <2>2, <1>s
<1>5. CASE EndDecay
  <2>1. /\ pc = "decay" /\ pc' = "idle"
        /\ frame' = NextOf(frame)
        /\ src' = decayScalar(src, noise)
    BY <1>5, PassIsComplete DEF EndDecay, EndPass, swapBuffers
  <2>2. Promised' = Promised
    BY <2>1 DEF Promised
  <2> QED BY <2>1, <2>2, <1>s
<1>6. CASE Edit
  <2>1. /\ pc = "idle" /\ pc' = "idle"
        /\ Promised = src /\ Promised' = src' /\ F = frame /\ F' = frame'
    BY <1>6 DEF Edit, Promised
  <2>2. CASE SetCell
    BY <2>1, <2>2 DEF SetCell, Sim!SetCell, Sim!Edit, Sim!Next
  <2>3. CASE PaintDisc
    BY <2>1, <2>3, SameGeometry DEF PaintDisc, Sim!PaintDisc, Sim!Edit, Sim!Next
  <2>4. CASE Clear
    BY <2>1, <2>4, SameGeometry DEF Clear, Sim!Clear, Sim!Edit, Sim!Next
  <2>5. CASE Seed
    BY <2>1, <2>5, SameGeometry DEF Seed, Sim!Seed, Sim!Edit, Sim!Next
  <2> QED BY <1>6, <2>2, <2>3, <2>4, <2>5 DEF Edit
<1>7. CASE UNCHANGED vars
  <2>1. Promised' = Promised /\ F' = F
    BY <1>7 DEF vars, Promised
  <2> QED BY <2>1, <1>s
<1> QED BY <1>1, <1>2, <1>3, <1>4, <1>5, <1>6, <1>7 DEF Next, Work

\* The backend implements the atomic simulation.
THEOREM NaiveImplementsSimulation == Spec => Implements
<1>1. Init => IInv
  BY InvInit
<1>2. IInv /\ [Next]_vars => IInv'
  BY InvNext
<1>3. Init => Sim!Init
  BY RefineInit
<1>4. IInv /\ [Next]_vars => [Sim!Next]_(Sim!vars)
  BY RefineNext
<1> QED BY <1>1, <1>2, <1>3, <1>4, PTL DEF Spec, Implements, Sim!Spec
=============================================================================
