-------------------------- MODULE CudaBackend_proofs --------------------------
(***************************************************************************)
(* The host side of the CUDA backend, for every grid size, every batch and *)
(* every set of CUDA calls that may fail: its buffers are allocated when   *)
(* they are used, a call returns all of a batch or nothing, and up to the  *)
(* loss of the device it implements the atomic simulation.                 *)
(***************************************************************************)
EXTENDS CudaBackend, Grid_proofs

\* What a call relies on between its steps: the front buffer is left alone
\* until the download, which starts when every frame has been launched.
CallInv ==
  /\ pc # "idle" => ok /\ src = found.grid
  /\ pc = "download" => todo = 0

IInv == TypeOK /\ BuffersAllocated /\ CallInv

LEMMA SizeIsPositive == GridBytes \in Nat /\ GridBytes # 0
<1>1. W \in Nat \ {0} /\ H \in Nat \ {0}
  BY GeometryAssumption
<1>2. \A a, b \in Nat \ {0} : a * b \in Nat /\ a * b # 0
  OBVIOUS
<1> QED BY <1>1, <1>2 DEF GridBytes, Size

LEMMA EditType ==
  ASSUME src \in Grids, dst \in Grids, frame \in Frames, Edit
  PROVE  src' \in Grids /\ dst' \in Grids /\ frame' \in Frames
<1>0. Blank \in Grids /\ 0 \in Frames
  BY InputAssumption DEF Blank, Grids, Cells, Empty, Frames
<1>1. CASE SetCell
  BY <1>1, InputAssumption DEF SetCell, Grids
<1>2. CASE PaintDisc
  <2>1. PICK p \in Targets, r \in Radii, c \in Materials : src' = Painted(src, p, r, c)
    BY <1>2 DEF PaintDisc
  <2>2. c \in Cells
    BY InputAssumption
  <2> QED BY <2>1, <2>2, <1>2, EditsType DEF PaintDisc
<1>3. CASE Clear
  BY <1>3, <1>0, EditsType DEF Clear
<1>4. CASE Seed
  BY <1>4, <1>0, EditsType DEF Seed
<1> QED BY <1>1, <1>2, <1>3, <1>4 DEF Edit

LEMMA InvInit == Init => IInv
<1> SUFFICES ASSUME Init PROVE IInv
  OBVIOUS
<1>1. Cleared \in Grids /\ Blank \in Grids /\ 0 \in Frames
  BY InputAssumption DEF Cleared, Blank, Grids, Cells, Wall, Empty, Frames
<1> QED BY <1>1, SizeIsPositive
        DEF Init, IInv, TypeOK, BuffersAllocated, CallInv

LEMMA InvNext == IInv /\ [Next]_vars => IInv'
<1> SUFFICES ASSUME IInv, [Next]_vars PROVE IInv'
  OBVIOUS
<1> USE SizeIsPositive DEF IInv, TypeOK, BuffersAllocated, CallInv, memory, Fail
<1>1. CASE BuffersReady \/ Allocate \/ AllocateFails
  BY <1>1 DEF BuffersReady, Allocate, AllocateFails
<1>2. CASE Upload \/ UploadFails
  BY <1>2 DEF Upload, UploadFails
<1>3. CASE Launch
  <2>1. device' \in Grids /\ frame' \in Frames
    <3>1. PICK noise \in NoiseWords : device' = NextFrame(device, frame, noise)
      BY <1>3 DEF Launch
    <3>2. frame \in Nat /\ NextOf(frame) \in Frames
      BY InputAssumption DEF Frames, NextOf
    <3> QED BY <1>3, <3>1, <3>2, FrameType DEF Launch
  <2> QED BY <1>3, <2>1 DEF Launch
<1>4. CASE Synchronise \/ SynchroniseFails
  BY <1>4 DEF Synchronise, SynchroniseFails
<1>5. CASE Download \/ DownloadFails
  BY <1>5 DEF Download, DownloadFails
<1>6. CASE Edit
  <2>1. src' \in Grids /\ dst' \in Grids /\ frame' \in Frames
    BY <1>6, EditType
  <2> QED BY <1>6, <2>1 DEF Edit
<1>7. ASSUME NEW n \in Batches, StepMany(n) \/ StepNothing(n) PROVE IInv'
  <2>1. CASE StepMany(n)
    BY <2>1, CallAssumption DEF StepMany
  <2>2. CASE StepNothing(n)
    BY <2>2 DEF StepNothing, vars
  <2> QED BY <1>7, <2>1, <2>2
<1>8. CASE UNCHANGED vars
  BY <1>8 DEF vars
<1> QED BY <1>1, <1>2, <1>3, <1>4, <1>5, <1>6, <1>7, <1>8 DEF Next, Work

\* The device buffers are used only while both are allocated with the right size.
THEOREM BuffersAreAllocated == Spec => [](TypeOK /\ BuffersAllocated)
<1>1. Spec => []IInv
  BY InvInit, InvNext, PTL DEF Spec
<1>2. IInv => TypeOK /\ BuffersAllocated
  BY DEF IInv
<1> QED BY <1>1, <1>2, PTL

-----------------------------------------------------------------------------
\* A step of a call either keeps the call going, or downloads, or fails.
LEMMA HowACallEnds ==
  ASSUME IInv, [Next]_vars, pc # "idle", pc' = "idle"
  PROVE  \/ Download
         \/ ok' = FALSE /\ src' = src
<1> USE DEF Fail
<1>1. CASE BuffersReady \/ Allocate \/ AllocateFails
  BY <1>1 DEF BuffersReady, Allocate, AllocateFails
<1>2. CASE Upload \/ UploadFails
  BY <1>2 DEF Upload, UploadFails
<1>3. CASE Launch \/ Synchronise \/ SynchroniseFails
  BY <1>3 DEF Launch, Synchronise, SynchroniseFails
<1>4. CASE Download \/ DownloadFails
  BY <1>4 DEF DownloadFails
<1>5. CASE Edit \/ \E n \in Batches : StepMany(n) \/ StepNothing(n)
  BY <1>5 DEF Edit, StepMany, StepNothing
<1>6. CASE UNCHANGED vars
  BY <1>6 DEF vars
<1> QED BY <1>1, <1>2, <1>3, <1>4, <1>5, <1>6 DEF Next, Work

\* A call returns the result of all its frames, or what it was given.
THEOREM BatchesAreAtomic == Spec => ReturnsAllOrNothing
<1> DEFINE Returned ==
      pc # "idle" /\ pc' = "idle" =>
        IF ok' THEN src' = device /\ todo = 0 ELSE src' = found.grid
<1>1. IInv /\ [Next]_vars => [Returned]_vars
  <2> SUFFICES ASSUME IInv, [Next]_vars, pc # "idle", pc' = "idle"
               PROVE  IF ok' THEN src' = device /\ todo = 0 ELSE src' = found.grid
    OBVIOUS
  <2>1. ok = TRUE /\ src = found.grid /\ (pc = "download" => todo = 0)
    BY DEF IInv, CallInv, TypeOK
  <2>2. CASE Download
    BY <2>1, <2>2 DEF Download
  <2>3. CASE ok' = FALSE /\ src' = src
    BY <2>1, <2>3
  <2> QED BY <2>2, <2>3, HowACallEnds
<1> QED BY <1>1, InvInit, InvNext, PTL DEF Spec, ReturnsAllOrNothing

\* A lost device stays lost, and only edits change the grid from then on.
THEOREM LossIsFinal == Spec => FrozenOnceLost
<1>1. IInv /\ [Next]_vars => [~ok => ~ok' /\ (src' # src => Edit)]_vars
  <2> SUFFICES ASSUME IInv, [Next]_vars, ~ok
               PROVE  ~ok' /\ (src' # src => Edit)
    OBVIOUS
  <2>1. pc = "idle"
    BY DEF IInv, CallInv
  <2>2. ~Work
    BY <2>1 DEF Work, BuffersReady, Allocate, AllocateFails, Upload, UploadFails,
                Launch, Synchronise, SynchroniseFails, Download, DownloadFails
  <2>3. CASE Edit
    BY <2>3 DEF Edit
  <2>4. CASE \E n \in Batches : StepMany(n) \/ StepNothing(n)
    BY <2>4 DEF StepMany, StepNothing, vars
  <2>5. CASE UNCHANGED vars
    BY <2>5 DEF vars
  <2> QED BY <2>2, <2>3, <2>4, <2>5 DEF Next
<1> QED BY <1>1, InvInit, InvNext, PTL DEF Spec, FrozenOnceLost

-----------------------------------------------------------------------------
(* The instance brings its own copy of every definition; on the same grid  *)
(* the copies mean the same.                                               *)

LEMMA SameGeometry ==
  /\ Sim!Coords = Coords /\ Sim!Interior = Interior /\ Sim!Ledges = Ledges
  /\ Sim!Cleared = Cleared
  /\ \A g, fill : Sim!Seeded(g, fill) = Seeded(g, fill)
  /\ \A g, p, r, c : Sim!Painted(g, p, r, c) = Painted(g, p, r, c)
  /\ \A f : Sim!NextOf(f) = NextOf(f)
<1>1. Sim!Coords = Coords
  BY DEF Sim!Coords, Sim!Cols, Sim!Rows, Coords, Cols, Rows
<1>2. Sim!Interior = Interior
  BY <1>1 DEF Sim!Interior, Interior
<1>3. Sim!Ledges = Ledges
  BY <1>2 DEF Sim!Ledges, Ledges
<1>4. Sim!Cleared = Cleared
  BY <1>1, <1>2 DEF Sim!Cleared, Cleared, Sim!Border, Border,
                    Sim!Wall, Wall, Sim!Empty, Empty
<1>5. ASSUME NEW g, NEW fill PROVE Sim!Seeded(g, fill) = Seeded(g, fill)
  BY <1>1, <1>2, <1>3 DEF Sim!Seeded, Seeded, Sim!Wall, Wall
<1>6. ASSUME NEW p, NEW r PROVE Sim!Disc(p, r) = Disc(p, r)
  BY <1>2 DEF Sim!Disc, Disc
<1>7. ASSUME NEW g, NEW p, NEW r, NEW c
      PROVE  Sim!Painted(g, p, r, c) = Painted(g, p, r, c)
  BY <1>1, <1>6 DEF Sim!Painted, Painted
<1>8. ASSUME NEW f PROVE Sim!NextOf(f) = NextOf(f)
  BY DEF Sim!NextOf, NextOf
<1> QED BY <1>1, <1>2, <1>3, <1>4, <1>5, <1>7, <1>8

LEMMA SameRules ==
  /\ \A a, b : Sim!swapVertical(a, b) = swapVertical(a, b)
  /\ \A a, b, ba, bb, aa, ab :
        Sim!swapHorizontal(a, b, ba, bb, aa, ab) = swapHorizontal(a, b, ba, bb, aa, ab)
  /\ \A c, l, r, u, d, burns :
        Sim!decayFire(c, l, r, u, d, burns) = decayFire(c, l, r, u, d, burns)
<1> USE DEF Sim!Empty, Empty, Sim!Sand, Sand, Sim!Water, Water, Sim!Fire, Fire,
            Sim!Wall, Wall
<1>1. ASSUME NEW a, NEW b PROVE Sim!swapVertical(a, b) = swapVertical(a, b)
  BY DEF Sim!swapVertical, swapVertical, Sim!denserThan, denserThan,
         Sim!Signed8, Signed8, Sim!densityBiased, densityBiased
<1>2. ASSUME NEW a, NEW b, NEW ba, NEW bb, NEW aa, NEW ab
      PROVE  Sim!swapHorizontal(a, b, ba, bb, aa, ab) =
                swapHorizontal(a, b, ba, bb, aa, ab)
  BY DEF Sim!swapHorizontal, swapHorizontal, Sim!Spreads, Spreads,
         Sim!isMobile, isMobile, Sim!blockedVertically, blockedVertically
<1>3. ASSUME NEW c, NEW l, NEW r, NEW u, NEW d, NEW burns
      PROVE  Sim!decayFire(c, l, r, u, d, burns) = decayFire(c, l, r, u, d, burns)
  BY DEF Sim!decayFire, decayFire
<1> QED BY <1>1, <1>2, <1>3

LEMMA SamePasses ==
  \A g, f, z : Sim!NextFrame(g, f, z) = NextFrame(g, f, z)
<1> USE DEF Sim!Above, Above, Sim!Below, Below, Sim!LeftOf, LeftOf,
            Sim!RightOf, RightOf
<1>1. ASSUME NEW s, NEW p PROVE Sim!sampleCell(s, p) = sampleCell(s, p)
  BY SameGeometry DEF Sim!sampleCell, sampleCell, Sim!Wall, Wall
<1>2. ASSUME NEW s, NEW parity
      PROVE  Sim!verticalScalar(s, parity) = verticalScalar(s, parity)
  <2>1. ASSUME NEW p PROVE Sim!verticalCell(s, parity, p) = verticalCell(s, parity, p)
    BY <1>1, SameRules DEF Sim!verticalCell, verticalCell
  <2> QED BY <2>1, SameGeometry DEF Sim!verticalScalar, verticalScalar
<1>3. ASSUME NEW s, NEW parity
      PROVE  Sim!horizontalScalar(s, parity) = horizontalScalar(s, parity)
  <2>1. ASSUME NEW p PROVE Sim!PairSpreads(s, p) = PairSpreads(s, p)
    BY <1>1, SameRules DEF Sim!PairSpreads, PairSpreads
  <2>2. ASSUME NEW p PROVE Sim!horizontalCell(s, parity, p) = horizontalCell(s, parity, p)
    BY <1>1, <2>1 DEF Sim!horizontalCell, horizontalCell
  <2> QED BY <2>2, SameGeometry DEF Sim!horizontalScalar, horizontalScalar
<1>4. ASSUME NEW s, NEW z PROVE Sim!decayScalar(s, z) = decayScalar(s, z)
  <2>1. ASSUME NEW p PROVE Sim!decayCell(s, z, p) = decayCell(s, z, p)
    BY <1>1, SameRules DEF Sim!decayCell, decayCell, Sim!randBit, randBit
  <2> QED BY <2>1, SameGeometry DEF Sim!decayScalar, decayScalar
<1> QED BY <1>2, <1>3, <1>4
        DEF Sim!NextFrame, NextFrame, Sim!AfterExchange, AfterExchange,
            Sim!VerticalParity, VerticalParity, Sim!HorizontalParity, HorizontalParity

LEMMA RefineInit == Init => Sim!Init
BY SameGeometry DEF Init, Sim!Init

LEMMA RefineNext ==
  IInv /\ [Next]_vars => [Sim!Next \/ (ok /\ ~ok')]_(Sim!vars)
<1> SUFFICES ASSUME IInv, [Next]_vars, ~(ok /\ ~ok')
             PROVE  [Sim!Next]_(Sim!vars)
  OBVIOUS
<1> DEFINE G == IF pc \in {"launch", "download"} THEN device ELSE src
<1>s. G' = G /\ frame' = frame => UNCHANGED Sim!vars
  BY DEF Sim!vars
<1>f. pc # "idle" => ok'
  BY DEF IInv, CallInv
<1>1. CASE BuffersReady \/ Allocate
  BY <1>1, <1>s DEF BuffersReady, Allocate
<1>2. CASE AllocateFails \/ UploadFails \/ SynchroniseFails \/ DownloadFails
  BY <1>2, <1>f DEF AllocateFails, UploadFails, SynchroniseFails, DownloadFails, Fail
<1>3. CASE Upload
  BY <1>3, <1>s DEF Upload
<1>4. CASE Launch
  <2>1. /\ G = device /\ G' = device'
        /\ \E noise \in NoiseWords : device' = NextFrame(device, frame, noise)
        /\ frame' = NextOf(frame)
    BY <1>4 DEF Launch
  <2>2. Sim!Step
    BY <2>1, SameGeometry, SamePasses DEF Sim!Step
  <2> QED BY <2>2 DEF Sim!Next
<1>5. CASE Synchronise
  BY <1>5, <1>s DEF Synchronise
<1>6. CASE Download
  BY <1>6, <1>s DEF Download
<1>7. CASE Edit
  <2>1. pc = "idle" /\ pc' = "idle" /\ G = src /\ G' = src'
    BY <1>7 DEF Edit
  <2>2. CASE SetCell
    BY <2>1, <2>2 DEF SetCell, Sim!SetCell, Sim!Edit, Sim!Next
  <2>3. CASE PaintDisc
    BY <2>1, <2>3, SameGeometry DEF PaintDisc, Sim!PaintDisc, Sim!Edit, Sim!Next
  <2>4. CASE Clear
    BY <2>1, <2>4, SameGeometry DEF Clear, Sim!Clear, Sim!Edit, Sim!Next
  <2>5. CASE Seed
    BY <2>1, <2>5, SameGeometry DEF Seed, Sim!Seed, Sim!Edit, Sim!Next
  <2> QED BY <1>7, <2>2, <2>3, <2>4, <2>5 DEF Edit
<1>8. CASE \E n \in Batches : StepMany(n) \/ StepNothing(n)
  <2>1. G' = G /\ frame' = frame
    BY <1>8 DEF StepMany, StepNothing, vars
  <2> QED BY <2>1, <1>s
<1>9. CASE UNCHANGED vars
  <2>1. G' = G /\ frame' = frame
    BY <1>9 DEF vars
  <2> QED BY <2>1, <1>s
<1> QED BY <1>1, <1>2, <1>3, <1>4, <1>5, <1>6, <1>7, <1>8, <1>9 DEF Next, Work

\* Up to the loss of the device, the backend implements the atomic simulation.
THEOREM CudaImplementsUntilLost == Spec => ImplementsUntilLost
<1>1. Init => Sim!Init
  BY RefineInit
<1>2. IInv /\ [Next]_vars => [Sim!Next \/ (ok /\ ~ok')]_(Sim!vars)
  BY RefineNext
<1> QED BY <1>1, <1>2, InvInit, InvNext, PTL DEF Spec, ImplementsUntilLost
=============================================================================
