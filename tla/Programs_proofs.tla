--------------------------- MODULE Programs_proofs ---------------------------
(***************************************************************************)
(* The terminal program, the web page and the benchmark, for every size of *)
(* the grid, every brush, every number of keys, inputs and steps, and      *)
(* every answer of the backends: what each promises its users, the types   *)
(* of all their variables, and that what they do to their world is the     *)
(* abstract simulation.                                                    *)
(***************************************************************************)
EXTENDS Programs, Grid_proofs, SequenceTheorems

-----------------------------------------------------------------------------
(* The operators of the instances are those of Grid and Backends: expanded *)
(* to the last, they are the same.                                         *)

LEMMA NativeOperators ==
  /\ Native!Cleared = Cleared /\ Native!Cells = Cells
  /\ Native!Objects = Objects /\ Native!BackendIds = BackendIds /\ Native!Probes = Probes
  /\ \A g, what : Native!Seeded(g, what) = Seeded(g, what)
  /\ \A g, at, r, c : Native!Painted(g, at, r, c) = Painted(g, at, r, c)
  /\ \A id : Native!createBackend(id) = createBackend(id)
  /\ \A b, g, f : Native!StepOutcomes(b, g, f) = StepOutcomes(b, g, f)
<1>1. /\ Native!Cleared = Cleared
      /\ \A g, what : Native!Seeded(g, what) = Seeded(g, what)
      /\ \A g, at, r, c : Native!Painted(g, at, r, c) = Painted(g, at, r, c)
  BY DEF Native!Cleared, Cleared, Native!Seeded, Seeded, Native!Painted, Painted,
       Native!Disc, Disc, Native!Border, Border, Native!Interior, Interior,
       Native!Ledges, Ledges, Native!Coords, Coords, Native!Cols, Cols, Native!Rows,
       Rows, Native!Wall, Wall, Native!Empty, Empty
<1>2. /\ Native!Objects = Objects /\ Native!BackendIds = BackendIds /\ Native!Probes = Probes
      /\ \A id : Native!createBackend(id) = createBackend(id)
  BY DEF Native!BackendIds, BackendIds, Native!Answers, Answers, Native!Objects,
       Objects, Native!createBackend, createBackend, Native!Probes, Probes,
       Native!Lost, Lost
<1>3. \A b, g, f : Native!StepOutcomes(b, g, f) = StepOutcomes(b, g, f)
  BY DEF Native!Empty, Empty, Native!Sand, Sand, Native!Water, Water, Native!Fire,
       Fire, Native!Wall, Wall, Native!densityBiased, densityBiased, Native!Signed8,
       Signed8, Native!denserThan, denserThan, Native!swapVertical, swapVertical,
       Native!isMobile, isMobile, Native!blockedVertically, blockedVertically,
       Native!Spreads, Spreads, Native!swapHorizontal, swapHorizontal,
       Native!decayFire, decayFire, Native!Cols, Cols, Native!Rows, Rows,
       Native!Coords, Coords, Native!sampleCell, sampleCell, Native!Above, Above,
       Native!Below, Below, Native!LeftOf, LeftOf, Native!RightOf, RightOf,
       Native!verticalCell, verticalCell, Native!verticalScalar, verticalScalar,
       Native!PairSpreads, PairSpreads, Native!horizontalCell, horizontalCell,
       Native!horizontalScalar, horizontalScalar, Native!randBit, randBit,
       Native!decayCell, decayCell, Native!decayScalar, decayScalar,
       Native!VerticalParity, VerticalParity, Native!HorizontalParity,
       HorizontalParity, Native!NextOf, NextOf, Native!Lost, Lost, Native!FramesOf,
       FramesOf, Native!StepOutcomes, StepOutcomes
<1> QED BY <1>1, <1>2, <1>3 DEF Native!Cells, Cells

LEMMA WebOperators ==
  /\ Web!Cleared = Cleared /\ Web!Cells = Cells /\ Web!Coords = Coords
  /\ Web!Objects = Objects /\ Web!BackendIds = BackendIds /\ Web!Probes = Probes
  /\ \A g, what : Web!Seeded(g, what) = Seeded(g, what)
  /\ \A g, at, r, c : Web!Painted(g, at, r, c) = Painted(g, at, r, c)
  /\ \A id : Web!createBackend(id) = createBackend(id)
  /\ \A b, g, f : Web!StepOutcomes(b, g, f) = StepOutcomes(b, g, f)
<1>1. /\ Web!Cleared = Cleared
      /\ \A g, what : Web!Seeded(g, what) = Seeded(g, what)
      /\ \A g, at, r, c : Web!Painted(g, at, r, c) = Painted(g, at, r, c)
  BY DEF Web!Cleared, Cleared, Web!Seeded, Seeded, Web!Painted, Painted, Web!Disc,
       Disc, Web!Border, Border, Web!Interior, Interior, Web!Ledges, Ledges,
       Web!Coords, Coords, Web!Cols, Cols, Web!Rows, Rows, Web!Wall, Wall, Web!Empty,
       Empty
<1>2. /\ Web!Objects = Objects /\ Web!BackendIds = BackendIds /\ Web!Probes = Probes
      /\ \A id : Web!createBackend(id) = createBackend(id)
  BY DEF Web!BackendIds, BackendIds, Web!Answers, Answers, Web!Objects, Objects,
       Web!createBackend, createBackend, Web!Probes, Probes, Web!Lost, Lost
<1>3. \A b, g, f : Web!StepOutcomes(b, g, f) = StepOutcomes(b, g, f)
  BY DEF Web!Empty, Empty, Web!Sand, Sand, Web!Water, Water, Web!Fire, Fire, Web!Wall,
       Wall, Web!densityBiased, densityBiased, Web!Signed8, Signed8, Web!denserThan,
       denserThan, Web!swapVertical, swapVertical, Web!isMobile, isMobile,
       Web!blockedVertically, blockedVertically, Web!Spreads, Spreads,
       Web!swapHorizontal, swapHorizontal, Web!decayFire, decayFire, Web!Cols, Cols,
       Web!Rows, Rows, Web!Coords, Coords, Web!sampleCell, sampleCell, Web!Above,
       Above, Web!Below, Below, Web!LeftOf, LeftOf, Web!RightOf, RightOf,
       Web!verticalCell, verticalCell, Web!verticalScalar, verticalScalar,
       Web!PairSpreads, PairSpreads, Web!horizontalCell, horizontalCell,
       Web!horizontalScalar, horizontalScalar, Web!randBit, randBit, Web!decayCell,
       decayCell, Web!decayScalar, decayScalar, Web!VerticalParity, VerticalParity,
       Web!HorizontalParity, HorizontalParity, Web!NextOf, NextOf, Web!Lost, Lost,
       Web!FramesOf, FramesOf, Web!StepOutcomes, StepOutcomes
<1> QED BY <1>1, <1>2, <1>3 DEF Web!Cells, Cells, Web!Coords, Coords, Web!Cols, Cols, Web!Rows, Rows

LEMMA BenchOperators ==
  /\ Bench!Fire = Fire /\ Bench!Cleared = Cleared
  /\ Bench!Grids = Grids /\ Bench!Frames = Frames /\ Bench!Objects = Objects
  /\ \A g, what : Bench!Seeded(g, what) = Seeded(g, what)
  /\ \A g, at, r, c : Bench!Painted(g, at, r, c) = Painted(g, at, r, c)
  /\ \A g, f, noise : Bench!NextFrame(g, f, noise) = NextFrame(g, f, noise)
  /\ \A f : Bench!NextOf(f) = NextOf(f)
  /\ \A id : Bench!createBackend(id) = createBackend(id)
  /\ \A b : Bench!Lost(b) = Lost(b)
<1>1. \A g, parity : Bench!verticalScalar(g, parity) = verticalScalar(g, parity)
  BY DEF Bench!verticalScalar, verticalScalar, Bench!verticalCell, verticalCell,
       Bench!Coords, Coords, Bench!Cols, Cols, Bench!Rows, Rows, Bench!Wall, Wall,
       Bench!sampleCell, sampleCell, Bench!Below, Below, Bench!Above, Above,
       Bench!swapVertical, swapVertical, Bench!denserThan, denserThan, Bench!Signed8,
       Signed8, Bench!densityBiased, densityBiased
<1>2. \A g, parity : Bench!horizontalScalar(g, parity) = horizontalScalar(g, parity)
  BY DEF Bench!horizontalScalar, horizontalScalar, Bench!horizontalCell,
       horizontalCell, Bench!PairSpreads, PairSpreads, Bench!Coords, Coords,
       Bench!Cols, Cols, Bench!Rows, Rows, Bench!Wall, Wall, Bench!Empty, Empty,
       Bench!Fire, Fire, Bench!Sand, Sand, Bench!sampleCell, sampleCell, Bench!Below,
       Below, Bench!Above, Above, Bench!LeftOf, LeftOf, Bench!RightOf, RightOf,
       Bench!swapHorizontal, swapHorizontal, Bench!Spreads, Spreads, Bench!isMobile,
       isMobile, Bench!blockedVertically, blockedVertically
<1>3. \A g, noise : Bench!decayScalar(g, noise) = decayScalar(g, noise)
  BY DEF Bench!decayScalar, decayScalar, Bench!decayCell, decayCell, Bench!Coords,
       Coords, Bench!Cols, Cols, Bench!Rows, Rows, Bench!Wall, Wall, Bench!Empty,
       Empty, Bench!Fire, Fire, Bench!Water, Water, Bench!sampleCell, sampleCell,
       Bench!Below, Below, Bench!Above, Above, Bench!LeftOf, LeftOf, Bench!RightOf,
       RightOf, Bench!decayFire, decayFire, Bench!randBit, randBit
<1>4. \A g, f, noise : Bench!NextFrame(g, f, noise) = NextFrame(g, f, noise)
  BY <1>1, <1>2, <1>3 DEF Bench!AfterExchange, AfterExchange, Bench!NextFrame,
       NextFrame, Bench!VerticalParity, VerticalParity, Bench!HorizontalParity,
       HorizontalParity
<1>5. \A f : Bench!NextOf(f) = NextOf(f)
  BY DEF Bench!NextOf, NextOf
<1>6. /\ Bench!Cleared = Cleared
      /\ \A g, what : Bench!Seeded(g, what) = Seeded(g, what)
      /\ \A g, at, r, c : Bench!Painted(g, at, r, c) = Painted(g, at, r, c)
  BY DEF Bench!Cleared, Cleared, Bench!Seeded, Seeded, Bench!Painted, Painted,
       Bench!Disc, Disc, Bench!Border, Border, Bench!Interior, Interior, Bench!Ledges,
       Ledges, Bench!Coords, Coords, Bench!Cols, Cols, Bench!Rows, Rows, Bench!Wall,
       Wall, Bench!Empty, Empty
<1>7. /\ Bench!Objects = Objects /\ \A b : Bench!Lost(b) = Lost(b)
      /\ \A id : Bench!createBackend(id) = createBackend(id)
  BY DEF Bench!BackendIds, BackendIds, Bench!Answers, Answers, Bench!Objects, Objects,
       Bench!createBackend, createBackend, Bench!Lost, Lost
<1>8. Bench!Fire = Fire /\ Bench!Grids = Grids /\ Bench!Frames = Frames
  BY DEF Bench!Fire, Fire, Bench!Cells, Cells, Bench!Grids, Grids, Bench!Coords,
       Coords, Bench!Cols, Cols, Bench!Rows, Rows, Bench!Frames, Frames
<1> QED BY <1>4, <1>5, <1>6, <1>7, <1>8

LEMMA WorldOperators ==
  /\ World!Cleared = Cleared
  /\ \A g, what : World!Seeded(g, what) = Seeded(g, what)
  /\ \A g, at, r, c : World!Painted(g, at, r, c) = Painted(g, at, r, c)
  /\ \A g, f, noise : World!NextFrame(g, f, noise) = NextFrame(g, f, noise)
  /\ \A f : World!NextOf(f) = NextOf(f)
<1>1. \A g, parity : World!verticalScalar(g, parity) = verticalScalar(g, parity)
  BY DEF World!verticalScalar, verticalScalar, World!verticalCell, verticalCell,
       World!Coords, Coords, World!Cols, Cols, World!Rows, Rows, World!Wall, Wall,
       World!sampleCell, sampleCell, World!Below, Below, World!Above, Above,
       World!swapVertical, swapVertical, World!denserThan, denserThan, World!Signed8,
       Signed8, World!densityBiased, densityBiased
<1>2. \A g, parity : World!horizontalScalar(g, parity) = horizontalScalar(g, parity)
  BY DEF World!horizontalScalar, horizontalScalar, World!horizontalCell,
       horizontalCell, World!PairSpreads, PairSpreads, World!Coords, Coords,
       World!Cols, Cols, World!Rows, Rows, World!Wall, Wall, World!Empty, Empty,
       World!Fire, Fire, World!Sand, Sand, World!sampleCell, sampleCell, World!Below,
       Below, World!Above, Above, World!LeftOf, LeftOf, World!RightOf, RightOf,
       World!swapHorizontal, swapHorizontal, World!Spreads, Spreads, World!isMobile,
       isMobile, World!blockedVertically, blockedVertically
<1>3. \A g, noise : World!decayScalar(g, noise) = decayScalar(g, noise)
  BY DEF World!decayScalar, decayScalar, World!decayCell, decayCell, World!Coords,
       Coords, World!Cols, Cols, World!Rows, Rows, World!Wall, Wall, World!Empty,
       Empty, World!Fire, Fire, World!Water, Water, World!sampleCell, sampleCell,
       World!Below, Below, World!Above, Above, World!LeftOf, LeftOf, World!RightOf,
       RightOf, World!decayFire, decayFire, World!randBit, randBit
<1>4. \A g, f, noise : World!NextFrame(g, f, noise) = NextFrame(g, f, noise)
  BY <1>1, <1>2, <1>3 DEF World!AfterExchange, AfterExchange, World!NextFrame,
       NextFrame, World!VerticalParity, VerticalParity, World!HorizontalParity,
       HorizontalParity
<1>5. \A f : World!NextOf(f) = NextOf(f)
  BY DEF World!NextOf, NextOf
<1>6. /\ World!Cleared = Cleared
      /\ \A g, what : World!Seeded(g, what) = Seeded(g, what)
      /\ \A g, at, r, c : World!Painted(g, at, r, c) = Painted(g, at, r, c)
  BY DEF World!Cleared, Cleared, World!Seeded, Seeded, World!Painted, Painted,
       World!Disc, Disc, World!Border, Border, World!Interior, Interior, World!Ledges,
       Ledges, World!Coords, Coords, World!Cols, Cols, World!Rows, Rows, World!Wall,
       Wall, World!Empty, Empty
<1> QED BY <1>4, <1>5, <1>6

-----------------------------------------------------------------------------
(* The terminal program.                                                   *)

UserFields == {"material", "brush", "paused", "emitting", "running"}

\* The loop paints between the clamp and the step, and nothing is read from the
\* terminal in between.
NativeInv ==
  /\ pc # "start" => program = "native"
  /\ DOMAIN user = UserFields
  /\ emitter \in Int \X Int
  /\ pc # "input" => escape = <<>>
  /\ EmitterPaints

LEMMA ClampIntoInterior ==
  ASSUME W > 2, H > 2, NEW at \in Int \X Int
  PROVE  Native!Clamp(at) \in Native!Interiors
<1>1. PICK x \in Int, y \in Int : at = <<x, y>>
  OBVIOUS
<1> QED BY <1>1, GeometryAssumption DEF Native!Clamp, Native!Interiors

LEMMA MovedStaysInt ==
  ASSUME NEW at \in Int \X Int, NEW code
  PROVE  Native!Moved(at, code) \in Int \X Int
BY DEF Native!Moved

LEMMA SettingKeepsFields ==
  ASSUME NEW u, DOMAIN u = UserFields, NEW code \in Native!SettingCodes
  PROVE  DOMAIN Native!Setting(code, u) = UserFields
BY DEF Native!Setting, Native!SettingCodes, Native!MaterialOf, UserFields

LEMMA PaintedDisc ==
  ASSUME NEW g, NEW at, NEW r, NEW c
  PROVE  \A p \in Native!Disc(at, r) : Native!Painted(g, at, r, c)[p] = c
BY DEF Native!Painted, Native!Disc, Native!Interior

LEMMA NativeInvHolds == ASSUME W > 2, H > 2 PROVE Spec => []NativeInv
<1>1. Init => NativeInv
  BY GeometryAssumption
  DEF Init, Native!LocalInit, NativeInv, EmitterPaints, Native!EmitterPaints, UserFields
<1>2. NativeInv /\ [Next]_vars => NativeInv'
  <2> SUFFICES ASSUME NativeInv, [Next]_vars PROVE NativeInv'
    OBVIOUS
  <2>1. CASE NativeProgram(Native!Next)
    <3> program' = program /\ program = "native"
      BY <2>1 DEF NativeProgram
    <3> USE DEF NativeInv
    <3>1. CASE Native!Start
      BY <3>1 DEF Native!Start, EmitterPaints, Native!EmitterPaints
    <3>2. CASE Native!PollFirst
      BY <3>2 DEF Native!PollFirst, EmitterPaints, Native!EmitterPaints
    <3>3. CASE Native!PollSecond
      <4>1. pc = "input" /\ pc' = "input" /\ user' = user
        BY <3>3 DEF Native!PollSecond
      <4>2. emitter' \in Int \X Int
        BY <3>3, MovedStaysInt DEF Native!PollSecond
      <4> QED BY <4>1, <4>2 DEF EmitterPaints, Native!EmitterPaints
    <3>4. CASE Native!NoKey
      BY <3>4 DEF Native!NoKey, EmitterPaints, Native!EmitterPaints
    <3>5. CASE Native!Paint
      <4>1. pc' = "step" /\ UNCHANGED <<user, escape>> /\ escape = <<>>
        BY <3>5 DEF Native!Paint
      <4>2. emitter' \in Native!Interiors
        BY <3>5, ClampIntoInterior DEF Native!Paint
      <4>3. emitter' \in Int \X Int
        BY <4>2, GeometryAssumption DEF Native!Interiors
      <4>4. user.emitting => \A p \in Native!Disc(emitter', user.brush) : grid'[p] = user.material
        <5>1. user.emitting => grid' = Native!Painted(grid, emitter', user.brush, user.material)
          BY <3>5 DEF Native!Paint
        <5> QED BY <5>1, PaintedDisc
      <4> QED
        BY <4>1, <4>2, <4>3, <4>4 DEF EmitterPaints, Native!EmitterPaints, Native!Interiors
    <3>6. CASE Native!StepAndDraw
      <4>1. pc' # "step" /\ pc' # "start" /\ UNCHANGED <<user, emitter, escape>> /\ escape = <<>>
        BY <3>6 DEF Native!StepAndDraw
      <4> QED BY <4>1 DEF EmitterPaints, Native!EmitterPaints
    <3>7. CASE Native!ReadKey
      <4>1. pc = "input" /\ pc' = "input" /\ emitter' = emitter
        BY <3>7
        DEF Native!ReadKey, Native!KeySetting, Native!KeyClear, Native!KeySeed,
            Native!KeyBackend, Native!KeyIgnored, Native!KeyEscape, Native!Reads
      <4>2. CASE Native!KeySetting
        <5>1. user' = Native!Setting(Head(wire).code, user)
          BY <4>2 DEF Native!KeySetting
        <5>2. Head(wire).code \in Native!SettingCodes
          BY <4>2 DEF Native!KeySetting, Native!Reads
        <5>3. DOMAIN user' = UserFields
          BY <5>1, <5>2, SettingKeepsFields
        <5> QED BY <4>1, <5>3 DEF EmitterPaints, Native!EmitterPaints
      <4>3. CASE ~Native!KeySetting
        <5>1. user' = user
          BY <3>7, <4>3
          DEF Native!ReadKey, Native!KeyClear, Native!KeySeed, Native!KeyBackend,
              Native!KeyIgnored, Native!KeyEscape
        <5> QED BY <4>1, <5>1 DEF EmitterPaints, Native!EmitterPaints
      <4> QED BY <4>2, <4>3
    <3>8. CASE Native!Typing
      <4>1. UNCHANGED <<grid, user, emitter, escape, pc>>
        BY <3>8 DEF Native!Typing, Native!Press, Native!world
      <4> QED BY <4>1 DEF EmitterPaints, Native!EmitterPaints
    <3> QED
      BY <2>1, <3>1, <3>2, <3>3, <3>4, <3>5, <3>6, <3>7, <3>8
      DEF NativeProgram, Native!Next, Native!Loop
  <2>2. CASE ~NativeProgram(Native!Next)
    <3>1. program' = program /\ UNCHANGED nativeLocals
      BY <2>2 DEF Next, WebProgram, BenchmarkProgram, vars
    <3>2. pc = "start" \/ UNCHANGED grid
      BY <2>2 DEF NativeInv, Next, WebProgram, BenchmarkProgram, vars
    <3> QED BY <3>1, <3>2 DEF nativeLocals, NativeInv, EmitterPaints, Native!EmitterPaints
  <2> QED BY <2>1, <2>2
<1> QED BY <1>1, <1>2, PTL DEF Spec

\* In a world with an interior the emitter is in it whenever a frame is made, and
\* its whole disc is of the chosen material, whatever keys have been typed.
THEOREM EmitterAlwaysPaints == ASSUME W > 2, H > 2 PROVE Spec => []EmitterPaints
<1>1. NativeInv => EmitterPaints
  BY DEF NativeInv
<1> QED BY <1>1, NativeInvHolds, PTL

-----------------------------------------------------------------------------
(* The web page.                                                           *)

\* A new object is of the kind that was asked for, and it exists.
LEMMA CreatedObjects ==
  ASSUME NEW id \in Web!BackendIds, NEW b \in Web!createBackend(id)
  PROVE  b \in Web!Objects /\ b.id = id
<1>1. Web!Answers(id) \subseteq BOOLEAN
  BY BuildAssumption DEF Web!Answers, Web!BackendIds
<1>2. PICK answer \in Web!Answers(id) : b = [id |-> id, ok |-> answer]
  BY DEF Web!createBackend
<1> QED BY <1>1, <1>2 DEF Web!Objects

\* Stepping, with or without a device, does not exchange the object.
LEMMA StepKeepsObject ==
  ASSUME NEW b \in Web!Objects, NEW g, NEW f, NEW made \in Web!StepOutcomes(b, g, f)
  PROVE  made.backend \in Web!Objects /\ made.backend.id = b.id
<1> DEFINE dead == [b EXCEPT !.ok = FALSE]
<1>1. dead \in Web!Objects /\ dead.id = b.id
  BY DEF Web!Objects
<1>2. \/ made = [backend |-> b, grid |-> g, frame |-> f]
      \/ \E next \in Web!FramesOf(g, f) :
            made = [backend |-> b, grid |-> next, frame |-> Web!NextOf(f)]
      \/ \E k \in {f, Web!NextOf(f)} : made = [backend |-> dead, grid |-> g, frame |-> k]
  BY DEF Web!StepOutcomes
<1> HIDE DEF dead
<1>3. made.backend \in {b, dead}
  BY <1>2
<1> QED BY <1>1, <1>3

\* The naive backend is always there.
LEMMA NaiveIsThere ==
  ASSUME NEW answers \in Web!Probes
  PROVE  answers["Naive"] = TRUE
BY DEF Web!Probes, Web!Answers, Web!BackendIds

PageFields == {"ready", "paused", "material", "brush", "backend", "pointerDown", "last"}

\* The pointer is down for the page only while it is for the user, or after a
\* touch nobody told the page the end of.
WebInv ==
  /\ S.ready => program = "web"
  /\ program = "web" => backend \in Web!Objects
  /\ DOMAIN S = PageFields
  /\ timers \in Nat
  /\ S.pointerDown => hand # "up" \/ cancelled
  /\ BackendsAgree
  /\ BackendNotesExpire

\* A step that leaves the backend and the notes alone, and of S what they depend
\* on.
LEMMA PageStep ==
  ASSUME WebInv, program' = program,
         UNCHANGED <<backend, probes, backendId, note, timers>>,
         DOMAIN S' = PageFields, S'.ready = S.ready, S'.backend = S.backend,
         S'.pointerDown => hand' # "up" \/ cancelled'
  PROVE  WebInv'
BY DEF WebInv, BackendsAgree, Web!BackendsAgree, BackendNotesExpire,
       Web!BackendNotesExpire, Web!Objects, Web!BackendIds

LEMMA WebInvHolds == Spec => []WebInv
<1> USE DEF PageFields
<1>1. Init => WebInv
  <2> SUFFICES ASSUME Init PROVE WebInv
    OBVIOUS
  <2>1. /\ DOMAIN S = PageFields /\ S.ready = FALSE /\ S.pointerDown = FALSE
        /\ note = "" /\ timers = 0
    BY DEF Init, Web!LocalInit
  <2>2. backend \in Web!Objects
    BY DEF Init, Web!Objects, Web!BackendIds
  <2> QED
    BY <2>1, <2>2
    DEF WebInv, BackendsAgree, Web!BackendsAgree, BackendNotesExpire,
        Web!BackendNotesExpire
<1>2. WebInv /\ [Next]_vars => WebInv'
  <2> SUFFICES ASSUME WebInv, [Next]_vars PROVE WebInv'
    OBVIOUS
  <2>f. DOMAIN S = PageFields /\ (S.pointerDown => hand # "up" \/ cancelled)
    BY DEF WebInv
  <2>1. CASE WebProgram(Web!Next)
    <3>p. program' = program /\ program = "web"
      BY <2>1 DEF WebProgram
    <3>b. backend \in Web!Objects
      BY <3>p DEF WebInv
    <3>1. CASE Web!Boot
      <4>1. backend' \in Web!createBackend("Naive") /\ backendId' = "Naive" /\ probes' \in Web!Probes
        BY <3>1 DEF Web!Boot
      <4>2. backend' \in Web!Objects /\ backend'.id = "Naive" /\ probes'["Naive"] = TRUE
        BY <4>1, CreatedObjects, NaiveIsThere DEF Web!BackendIds
      <4>3. UNCHANGED <<note, timers, hand, cancelled>>
        BY <3>1 DEF Web!Boot
      <4>4. DOMAIN S' = PageFields /\ S'.backend = "Naive" /\ S'.pointerDown = S.pointerDown
        BY <3>1, <2>f DEF Web!Boot
      <4> QED
        BY <3>p, <4>1, <4>2, <4>3, <4>4
        DEF WebInv, BackendsAgree, Web!BackendsAgree, BackendNotesExpire,
            Web!BackendNotesExpire
    <3>2. CASE Web!PaintNext
      <4>1. UNCHANGED <<backend, probes, backendId, note, timers, hand, cancelled>>
        BY <3>2 DEF Web!PaintNext
      <4>2. S' = S \/ S' = [S EXCEPT !.last = Head(stroke)]
        BY <3>2 DEF Web!PaintNext
      <4>3. /\ DOMAIN S' = PageFields /\ S'.ready = S.ready /\ S'.backend = S.backend
            /\ S'.pointerDown = S.pointerDown
        BY <4>2, <2>f
      <4> QED BY <3>p, <2>f, <4>1, <4>3, PageStep
    <3>3. CASE Web!TimerFires
      <4>1. /\ UNCHANGED <<backend, probes, backendId, S, hand, cancelled>>
            /\ note' = "" /\ timers > 0 /\ timers' = timers - 1
        BY <3>3 DEF Web!TimerFires
      <4>2. timers' \in Nat
        <5>1. timers \in Nat
          BY DEF WebInv
        <5>2. timers > 0 /\ timers' = timers - 1
          BY <4>1
        <5> QED BY <5>1, <5>2
      <4> QED
        BY <3>p, <4>1, <4>2
        DEF WebInv, BackendsAgree, Web!BackendsAgree, BackendNotesExpire,
            Web!BackendNotesExpire, Web!Objects, Web!BackendIds
    <3>4. CASE Web!FrameCallback
      <4>1. UNCHANGED <<probes, backendId, S, note, timers, hand, cancelled>>
        BY <3>4 DEF Web!FrameCallback
      <4>2. \/ backend' = backend
            \/ \E made \in Web!StepOutcomes(backend, grid, frame) : backend' = made.backend
        BY <3>4 DEF Web!FrameCallback
      <4>3. backend' \in Web!Objects /\ backend'.id = backend.id
        BY <3>b, <4>2, StepKeepsObject
      <4> QED
        BY <3>p, <4>1, <4>3
        DEF WebInv, BackendsAgree, Web!BackendsAgree, BackendNotesExpire,
            Web!BackendNotesExpire
    <3>5. CASE Web!PointerEvent
      <4>1. PICK down, last, path : Web!Pointer(down, last, path)
              /\ (down => hand' # "up" \/ cancelled')
        <5>1. CASE \E q \in Points : Web!MouseDown(q) \/ Web!TouchStart(q)
          BY <5>1, Zenon DEF Web!MouseDown, Web!TouchStart
        <5>2. CASE \E q \in Points : Web!MouseMove(q) \/ Web!TouchMove(q)
          <6>1. hand' = hand /\ cancelled' = cancelled
            BY <5>2 DEF Web!MouseMove, Web!TouchMove
          <6>2. PICK last, path : Web!Pointer(S.pointerDown, last, path)
            BY <5>2, Zenon DEF Web!MouseMove, Web!TouchMove
          <6> QED BY <2>f, <6>1, <6>2, SMT
        <5>3. CASE Web!MouseUp \/ Web!TouchEnd
          BY <5>3, Zenon DEF Web!MouseUp, Web!TouchEnd
        <5>4. CASE Web!MouseLeave \/ Web!TouchCancel
          <6>1. (hand' = hand /\ cancelled' = cancelled) \/ cancelled' = TRUE
            BY <5>4 DEF Web!MouseLeave, Web!TouchCancel
          <6>2. PICK last, path : Web!Pointer(S.pointerDown, last, path)
            BY <5>4, Zenon DEF Web!MouseLeave, Web!TouchCancel
          <6> QED BY <2>f, <6>1, <6>2, SMT
        <5> QED BY <3>5, <5>1, <5>2, <5>3, <5>4, Zenon DEF Web!PointerEvent
      <4>2. UNCHANGED <<backend, probes, backendId, note, timers>>
        BY <4>1 DEF Web!Pointer
      <4>3. /\ DOMAIN S' = PageFields /\ S'.ready = S.ready /\ S'.backend = S.backend
            /\ S'.pointerDown = down
        BY <4>1, <2>f DEF Web!Pointer
      <4> QED BY <3>p, <4>1, <4>2, <4>3, PageStep
    <3>6. CASE \E id \in Web!BackendIds : Web!SelectBackend(id)
      <4>1. PICK id \in Web!BackendIds : Web!SelectBackend(id)
        BY <3>6
      <4>2. UNCHANGED <<probes, hand, cancelled>> /\ note' = "backend" /\ timers' = timers + 1
        BY <4>1 DEF Web!SelectBackend
      <4>3. CASE probes[id]
        <5>1. backend' \in Web!createBackend(id) /\ backendId' = id
          BY <4>1, <4>3 DEF Web!SelectBackend, Web!brSetBackend
        <5>2. backend' \in Web!Objects /\ backend'.id = id
          BY <5>1, CreatedObjects
        <5>3. S' = [S EXCEPT !.backend = id]
          BY <4>1, <4>3 DEF Web!SelectBackend
        <5>4. /\ DOMAIN S' = PageFields /\ S'.ready = S.ready /\ S'.backend = id
              /\ S'.pointerDown = S.pointerDown
          BY <5>3, <2>f
        <5> QED
          BY <3>p, <4>2, <4>3, <5>1, <5>2, <5>4
          DEF WebInv, BackendsAgree, Web!BackendsAgree, BackendNotesExpire,
              Web!BackendNotesExpire
      <4>4. CASE ~probes[id]
        <5>1. UNCHANGED <<backend, backendId, S>>
          BY <4>1, <4>4 DEF Web!SelectBackend, Web!brSetBackend
        <5> QED
          BY <3>p, <4>2, <5>1
          DEF WebInv, BackendsAgree, Web!BackendsAgree, BackendNotesExpire,
              Web!BackendNotesExpire
      <4> QED BY <4>3, <4>4
    <3>7. CASE \/ \E m \in Materials : Web!SelectMaterial(m)
               \/ \E r \in Radii : Web!Slide(r)
      <4>1. UNCHANGED <<backend, probes, backendId, note, timers, hand, cancelled>>
        BY <3>7 DEF Web!SelectMaterial, Web!Slide
      <4>2. \/ \E m : S' = [S EXCEPT !.material = m]
            \/ \E r : S' = [S EXCEPT !.brush = r]
        BY <3>7 DEF Web!SelectMaterial, Web!Slide
      <4>3. /\ DOMAIN S' = PageFields /\ S'.ready = S.ready /\ S'.backend = S.backend
            /\ S'.pointerDown = S.pointerDown
        BY <4>2, <2>f
      <4> QED BY <3>p, <2>f, <4>1, <4>3, PageStep
    <3>8. CASE Web!KeyPause
      <4>1. UNCHANGED <<backend, probes, backendId, timers, hand, cancelled>>
        BY <3>8 DEF Web!KeyPause
      <4>2. note' # "backend" /\ S' = [S EXCEPT !.paused = ~S.paused]
        BY <3>8 DEF Web!KeyPause
      <4>3. /\ DOMAIN S' = PageFields /\ S'.ready = S.ready /\ S'.backend = S.backend
            /\ S'.pointerDown = S.pointerDown
        BY <4>2, <2>f
      <4> QED
        BY <3>p, <4>1, <4>2, <4>3
        DEF WebInv, BackendsAgree, Web!BackendsAgree, BackendNotesExpire,
            Web!BackendNotesExpire, Web!Objects, Web!BackendIds
    <3>9. CASE Web!KeyClear \/ Web!KeySeed
      <4>1. PICK g : Web!Replace(g)
        BY <3>9 DEF Web!KeyClear, Web!KeySeed
      <4>2. UNCHANGED <<backend, probes, backendId, S, note, timers, hand, cancelled>>
        BY <4>1 DEF Web!Replace
      <4> QED BY <3>p, <2>f, <4>2, PageStep
    <3> QED
      BY <2>1, <3>1, <3>2, <3>3, <3>4, <3>5, <3>6, <3>7, <3>8, <3>9
      DEF WebProgram, Web!Next, Web!Browser, Web!PageEvent
  <2>2. CASE ~WebProgram(Web!Next)
    <3>1. program' = program /\ UNCHANGED webLocals
      BY <2>2 DEF Next, NativeProgram, BenchmarkProgram, vars
    <3>2. program # "web" \/ UNCHANGED <<backend, probes>>
      BY <2>2 DEF Next, NativeProgram, BenchmarkProgram, vars
    <3>3. UNCHANGED <<backendId, S, note, timers, hand, cancelled>>
      BY <3>1 DEF webLocals
    <3> QED
      BY <3>1, <3>2, <3>3
      DEF WebInv, BackendsAgree, Web!BackendsAgree, BackendNotesExpire,
          Web!BackendNotesExpire, Web!Objects, Web!BackendIds
  <2> QED BY <2>1, <2>2
<1> QED BY <1>1, <1>2, PTL DEF Spec

\* The backend the page highlights is the one the bindings name and the one that
\* steps the grid, for any answers of the probes and any sequence of choices.
THEOREM PageNamesActiveBackend == Spec => []BackendsAgree
<1>1. WebInv => BackendsAgree
  BY DEF WebInv
<1> QED BY <1>1, WebInvHolds, PTL

\* A note about a backend always has a timer behind it.
THEOREM BackendNotesAlwaysExpire == Spec => []BackendNotesExpire
<1>1. WebInv => BackendNotesExpire
  BY DEF WebInv
<1> QED BY <1>1, WebInvHolds, PTL

\* A stroke begins only under a pointer that is held down, or after a touch that
\* was cancelled.
THEOREM StrokesNeedPointer == Spec => OnlyHeldPointersPaint
<1>1. WebInv /\ [Next]_vars
        => [stroke = <<>> /\ stroke' # <<>> => hand' # "up" \/ cancelled]_(Web!vars)
  <2> SUFFICES ASSUME WebInv, [Next]_vars, stroke = <<>>, stroke' # <<>>
               PROVE  hand' # "up" \/ cancelled
    BY DEF Web!vars
  <2>1. WebProgram(Web!Next)
    BY DEF Next, NativeProgram, BenchmarkProgram, vars, webLocals
  <2>2. Web!PointerEvent
    BY <2>1
    DEF WebProgram, Web!Next, Web!Browser, Web!PageEvent, Web!Boot, Web!PaintNext,
        Web!TimerFires, Web!FrameCallback, Web!SelectBackend, Web!SelectMaterial,
        Web!Slide, Web!KeyPause, Web!KeyClear, Web!KeySeed, Web!Replace
  <2>3. S.pointerDown => hand # "up" \/ cancelled
    BY DEF WebInv
  <2>4. CASE \E q \in Points : Web!MouseDown(q) \/ Web!TouchStart(q)
    BY <2>4 DEF Web!MouseDown, Web!TouchStart
  <2>5. CASE \E q \in Points : Web!MouseMove(q)
    BY <2>3, <2>5 DEF Web!MouseMove, Web!Pointer
  <2>6. CASE \E q \in Points : Web!TouchMove(q)
    BY <2>6 DEF Web!TouchMove, Web!Fingers
  <2>7. CASE Web!MouseUp \/ Web!MouseLeave \/ Web!TouchEnd \/ Web!TouchCancel
    BY <2>7
    DEF Web!MouseUp, Web!MouseLeave, Web!TouchEnd, Web!TouchCancel, Web!Pointer
  <2> QED BY <2>2, <2>4, <2>5, <2>6, <2>7 DEF Web!PointerEvent
<1> QED
  BY <1>1, WebInvHolds, PTL DEF Spec, OnlyHeldPointersPaint, Web!OnlyHeldPointersPaint


LEMMA FloorDivision ==
  ASSUME NEW x \in Int, NEW b \in Nat \ {0}
  PROVE  x \div b \in Int /\ b * (x \div b) <= x /\ x < b * (x \div b) + b
OBVIOUS

\* Quotients grow with the dividend, by at most one for each divisor.
LEMMA QuotientsGrow ==
  ASSUME NEW x \in Int, NEW y \in Int, NEW b \in Nat \ {0}, x <= y
  PROVE  /\ x \div b <= y \div b
         /\ y <= x + b => y \div b <= x \div b + 1
<1> DEFINE p == x \div b
           q == y \div b
<1>1. /\ p \in Int /\ b * p <= x /\ x < b * p + b
      /\ q \in Int /\ b * q <= y /\ y < b * q + b
  BY FloorDivision
<1> HIDE DEF p, q
<1>2. p <= q
  <2> SUFFICES ASSUME q + 1 <= p PROVE FALSE
    BY <1>1
  <2>1. b * (p - (q + 1)) >= 0
    BY <1>1
  <2> QED BY <1>1, <2>1
<1>3. y <= x + b => q <= p + 1
  <2> SUFFICES ASSUME y <= x + b, p + 2 <= q PROVE FALSE
    BY <1>1
  <2>1. b * (q - (p + 2)) >= 0
    BY <1>1
  <2> QED BY <1>1, <2>1
<1> QED BY <1>2, <1>3 DEF p, q

LEMMA QuotientOf ==
  ASSUME NEW b \in Nat \ {0}, NEW q \in Int, NEW r \in 0..(b - 1)
  PROVE  (b * q + r) \div b = q
<1> DEFINE z == (b * q + r) \div b
<1>1. z \in Int /\ b * z <= b * q + r /\ b * q + r < b * z + b
  <2> b * q + r \in Int
    OBVIOUS
  <2> QED BY FloorDivision
<1> HIDE DEF z
<1>2. z <= q
  <2> SUFFICES ASSUME q + 1 <= z PROVE FALSE
    BY <1>1
  <2>1. b * (z - (q + 1)) >= 0
    BY <1>1
  <2> QED BY <1>1, <2>1
<1>3. q <= z
  <2> SUFFICES ASSUME z + 1 <= q PROVE FALSE
    BY <1>1
  <2>1. b * (q - (z + 1)) >= 0
    BY <1>1
  <2> QED BY <1>1, <2>1
<1> QED BY <1>1, <1>2, <1>3 DEF z

\* Math.round of d * i / n, for i from 0 to n: from 0 to d, never more than one
\* on from the value before.
LEMMA RoundSteps ==
  ASSUME NEW n \in Nat \ {0}, NEW d \in Int, -n <= d, d <= n
  PROVE  /\ Web!Round(d, 0, n) = 0 /\ Web!Round(d, n, n) = d
         /\ \A i \in 0..n : /\ Web!Round(d, i, n) \in Int
                            /\ 0 <= d => Web!Round(d, i, n) \in 0..d
                            /\ d <= 0 => Web!Round(d, i, n) \in d..0
         /\ \A i \in 0..(n - 1) :
              /\ Web!Round(d, i + 1, n) - Web!Round(d, i, n) <= 1
              /\ Web!Round(d, i, n) - Web!Round(d, i + 1, n) <= 1
<1> DEFINE x(i) == 2 * d * i + n
           b == 2 * n
<1>b. b \in Nat \ {0}
  OBVIOUS
<1>1. \A i \in 0..n : x(i) \in Int /\ Web!Round(d, i, n) = x(i) \div b
  BY DEF Web!Round
<1>2. ASSUME NEW i \in 0..(n - 1)
      PROVE  /\ x(i) \in Int /\ x(i + 1) \in Int
             /\ d >= 0 => x(i) <= x(i + 1) /\ x(i + 1) <= x(i) + b
             /\ d <= 0 => x(i + 1) <= x(i) /\ x(i) <= x(i + 1) + b
  <2>1. x(i + 1) = x(i) + 2 * d
    OBVIOUS
  <2> QED BY <2>1
<1>4. x(0) = b * 0 + n /\ x(n) = b * d + n /\ n \in 0..(b - 1)
  OBVIOUS
<1>5. Web!Round(d, 0, n) = 0 /\ Web!Round(d, n, n) = d
  <2>1. (b * 0 + n) \div b = 0 /\ (b * d + n) \div b = d
    BY <1>b, <1>4, QuotientOf
  <2>2. 0 \in 0..n /\ n \in 0..n
    OBVIOUS
  <2> QED BY <1>1, <1>4, <2>1, <2>2
<1>6. ASSUME NEW i \in 0..n
      PROVE  /\ 0 <= d => 0 <= d * i /\ d * i <= d * n
             /\ d <= 0 => d * i <= 0 /\ d * n <= d * i
  <2>1. d * (n - i) = d * n - d * i
    OBVIOUS
  <2>2. 0 <= d => 0 <= d * i /\ 0 <= d * (n - i)
    OBVIOUS
  <2>3. d <= 0 => d * i <= 0 /\ d * (n - i) <= 0
    OBVIOUS
  <2> QED BY <2>1, <2>2, <2>3
<1>8. ASSUME NEW i \in 0..n
      PROVE  /\ Web!Round(d, i, n) \in Int
             /\ 0 <= d => Web!Round(d, i, n) \in 0..d
             /\ d <= 0 => Web!Round(d, i, n) \in d..0
  <2>1. x(i) \in Int /\ x(0) \in Int /\ x(n) \in Int
    OBVIOUS
  <2>2. /\ 0 <= d => x(0) <= x(i) /\ x(i) <= x(n)
        /\ d <= 0 => x(n) <= x(i) /\ x(i) <= x(0)
    BY <1>6
  <2>3. x(0) \div b = 0 /\ x(n) \div b = d
    BY <1>b, <1>4, QuotientOf
  <2>4. x(i) \div b \in Int
    BY <1>b, <2>1
  <2> HIDE DEF x, b
  <2>5. /\ 0 <= d => 0 <= x(i) \div b /\ x(i) \div b <= d
        /\ d <= 0 => d <= x(i) \div b /\ x(i) \div b <= 0
    BY <1>b, <2>1, <2>2, <2>3, QuotientsGrow
  <2> QED BY <1>1, <2>4, <2>5
<1>9. ASSUME NEW i \in 0..(n - 1)
      PROVE  /\ Web!Round(d, i + 1, n) - Web!Round(d, i, n) <= 1
             /\ Web!Round(d, i, n) - Web!Round(d, i + 1, n) <= 1
  <2>1. Web!Round(d, i, n) = x(i) \div b /\ Web!Round(d, i + 1, n) = x(i + 1) \div b
    BY <1>1
  <2>2. x(i) \div b \in Int /\ x(i + 1) \div b \in Int
    BY <1>2, <1>b
  <2>3. /\ d >= 0 => x(i) \div b <= x(i + 1) \div b /\ x(i + 1) \div b <= x(i) \div b + 1
        /\ d <= 0 => x(i + 1) \div b <= x(i) \div b /\ x(i) \div b <= x(i + 1) \div b + 1
    BY <1>2, <1>b, QuotientsGrow
  <2> HIDE DEF x, b
  <2> QED BY <2>1, <2>2, <2>3
<1> QED BY <1>5, <1>8, <1>9

\* What paintAt paints from one point of the grid to another stays in the grid
\* and has no gaps.
Joined(from, path) ==
  /\ path \in Seq(Coords) /\ path # <<>>
  /\ Web!Connected(IF from = Web!NoPoint THEN path ELSE <<from>> \o path)

LEMMA SegmentJoins ==
  ASSUME NEW from \in Coords \cup {Web!NoPoint}, NEW to \in Coords
  PROVE  Joined(from, Web!Segment(from, to))
<1>1. CASE from = Web!NoPoint
  <2>1. Web!Segment(from, to) = <<to>>
    BY <1>1 DEF Web!Segment
  <2> QED BY <1>1, <2>1 DEF Joined, Web!Connected
<1>2. CASE from # Web!NoPoint
  <2> DEFINE dx == to[1] - from[1]
             dy == to[2] - from[2]
             n  == IF Web!AbsOf(dx) > Web!AbsOf(dy) THEN Web!AbsOf(dx) ELSE Web!AbsOf(dy)
             at(i) == <<from[1] + Web!Round(dx, i, n), from[2] + Web!Round(dy, i, n)>>
             mid  == [i \in 1..(n - 1) |-> at(i)]
             path == mid \o <<to>>
             line == <<from>> \o path
  <2>1. /\ from \in Coords
        /\ from[1] \in Cols /\ from[2] \in Rows /\ to[1] \in Cols /\ to[2] \in Rows
        /\ from = <<from[1], from[2]>> /\ to = <<to[1], to[2]>>
    BY <1>2 DEF Coords
  <2>2. /\ dx \in Int /\ dy \in Int /\ n \in Nat
        /\ -n <= dx /\ dx <= n /\ -n <= dy /\ dy <= n
    BY <2>1, GeometryAssumption DEF Web!AbsOf, Cols, Rows
  <2>3. Web!Segment(from, to) = path
    BY <1>2 DEF Web!Segment
  <2>4. CASE n = 0
    <3>1. to = from
      BY <2>1, <2>2, <2>4, GeometryAssumption DEF Cols, Rows
    <3>2. mid = <<>>
      BY <2>4
    <3> HIDE DEF mid, n
    <3>3. path = <<to>>
      BY <3>2
    <3> HIDE DEF path
    <3>5. Len(line) = 2 /\ line[1] = from /\ line[2] = to
      BY <3>3
    <3> HIDE DEF line
    <3>4. Web!Touching(from, to)
      BY <3>1, <2>1, GeometryAssumption DEF Web!Touching, Web!AbsOf, Cols, Rows
    <3>6. Web!Connected(line)
      BY <3>4, <3>5 DEF Web!Connected
    <3>7. path \in Seq(Coords) /\ path # <<>>
      BY <3>3
    <3> QED BY <1>2, <2>3, <3>6, <3>7 DEF Joined, line
  <2>5. CASE n > 0
    <3>1. n \in Nat \ {0}
      BY <2>2, <2>5
    <3> HIDE DEF n
    <3>2. at(0) = from /\ at(n) = to
      BY <2>1, <2>2, <3>1, RoundSteps, GeometryAssumption DEF Cols, Rows
    <3>3. ASSUME NEW i \in 0..n PROVE at(i) \in Coords
      <4>1. from[1] + Web!Round(dx, i, n) \in Cols
        <5>1. /\ 0 <= dx => Web!Round(dx, i, n) \in 0..dx
              /\ dx <= 0 => Web!Round(dx, i, n) \in dx..0
          BY <2>2, <3>1, RoundSteps
        <5> QED BY <5>1, <2>1, <2>2, GeometryAssumption DEF Cols
      <4>2. from[2] + Web!Round(dy, i, n) \in Rows
        <5>1. /\ 0 <= dy => Web!Round(dy, i, n) \in 0..dy
              /\ dy <= 0 => Web!Round(dy, i, n) \in dy..0
          BY <2>2, <3>1, RoundSteps
        <5> QED BY <5>1, <2>1, <2>2, GeometryAssumption DEF Rows
      <4> QED BY <4>1, <4>2 DEF Coords
    <3>4. ASSUME NEW i \in 0..(n - 1) PROVE Web!Touching(at(i), at(i + 1))
      <4>1. /\ Web!Round(dx, i, n) \in Int /\ Web!Round(dx, i + 1, n) \in Int
            /\ Web!Round(dy, i, n) \in Int /\ Web!Round(dy, i + 1, n) \in Int
        <5>1. i \in 0..n /\ i + 1 \in 0..n
          BY <3>1
        <5> QED BY <2>2, <3>1, <5>1, RoundSteps
      <4>2. /\ Web!Round(dx, i + 1, n) - Web!Round(dx, i, n) <= 1
            /\ Web!Round(dx, i, n) - Web!Round(dx, i + 1, n) <= 1
        BY <2>2, <3>1, RoundSteps
      <4>3. /\ Web!Round(dy, i + 1, n) - Web!Round(dy, i, n) <= 1
            /\ Web!Round(dy, i, n) - Web!Round(dy, i + 1, n) <= 1
        BY <2>2, <3>1, RoundSteps
      <4>4. from[1] \in Int /\ from[2] \in Int
        BY <2>1, GeometryAssumption DEF Cols, Rows
      <4> HIDE DEF dx, dy
      <4> QED BY <4>1, <4>2, <4>3, <4>4 DEF Web!Touching, Web!AbsOf
    <3> HIDE DEF at
    <3>5. mid \in Seq(Coords) /\ Len(mid) = n - 1
      BY <3>1, <3>3
    <3>6. \A i \in 1..(n - 1) : mid[i] = at(i)
      OBVIOUS
    <3> HIDE DEF mid
    <3>7. /\ path \in Seq(Coords) /\ Len(path) = n
          /\ \A i \in 1..n : path[i] = at(i)
      BY <3>1, <3>2, <3>5, <3>6
    <3> HIDE DEF path
    <3>8. /\ Len(line) = n + 1
          /\ \A i \in 1..(n + 1) : line[i] = at(i - 1)
      BY <2>1, <3>1, <3>2, <3>7
    <3> HIDE DEF line
    <3>9. Web!Connected(line)
      BY <3>1, <3>4, <3>8 DEF Web!Connected
    <3>10. path # <<>>
      BY <3>1, <3>7
    <3> QED BY <1>2, <2>3, <3>7, <3>9, <3>10 DEF Joined, line
  <2> QED BY <2>2, <2>4, <2>5
<1> QED BY <1>1, <1>2

-----------------------------------------------------------------------------
(* What the three programs do to their world.                              *)

\* A grid whose border is closed, and a counter.
WorldTyped == grid \in Grids /\ Closed(grid) /\ frame \in Frames

Brushes == Radii \cup 1..MaxBrush \cup {FireRadius}

Paints  == /\ \E p \in Coords, r \in Brushes, c \in Cells : grid' = Painted(grid, p, r, c)
           /\ frame' = frame
Reseeds == (\E scene \in SeedFills : grid' = Seeded(grid, scene)) /\ frame' = 0
Clears  == grid' = Cleared /\ frame' = 0
Advances == /\ \E noise \in NoiseWords : grid' = NextFrame(grid, frame, noise)
           /\ frame' = NextOf(frame)
Breaks  == /\ ~Lost(backend) /\ Lost(backend')
           /\ grid' \in Grids /\ Closed(grid') /\ frame' \in Frames

WorldMoves == UNCHANGED <<grid, frame>> \/ Paints \/ Reseeds \/ Clears \/ Advances \/ Breaks

LEMMA NextOfType ==
  ASSUME NEW f \in Frames
  PROVE  f \in Nat /\ NextOf(f) \in Frames /\ 0 \in Frames
BY InputAssumption DEF Frames, NextOf

\* Whatever they do, it leaves a world ...
LEMMA WorldMovesTyped == ASSUME WorldTyped, WorldMoves PROVE WorldTyped'
<1> USE DEF WorldTyped
<1>1. CASE UNCHANGED <<grid, frame>>
  BY <1>1 DEF Closed
<1>2. CASE Paints
  <2>1. PICK p \in Coords, r \in Brushes, c \in Cells : grid' = Painted(grid, p, r, c)
    BY <1>2 DEF Paints
  <2> QED BY <1>2, <2>1, EditsType, BorderStaysClosed DEF Paints, Closed
<1>3. CASE Reseeds
  <2>1. PICK scene \in SeedFills : grid' = Seeded(grid, scene)
    BY <1>3 DEF Reseeds
  <2> QED BY <1>3, <2>1, EditsType, BorderStaysClosed, NextOfType DEF Reseeds, Closed
<1>4. CASE Clears
  BY <1>4, EditsType, BorderStaysClosed, NextOfType DEF Clears, Closed
<1>5. CASE Advances
  <2>1. PICK noise \in NoiseWords : grid' = NextFrame(grid, frame, noise)
    BY <1>5 DEF Advances
  <2> QED BY <1>5, <2>1, FrameType, BorderStaysClosed, NextOfType DEF Advances, Closed
<1>6. CASE Breaks
  BY <1>6 DEF Breaks, Closed
<1> QED BY <1>1, <1>2, <1>3, <1>4, <1>5, <1>6 DEF WorldMoves

\* ... and is a step of the abstract simulation, or the loss of a device.
LEMMA WorldMovesSimulated ==
  ASSUME WorldMoves, World!vars' # World!vars
  PROVE  World!Next \/ (~Lost(backend) /\ Lost(backend'))
<1>1. ~UNCHANGED <<grid, frame>>
  BY DEF World!vars
<1>2. CASE Paints
  BY <1>2, WorldOperators DEF Paints, Brushes, World!Next, World!Edit, World!PaintDisc
<1>3. CASE Reseeds
  BY <1>3, WorldOperators DEF Reseeds, World!Next, World!Edit, World!Seed
<1>4. CASE Clears
  BY <1>4, WorldOperators DEF Clears, World!Next, World!Edit, World!Clear
<1>5. CASE Advances
  BY <1>5, WorldOperators DEF Advances, World!Next, World!Step
<1> QED BY <1>1, <1>2, <1>3, <1>4, <1>5 DEF WorldMoves, Breaks

\* A step() that returns has made a frame, done nothing, or lost its device.
LEMMA OutcomesOfStep ==
  ASSUME NEW b \in Objects, NEW g, NEW f, NEW made \in StepOutcomes(b, g, f)
  PROVE  /\ made.backend \in Objects
         /\ \/ made.grid = g /\ made.frame = f
            \/ /\ made.frame = NextOf(f)
               /\ \E noise \in NoiseWords : made.grid = NextFrame(g, f, noise)
            \/ /\ ~Lost(b) /\ Lost(made.backend)
               /\ made.grid = g /\ made.frame = NextOf(f)
<1> DEFINE dead == [b EXCEPT !.ok = FALSE]
<1>1. dead \in Objects /\ dead.id = b.id /\ dead.ok = FALSE
  BY DEF Objects
<1>2. \A next \in FramesOf(g, f) : \E noise \in NoiseWords : next = NextFrame(g, f, noise)
  BY DEF FramesOf, NextFrame, AfterExchange
<1>3. CASE made = [backend |-> b, grid |-> g, frame |-> f]
  BY <1>3
<1>4. CASE \E next \in FramesOf(g, f) : made = [backend |-> b, grid |-> next, frame |-> NextOf(f)]
  BY <1>2, <1>4
<1>5. CASE /\ ~Lost(b) /\ b.id = "Cuda"
           /\ \E k \in {f, NextOf(f)} : made = [backend |-> dead, grid |-> g, frame |-> k]
  <2> HIDE DEF dead
  <2>1. Lost(dead)
    BY <1>1, <1>5 DEF Lost
  <2> QED BY <1>1, <1>5, <2>1
<1>6. \/ made = [backend |-> b, grid |-> g, frame |-> f]
      \/ \E next \in FramesOf(g, f) : made = [backend |-> b, grid |-> next, frame |-> NextOf(f)]
      \/ /\ ~Lost(b) /\ b.id = "Cuda"
         /\ \E k \in {f, NextOf(f)} : made = [backend |-> dead, grid |-> g, frame |-> k]
  BY DEF StepOutcomes
<1> QED BY <1>3, <1>4, <1>5, <1>6

-----------------------------------------------------------------------------
(* Types.                                                                  *)

\* The settings of the user, and a byte of the terminal.
UserRecords == [material : Cells, brush : 1..MaxBrush, paused : BOOLEAN,
                emitting : BOOLEAN, running : BOOLEAN]
Bytes == [code : Keys \cup {"ESC", "[", "A", "B", "C", "D", "none"},
          key : Keys \cup {"none"}]

\* The bytes of the escape sequence that were read from the wire, and the bytes
\* that were typed and are gone: three of them for each move of the emitter.
EscapeBytes == IF Len(escape) = 2 /\ escape[2].code = "none" THEN 1 ELSE Len(escape)
Spent       == 3 * presses - Len(wire) - EscapeBytes

NativeTyped ==
  /\ user \in UserRecords
  /\ wire \in Seq(Bytes) /\ escape \in Seq(Bytes) /\ Len(escape) <= 2
  /\ pc \in {"start", "input", "paint", "step", "ended"}
  /\ presses \in 0..MaxPresses /\ torn \in BOOLEAN
  /\ Spent >= 0 /\ emitter \in Int \X Int
  /\ emitter[1] \in -Spent..(W + Spent) /\ emitter[2] \in -Spent..(H + 6 + Spent)

PageRecords == [ready : BOOLEAN, paused : BOOLEAN, material : Cells, brush : Radii,
                backend : BackendIds, pointerDown : BOOLEAN,
                last : Coords \cup {Web!NoPoint}]

WebTyped ==
  /\ S \in PageRecords /\ backendId \in BackendIds
  /\ stroke \in Seq(Coords)
  /\ note \in {"", "backend", "paused"}
  /\ inputs \in 0..MaxInputs /\ timers \in 0..inputs
  /\ hand \in {"up", "mouse"} \cup Web!Fingers /\ cancelled \in BOOLEAN

RowRecords == [id : BackendIds, ran : BOOLEAN, checksum : Grids, lost : BOOLEAN]
Measuring  == {"seed", "kindle", "warm up", "reseed", "rekindle", "measure"}

BenchTyped ==
  /\ phase \in {"start", "create", "ok", "failed"} \cup Measuring
  /\ phase # "start" => fill \in SeedFills /\ hash \in [Frames -> NoiseWords]
  /\ rows \in Seq(RowRecords) /\ Len(rows) <= 4
  /\ phase \in Measuring => Len(rows) < 4
  /\ left \in 0..(WarmUp + Steps)
  /\ found \in [grid : Grids, frame : Frames] /\ Closed(found.grid)

Typed ==
  /\ program \in Started /\ WorldTyped
  /\ backend \in Objects /\ probes \in [BackendIds -> BOOLEAN]
  /\ NativeTyped /\ WebTyped /\ BenchTyped

\* What the objects of a program are after a step of it.
ObjectsTyped == backend \in Objects /\ probes \in [BackendIds -> BOOLEAN]

LEMMA CreatedType ==
  /\ \A id \in BackendIds : createBackend(id) \subseteq Objects
  /\ Probes \subseteq [BackendIds -> BOOLEAN]
  /\ createBackend("Naive") = {[id |-> "Naive", ok |-> TRUE]}
<1>1. \A id \in BackendIds : Answers(id) \subseteq BOOLEAN
  BY BuildAssumption DEF Answers, BackendIds
<1>2. \A id \in BackendIds : createBackend(id) \subseteq Objects
  <2> SUFFICES ASSUME NEW id \in BackendIds, NEW b \in createBackend(id) PROVE b \in Objects
    OBVIOUS
  <2>1. PICK answer \in Answers(id) : b = [id |-> id, ok |-> answer]
    BY DEF createBackend
  <2> QED BY <1>1, <2>1 DEF Objects
<1>3. Answers("Naive") = {TRUE}
  BY DEF Answers
<1> QED BY <1>2, <1>3 DEF createBackend, Probes

LEMMA SettingType ==
  ASSUME NEW u \in UserRecords, NEW code \in Native!SettingCodes
  PROVE  Native!Setting(code, u) \in UserRecords
<1>1. \A m \in Cells : [u EXCEPT !.material = m] \in UserRecords
  BY DEF UserRecords
<1>2. \A b \in BOOLEAN : /\ [u EXCEPT !.emitting = b] \in UserRecords
                         /\ [u EXCEPT !.paused = b] \in UserRecords
                         /\ [u EXCEPT !.running = b] \in UserRecords
  BY DEF UserRecords
<1>3. \A n \in 1..MaxBrush : [u EXCEPT !.brush = n] \in UserRecords
  BY DEF UserRecords
<1>4. \A c \in DOMAIN Native!MaterialOf : Native!MaterialOf[c] \in Cells
  BY DEF Native!MaterialOf, Cells, Native!Sand, Native!Water, Native!Fire, Native!Wall, Native!Empty
<1>5. u.emitting \in BOOLEAN /\ u.paused \in BOOLEAN /\ u.brush \in 1..MaxBrush
  BY DEF UserRecords
<1>6. /\ (IF u.brush < MaxBrush THEN u.brush + 1 ELSE u.brush) \in 1..MaxBrush
      /\ (IF u.brush > 1 THEN u.brush - 1 ELSE u.brush) \in 1..MaxBrush
  BY <1>5, NativeAssumption
<1>7. code \in {"q", "w", "e", "r", "z", " ", "p", "+", "-", "x"}
  BY DEF Native!SettingCodes, Native!MaterialOf
<1>8. DOMAIN Native!MaterialOf = {"q", "w", "e", "r", "z"}
  BY DEF Native!MaterialOf
<1>9. CASE code \in {"q", "w", "e", "r", "z"}
  BY <1>1, <1>4, <1>8, <1>9 DEF Native!Setting
<1>10. CASE code \in {" ", "p", "x"}
  BY <1>2, <1>5, <1>8, <1>10 DEF Native!Setting
<1>11. CASE code \in {"+", "-"}
  BY <1>3, <1>6, <1>8, <1>11 DEF Native!Setting
<1> QED BY <1>7, <1>9, <1>10, <1>11

LEMMA BytesOfType ==
  ASSUME NEW key \in Keys
  PROVE  Native!BytesOf(key) \in Seq(Bytes) /\ Len(Native!BytesOf(key)) <= 3
<1> DEFINE Byte(code) == [code |-> code, key |-> key]
<1>1. \A code \in {"ESC", "[", "A", "B", "C", "D", key} : Byte(code) \in Bytes
  BY DEF Bytes
<1>2. key \in Native!ArrowKeys => Native!LetterOf[key] \in {"A", "B", "C", "D"}
  BY DEF Native!ArrowKeys, Native!LetterOf
<1>3. key \notin Native!ArrowKeys => Native!BytesOf(key) \in {<<Byte("ESC")>>, <<Byte(key)>>}
  BY DEF Native!BytesOf
<1> HIDE DEF Byte
<1>4. \A a, b, c \in Bytes : <<a, b, c>> \in Seq(Bytes) /\ Len(<<a, b, c>>) <= 3
  OBVIOUS
<1>5. \A a \in Bytes : <<a>> \in Seq(Bytes) /\ Len(<<a>>) <= 3
  OBVIOUS
<1>6. CASE key \in Native!ArrowKeys
  <2>1. Native!BytesOf(key) = <<Byte("ESC"), Byte("["), Byte(Native!LetterOf[key])>>
    BY <1>6 DEF Native!BytesOf, Byte
  <2>2. /\ Byte("ESC") \in Bytes /\ Byte("[") \in Bytes
        /\ Byte(Native!LetterOf[key]) \in Bytes
    BY <1>1, <1>2, <1>6
  <2> QED BY <1>4, <2>1, <2>2
<1>7. CASE key \notin Native!ArrowKeys
  <2>1. Byte("ESC") \in Bytes /\ Byte(key) \in Bytes
    BY <1>1
  <2> QED BY <1>3, <1>5, <1>7, <2>1
<1> QED BY <1>6, <1>7

\* A point at most n away from where the emitter starts.
Near(at, n) ==
  at \in Int \X Int /\ at[1] \in -n..(W + n) /\ at[2] \in -n..(H + 6 + n)

LEMMA AppendedAt ==
  ASSUME NEW T, NEW b \in T, NEW e \in Seq(T), NEW n \in Nat, Len(e) = n
  PROVE  /\ Append(e, b) \in Seq(T) /\ Len(Append(e, b)) = n + 1
         /\ Append(e, b)[n + 1] = b
OBVIOUS

LEMMA AppendedSecond ==
  ASSUME NEW T, NEW b \in T, NEW e \in Seq(T), Len(e) = 1
  PROVE  /\ Append(e, b) \in Seq(T) /\ Len(Append(e, b)) = 2
         /\ Append(e, b)[2] = b
<1>1. \A n \in Nat : Len(e) = n => /\ Append(e, b) \in Seq(T) /\ Len(Append(e, b)) = n + 1
                                   /\ Append(e, b)[n + 1] = b
  BY AppendedAt
<1>2. 1 \in Nat /\ 1 + 1 = 2
  OBVIOUS
<1> QED BY <1>1, <1>2, Zenon

LEMMA FirstByte ==
  ASSUME NEW bytes \in Seq(Bytes), bytes # <<>>
  PROVE  /\ Head(bytes) \in Bytes /\ Tail(bytes) \in Seq(Bytes)
         /\ Len(bytes) \in Nat /\ Len(bytes) > 0 /\ Len(Tail(bytes)) = Len(bytes) - 1
OBVIOUS

LEMMA NearGrows ==
  ASSUME NEW at, NEW n \in Nat, NEW m \in Nat, n <= m, Near(at, n)
  PROVE  Near(at, m)
BY GeometryAssumption DEF Near

LEMMA MovedNear ==
  ASSUME NEW at, NEW n \in Nat, Near(at, n), NEW code
  PROVE  /\ Near(Native!Moved(at, code), n + 3)
         /\ code \notin {"A", "B", "C", "D"} => Native!Moved(at, code) = at
<1>1. Near(at, n + 3)
  BY NearGrows
<1>2. PICK x \in Int, y \in Int : at = <<x, y>>
  BY DEF Near
<1>3. /\ x \in -n..(W + n) /\ y \in -n..(H + 6 + n)
      /\ at[1] = x /\ at[2] = y
  BY <1>2 DEF Near
<1>4. Native!Moved(at, code) \in {at, <<x, y - 3>>, <<x, y + 3>>, <<x - 3, y>>, <<x + 3, y>>}
  BY <1>3 DEF Native!Moved
<1>5. \A i \in Int, j \in Int :
        i \in -(n + 3)..(W + n + 3) /\ j \in -(n + 3)..(H + 6 + n + 3) => Near(<<i, j>>, n + 3)
  BY GeometryAssumption DEF Near
<1>6. /\ Near(<<x, y - 3>>, n + 3) /\ Near(<<x, y + 3>>, n + 3)
      /\ Near(<<x - 3, y>>, n + 3) /\ Near(<<x + 3, y>>, n + 3)
  BY <1>3, <1>5, GeometryAssumption
<1>7. code \notin {"A", "B", "C", "D"} => Native!Moved(at, code) = at
  BY DEF Native!Moved
<1> QED BY <1>1, <1>4, <1>6, <1>7

LEMMA InteriorNear ==
  ASSUME NEW at \in Native!Interiors, NEW n \in Nat
  PROVE  Near(at, n) /\ at \in Coords
BY GeometryAssumption DEF Near, Native!Interiors, Coords, Cols, Rows

\* A step of the terminal program.
LEMMA NativeSteps ==
  ASSUME W > 2, H > 2, Typed, NativeProgram(Native!Next)
  PROVE  NativeTyped' /\ WorldMoves /\ ObjectsTyped'
<1>t. /\ user \in UserRecords
      /\ wire \in Seq(Bytes) /\ escape \in Seq(Bytes) /\ Len(escape) <= 2
      /\ pc \in {"start", "input", "paint", "step", "ended"}
      /\ presses \in 0..MaxPresses /\ torn \in BOOLEAN
      /\ Spent \in Nat /\ Near(emitter, Spent)
      /\ Len(wire) \in Nat /\ EscapeBytes \in 0..2 /\ MaxPresses \in Nat
  <2>1. NativeTyped
    BY DEF Typed
  <2>0. wire \in Seq(Bytes) /\ escape \in Seq(Bytes) /\ Len(escape) <= 2
    BY <2>1 DEF NativeTyped
  <2>2. Len(wire) \in Nat /\ Len(escape) \in Nat
    BY <2>0
  <2>3. EscapeBytes \in 0..2
    <3>1. PICK n \in Nat : n = Len(escape)
      BY <2>2
    <3>2. n <= 2 /\ EscapeBytes \in {1, n}
      BY <2>0, <3>1 DEF EscapeBytes
    <3> QED BY <3>2
  <2>4. presses \in Int /\ MaxPresses \in Nat
    BY <2>1, NativeAssumption DEF NativeTyped
  <2>5. Spent \in Int
    BY <2>2, <2>3, <2>4 DEF Spent
  <2>6. Near(emitter, Spent)
    BY <2>1 DEF NativeTyped, Near
  <2> QED BY <2>1, <2>2, <2>3, <2>4, <2>5, <2>6 DEF NativeTyped
<1>w. WorldTyped /\ backend \in Objects /\ probes \in [BackendIds -> BOOLEAN]
  BY DEF Typed
<1>p. Spent = 3 * presses - Len(wire) - EscapeBytes
  BY DEF Spent
<1>n. ASSUME Near(emitter', Spent'), Spent' \in Nat, user' \in UserRecords,
             wire' \in Seq(Bytes), escape' \in Seq(Bytes), Len(escape') <= 2,
             pc' \in {"start", "input", "paint", "step", "ended"},
             presses' \in 0..MaxPresses, torn' \in BOOLEAN
      PROVE  NativeTyped'
  BY <1>n DEF NativeTyped, Near
<1>u. ASSUME UNCHANGED <<user, emitter, presses, torn, wire, escape>>,
             pc' \in {"start", "input", "paint", "step", "ended"}
      PROVE  NativeTyped'
  <2>1. EscapeBytes' = EscapeBytes /\ Spent' = Spent
    BY <1>u DEF EscapeBytes, Spent
  <2>2. Near(emitter', Spent')
    BY <1>t, <1>u, <2>1
  <2> QED BY <1>n, <1>t, <1>u, <2>1, <2>2
<1>1. CASE Native!Start
  <2>1. /\ UNCHANGED <<user, emitter, wire, escape, presses, torn>> /\ pc' = "input"
        /\ probes' \in Probes /\ frame' = 0
        /\ backend' \in createBackend("Avx2") \cup createBackend("Naive")
    BY <1>1, NativeOperators DEF Native!Start
  <2>2. PICK fill0 \in SeedFills : grid' = Seeded(grid, fill0)
    BY <1>1, NativeOperators DEF Native!Start
  <2>3. WorldMoves
    BY <2>1, <2>2 DEF WorldMoves, Reseeds
  <2>4. ObjectsTyped'
    BY <2>1, CreatedType DEF ObjectsTyped, BackendIds
  <2> QED BY <1>u, <2>1, <2>3, <2>4
<1>2. CASE Native!Typing
  <2>1. PICK key \in Keys : Native!Press(key)
    BY <1>2 DEF Native!Typing
  <2>2. /\ presses < MaxPresses /\ presses' = presses + 1
        /\ wire' = wire \o Native!BytesOf(key)
        /\ torn' = (torn \/ key = "esc")
        /\ UNCHANGED <<grid, frame, backend, probes, user, emitter, escape, pc>>
    BY <2>1 DEF Native!Press, Native!world
  <2>3. /\ wire' \in Seq(Bytes) /\ Len(wire') \in Nat
        /\ Len(wire') <= Len(wire) + 3
    <3>1. Native!BytesOf(key) \in Seq(Bytes) /\ Len(Native!BytesOf(key)) <= 3
      BY BytesOfType
    <3> QED BY <1>t, <2>2, <3>1
  <2>4. EscapeBytes' = EscapeBytes
    BY <2>2 DEF EscapeBytes
  <2>5. Spent' = 3 * presses' - Len(wire') - EscapeBytes'
    BY DEF Spent
  <2>6. Spent' \in Nat /\ Spent <= Spent'
    BY <1>t, <1>p, <2>2, <2>3, <2>4, <2>5
  <2>7. Near(emitter', Spent')
    BY <1>t, <2>2, <2>6, NearGrows
  <2> QED
    BY <1>n, <1>t, <1>w, <2>2, <2>3, <2>6, <2>7
    DEF WorldMoves, ObjectsTyped
<1>3. CASE Native!ReadKey
  <2>1. /\ UNCHANGED <<probes, emitter, pc, presses, torn>>
        /\ pc = "input" /\ escape = <<>> /\ wire # <<>> /\ wire' = Tail(wire)
    BY <1>3
    DEF Native!ReadKey, Native!KeySetting, Native!KeyClear, Native!KeySeed,
        Native!KeyBackend, Native!KeyIgnored, Native!KeyEscape, Native!Reads
  <2>2. escape' = escape \/ escape' = <<Head(wire)>>
    BY <1>3
    DEF Native!ReadKey, Native!KeySetting, Native!KeyClear, Native!KeySeed,
        Native!KeyBackend, Native!KeyIgnored, Native!KeyEscape, Native!Reads
  <2>3. /\ wire' \in Seq(Bytes) /\ Len(wire') = Len(wire) - 1 /\ Len(wire) > 0
        /\ Head(wire) \in Bytes
    BY <1>t, <2>1, FirstByte
  <2>4. EscapeBytes = 0
    BY <2>1 DEF EscapeBytes
  <2>5. escape' \in Seq(Bytes) /\ Len(escape') <= 1 /\ EscapeBytes' \in 0..1
    <3>1. CASE escape' = <<>>
      BY <3>1 DEF EscapeBytes
    <3>2. CASE escape' = <<Head(wire)>>
      BY <2>3, <3>2 DEF EscapeBytes
    <3> QED BY <2>1, <2>2, <3>1, <3>2
  <2>6. Spent' = 3 * presses' - Len(wire') - EscapeBytes'
    BY DEF Spent
  <2>7. Spent' \in Nat /\ Spent <= Spent'
    BY <1>t, <1>p, <2>1, <2>3, <2>4, <2>5, <2>6
  <2>8. Near(emitter', Spent')
    BY <1>t, <2>1, <2>7, NearGrows
  <2>9. ASSUME user' \in UserRecords PROVE NativeTyped'
    BY <1>n, <1>t, <2>1, <2>3, <2>5, <2>7, <2>8, <2>9
  <2>10. CASE Native!KeySetting
    <3>1. /\ UNCHANGED <<grid, frame, backend>> /\ user' = Native!Setting(Head(wire).code, user)
          /\ Head(wire).code \in Native!SettingCodes
      BY <2>10 DEF Native!KeySetting, Native!Reads, Native!world
    <3> QED
      BY <1>t, <1>w, <2>1, <2>9, <3>1, SettingType DEF WorldMoves, ObjectsTyped
  <2>11. CASE Native!KeyClear
    <3>1. UNCHANGED <<backend, user>> /\ grid' = Cleared /\ frame' = 0
      BY <2>11, NativeOperators DEF Native!KeyClear
    <3> QED BY <1>t, <1>w, <2>1, <2>9, <3>1 DEF WorldMoves, Clears, ObjectsTyped
  <2>12. CASE Native!KeySeed
    <3>1. UNCHANGED <<backend, user>> /\ frame' = 0
      BY <2>12 DEF Native!KeySeed
    <3>2. PICK fill0 \in SeedFills : grid' = Seeded(Cleared, fill0)
      BY <2>12, NativeOperators DEF Native!KeySeed
    <3>3. Cleared \in Grids /\ Closed(Cleared)
      BY <1>w, EditsType, BorderStaysClosed DEF WorldTyped
    <3>4. grid' = Seeded(grid, fill0)
      BY <1>w, <3>2, <3>3, SeededForgets DEF WorldTyped
    <3> QED BY <1>t, <1>w, <2>1, <2>9, <3>1, <3>4 DEF WorldMoves, Reseeds, ObjectsTyped
  <2>13. CASE Native!KeyBackend
    <3>1. UNCHANGED <<grid, frame, user>>
      BY <2>13 DEF Native!KeyBackend, Native!world
    <3>2. PICK id \in BackendIds : backend' = backend \/ backend' \in createBackend(id)
      <4>1. Native!BackendOf[Head(wire).code] \in BackendIds
        BY <2>13 DEF Native!KeyBackend, Native!Reads, Native!BackendOf, BackendIds
      <4> QED BY <4>1, <2>13, NativeOperators DEF Native!KeyBackend
    <3> QED
      BY <1>t, <1>w, <2>1, <2>9, <3>1, <3>2, CreatedType DEF WorldMoves, ObjectsTyped
  <2>14. CASE Native!KeyIgnored \/ Native!KeyEscape
    <3>1. UNCHANGED <<grid, frame, backend, user>>
      BY <2>14 DEF Native!KeyIgnored, Native!KeyEscape, Native!world
    <3> QED BY <1>t, <1>w, <2>1, <2>9, <3>1 DEF WorldMoves, ObjectsTyped
  <2> QED BY <1>3, <2>10, <2>11, <2>12, <2>13, <2>14 DEF Native!ReadKey
<1>4. CASE Native!PollFirst \/ Native!PollSecond
  <2>1. UNCHANGED <<grid, frame, backend, probes, user, pc, presses>>
    BY <1>4 DEF Native!PollFirst, Native!PollSecond, Native!world
  <2>2. PICK byte \in Native!Pollable :
          /\ Native!Polls(byte)
          /\ \/ Len(escape) = 1 /\ escape' = Append(escape, byte) /\ emitter' = emitter
             \/ /\ Len(escape) = 2 /\ escape' = <<>>
                /\ emitter' = IF escape[2].code = "[" THEN Native!Moved(emitter, byte.code) ELSE emitter
    BY <1>4 DEF Native!PollFirst, Native!PollSecond
  <2>3. \/ /\ byte \in Bytes /\ wire' \in Seq(Bytes)
           /\ Len(wire') = Len(wire) - 1 /\ Len(wire) > 0 /\ torn' = torn
        \/ byte = Native!NoByte /\ torn' = TRUE /\ wire' = wire
    BY <1>t, <2>2, FirstByte DEF Native!Polls
  <2>4. byte \in Bytes /\ torn' \in BOOLEAN
    <3>1. Native!NoByte \in Bytes
      BY DEF Native!NoByte, Bytes
    <3> QED BY <1>t, <2>3, <3>1
  <2>5. wire' \in Seq(Bytes) /\ Len(wire') \in Nat
    BY <1>t, <2>3
  <2>6. Spent' = 3 * presses' - Len(wire') - EscapeBytes'
    BY DEF Spent
  <2>7. CASE Len(escape) = 1 /\ escape' = Append(escape, byte) /\ emitter' = emitter
    <3>1. /\ escape' \in Seq(Bytes) /\ Len(escape') = 2 /\ escape'[2] = byte
      BY <1>t, <2>4, <2>7, AppendedSecond, Zenon
    <3>0. EscapeBytes = 1
      BY <2>7 DEF EscapeBytes
    <3>2. EscapeBytes' = IF byte.code = "none" THEN 1 ELSE 2
      BY <3>1 DEF EscapeBytes
    <3>3. Len(wire') = Len(wire) \/ Len(wire') = Len(wire) - 1
      BY <2>3
    <3>4. byte.code = "none" \/ Len(wire') = Len(wire) - 1
      BY <2>3 DEF Native!NoByte
    <3>5. Spent' \in Nat /\ Spent <= Spent'
      BY <1>t, <1>p, <2>1, <2>5, <2>6, <3>0, <3>2, <3>3, <3>4
    <3>6. Near(emitter', Spent')
      BY <1>t, <2>7, <3>5, NearGrows
    <3> QED
      BY <1>n, <1>t, <1>w, <2>1, <2>4, <2>5, <3>1, <3>5, <3>6
      DEF WorldMoves, ObjectsTyped
  <2>8. CASE /\ Len(escape) = 2 /\ escape' = <<>>
             /\ emitter' = IF escape[2].code = "[" THEN Native!Moved(emitter, byte.code) ELSE emitter
    <3>1. EscapeBytes' = 0 /\ escape' \in Seq(Bytes) /\ Len(escape') = 0
      BY <2>8 DEF EscapeBytes
    <3>2. escape[2].code = "[" => EscapeBytes = 2
      BY <2>8 DEF EscapeBytes
    <3>3. Len(wire') = Len(wire) \/ Len(wire') = Len(wire) - 1
      BY <2>3
    <3>4. Spent' \in Nat /\ Spent <= Spent'
      BY <1>t, <1>p, <2>1, <2>5, <2>6, <3>1, <3>3
    <3>7. Near(emitter', Spent')
      <4>1. CASE escape[2].code = "[" /\ byte.code \in {"A", "B", "C", "D"}
        <5>1. Len(wire') = Len(wire) - 1
          BY <2>3, <4>1 DEF Native!NoByte
        <5>2. Spent' = Spent + 3
          BY <1>t, <1>p, <2>1, <2>6, <3>1, <3>2, <4>1, <5>1
        <5>3. Near(Native!Moved(emitter, byte.code), Spent + 3)
          BY <1>t, MovedNear
        <5>4. emitter' = Native!Moved(emitter, byte.code)
          BY <2>8, <4>1
        <5> QED BY <5>2, <5>3, <5>4, Zenon
      <4>2. CASE ~(escape[2].code = "[" /\ byte.code \in {"A", "B", "C", "D"})
        <5>1. emitter' = emitter
          BY <1>t, <2>8, <4>2, MovedNear
        <5>2. Near(emitter, Spent')
          BY <1>t, <3>4, NearGrows
        <5> QED BY <5>1, <5>2, Zenon
      <4> QED BY <4>1, <4>2
    <3> QED
      BY <1>n, <1>t, <1>w, <2>1, <2>4, <2>5, <3>1, <3>4, <3>7
      DEF WorldMoves, ObjectsTyped
  <2> QED BY <2>2, <2>7, <2>8
<1>5. CASE Native!NoKey
  <2>1. /\ UNCHANGED <<grid, frame, backend, probes, user, emitter, wire, escape, presses, torn>>
        /\ pc' = "paint"
    BY <1>5 DEF Native!NoKey, Native!world
  <2> QED BY <1>u, <1>w, <2>1 DEF WorldMoves, ObjectsTyped
<1>6. CASE Native!Paint
  <2>1. /\ UNCHANGED <<frame, backend, probes, user, wire, escape, presses, torn>>
        /\ pc' = "step" /\ emitter' = Native!Clamp(emitter)
    BY <1>6 DEF Native!Paint
  <2>2. emitter' \in Native!Interiors
    <3>1. emitter \in Int \X Int
      BY <1>t DEF Near
    <3> QED BY <2>1, <3>1, ClampIntoInterior
  <2>3. grid' = grid \/ grid' = Painted(grid, emitter', user.brush, user.material)
    BY <1>6, NativeOperators DEF Native!Paint
  <2>4. user.brush \in Brushes /\ user.material \in Cells
    BY <1>t DEF UserRecords, Brushes
  <2>5. WorldMoves
    BY <2>1, <2>2, <2>3, <2>4, InteriorNear DEF WorldMoves, Paints
  <2>6. EscapeBytes' = EscapeBytes /\ Spent' = Spent
    BY <2>1 DEF EscapeBytes, Spent
  <2>7. Near(emitter', Spent')
    BY <1>t, <2>2, <2>6, InteriorNear
  <2> QED
    BY <1>n, <1>t, <1>w, <2>1, <2>5, <2>6, <2>7 DEF ObjectsTyped
<1>7. CASE Native!StepAndDraw
  <2>1. /\ UNCHANGED <<probes, user, emitter, wire, escape, presses, torn>>
        /\ pc' \in {"input", "ended"}
    BY <1>7 DEF Native!StepAndDraw
  <2>2. CASE UNCHANGED <<grid, frame, backend>>
    BY <1>u, <1>w, <2>1, <2>2 DEF WorldMoves, ObjectsTyped
  <2>3. CASE \E made \in StepOutcomes(backend, grid, frame) :
                backend' = made.backend /\ grid' = made.grid /\ frame' = made.frame
    <3>1. PICK made \in StepOutcomes(backend, grid, frame) :
                 backend' = made.backend /\ grid' = made.grid /\ frame' = made.frame
      BY <2>3
    <3>2. WorldMoves /\ backend' \in Objects
      BY <1>w, <3>1, OutcomesOfStep, NextOfType
      DEF WorldMoves, Advances, Breaks, WorldTyped, Closed
    <3> QED BY <1>u, <1>w, <2>1, <3>2 DEF ObjectsTyped
  <2> QED BY <1>7, <2>2, <2>3, NativeOperators DEF Native!StepAndDraw
<1> QED
  BY <1>1, <1>2, <1>3, <1>4, <1>5, <1>6, <1>7 DEF NativeProgram, Native!Next, Native!Loop

\* What handlers write into S.
LEMMA PageRecordsType ==
  ASSUME NEW s \in PageRecords
  PROVE  /\ \A m \in Cells : [s EXCEPT !.material = m] \in PageRecords
         /\ \A r \in Radii : [s EXCEPT !.brush = r] \in PageRecords
         /\ \A id \in BackendIds : /\ [s EXCEPT !.backend = id] \in PageRecords
                                   /\ \A m \in Cells : [s EXCEPT !.ready = TRUE, !.material = m, !.backend = id] \in PageRecords
         /\ \A b \in BOOLEAN : [s EXCEPT !.paused = b] \in PageRecords
         /\ \A p \in Coords \cup {Web!NoPoint} :
              /\ [s EXCEPT !.last = p] \in PageRecords
              /\ \A b \in BOOLEAN : [s EXCEPT !.pointerDown = b, !.last = p] \in PageRecords
         /\ s.material \in Cells /\ s.brush \in Radii /\ s.pointerDown \in BOOLEAN
         /\ s.paused \in BOOLEAN /\ s.last \in Coords \cup {Web!NoPoint}
BY DEF PageRecords

LEMMA FirstCentre ==
  ASSUME NEW path \in Seq(Coords), path # <<>>
  PROVE  Head(path) \in Coords /\ Tail(path) \in Seq(Coords)
OBVIOUS

\* What a handler may paint: nothing, or a stroke without gaps.
Paintable(last, path) == path \in Seq(Coords) /\ (path = <<>> \/ Joined(last, path))

LEMMA PaintAtType ==
  ASSUME NEW last \in Coords \cup {Web!NoPoint}, NEW p
  PROVE  Paintable(last, Web!PaintAt(last, p)) /\ Paintable(last, <<>>)
<1>0. Paintable(last, <<>>)
  BY DEF Paintable
<1>1. CASE S.ready /\ p \in Coords
  BY <1>0, <1>1, SegmentJoins, WebOperators DEF Web!PaintAt, Joined, Paintable
<1>2. CASE ~(S.ready /\ p \in Coords)
  <2>1. Web!PaintAt(last, p) = <<>>
    BY <1>2, WebOperators DEF Web!PaintAt
  <2> QED BY <1>0, <2>1, Zenon
<1> QED BY <1>1, <1>2

\* Every pointer event is a Pointer with a path that stays on the grid.
LEMMA PointerEvents ==
  ASSUME S \in PageRecords, Web!PointerEvent
  PROVE  /\ hand' \in {"up", "mouse"} \cup Web!Fingers
            \/ hand' = hand
         /\ cancelled' \in BOOLEAN \/ cancelled' = cancelled
         /\ \E down \in BOOLEAN, last \in Coords \cup {Web!NoPoint} : \E path :
                        Paintable(last, path) /\ Web!Pointer(down, last, path)
<1>s. /\ S.pointerDown \in BOOLEAN /\ S.last \in Coords \cup {Web!NoPoint}
      /\ Web!NoPoint \in Coords \cup {Web!NoPoint}
  <2>1. Web!NoPoint \in Coords \cup {Web!NoPoint}
    BY Zenon
  <2> QED BY <2>1, PageRecordsType, Zenon
<1>p. \A last \in Coords \cup {Web!NoPoint} : \A p :
         Paintable(last, Web!PaintAt(last, p)) /\ Paintable(last, <<>>)
  BY PaintAtType
<1>1. CASE \E q \in Points : Web!MouseDown(q)
  <2>1. PICK q \in Points : Web!MouseDown(q)
    BY <1>1
  <2>2. Web!Pointer(TRUE, Web!NoPoint, Web!PaintAt(Web!NoPoint, q))
    BY <2>1 DEF Web!MouseDown
  <2>3. hand' = "mouse" /\ cancelled' = cancelled
    BY <2>1 DEF Web!MouseDown
  <2> QED BY <1>s, <1>p, <2>2, <2>3, Zenon
<1>2. CASE \E q \in Points : Web!MouseMove(q)
  <2>1. PICK q \in Points : Web!MouseMove(q)
    BY <1>2
  <2>2. Web!Pointer(S.pointerDown, S.last, IF S.pointerDown THEN Web!PaintAt(S.last, q) ELSE <<>>)
    BY <2>1 DEF Web!MouseMove
  <2>3. UNCHANGED <<hand, cancelled>>
    BY <2>1 DEF Web!MouseMove
  <2>4. Paintable(S.last, IF S.pointerDown THEN Web!PaintAt(S.last, q) ELSE <<>>)
    BY <1>s, <1>p, Zenon
  <2> QED BY <1>s, <2>2, <2>3, <2>4, Zenon
<1>3. CASE \E q \in Points : Web!TouchStart(q)
  <2>1. PICK q \in Points : Web!TouchStart(q)
    BY <1>3
  <2>2. Web!Pointer(TRUE, Web!NoPoint, Web!PaintAt(Web!NoPoint, q))
    BY <2>1 DEF Web!TouchStart
  <2>3. hand' \in Web!Fingers /\ cancelled' = cancelled
    BY <2>1 DEF Web!TouchStart, Web!Fingers
  <2> QED BY <1>s, <1>p, <2>2, <2>3, Zenon
<1>4. CASE \E q \in Points : Web!TouchMove(q)
  <2>1. PICK q \in Points : Web!TouchMove(q)
    BY <1>4
  <2>2. Web!Pointer(S.pointerDown, S.last, Web!PaintAt(S.last, q))
    BY <2>1 DEF Web!TouchMove
  <2>3. UNCHANGED <<hand, cancelled>>
    BY <2>1 DEF Web!TouchMove
  <2> QED BY <1>s, <1>p, <2>2, <2>3, Zenon
<1>5. CASE Web!MouseUp \/ Web!MouseLeave \/ Web!TouchEnd \/ Web!TouchCancel
  <2>1. \E down \in BOOLEAN, last \in Coords \cup {Web!NoPoint} : Web!Pointer(down, last, <<>>)
    BY <1>5, <1>s, Zenon DEF Web!MouseUp, Web!MouseLeave, Web!TouchEnd, Web!TouchCancel
  <2>2. hand' \in {"up", "finger", hand}
    BY <1>5 DEF Web!MouseUp, Web!MouseLeave, Web!TouchEnd, Web!TouchCancel, Web!OneFewer
  <2>3. cancelled' \in BOOLEAN \/ cancelled' = cancelled
    BY <1>5 DEF Web!MouseUp, Web!MouseLeave, Web!TouchEnd, Web!TouchCancel
  <2>4. hand' \in {"up", "mouse"} \cup Web!Fingers \/ hand' = hand
    BY <2>2 DEF Web!Fingers
  <2> QED BY <1>s, <1>p, <2>1, <2>3, <2>4, Zenon
<1> QED BY <1>1, <1>2, <1>3, <1>4, <1>5, Zenon DEF Web!PointerEvent

LEMMA InputsCount ==
  ASSUME NEW m \in Nat, NEW i \in 0..m, NEW t \in 0..i
  PROVE  /\ i < m => i + 1 \in 0..m /\ t \in 0..(i + 1) /\ t + 1 \in 0..(i + 1)
         /\ t > 0 => t - 1 \in 0..i
OBVIOUS

\* A step of the page.
LEMMA WebSteps ==
  ASSUME Typed, WebProgram(Web!Next)
  PROVE  WebTyped' /\ WorldMoves /\ ObjectsTyped'
<1>t. /\ S \in PageRecords /\ backendId \in BackendIds
      /\ stroke \in Seq(Coords)
      /\ note \in {"", "backend", "paused"}
      /\ inputs \in 0..MaxInputs /\ timers \in 0..inputs
      /\ hand \in {"up", "mouse"} \cup Web!Fingers /\ cancelled \in BOOLEAN
      /\ MaxInputs \in Nat
  BY WebAssumption DEF Typed, WebTyped
<1>w. WorldTyped /\ backend \in Objects /\ probes \in [BackendIds -> BOOLEAN]
  BY DEF Typed
<1>c. WorldTyped => Closed(Cleared) /\ Cleared \in Grids
  BY EditsType, BorderStaysClosed DEF WorldTyped
\* What an input counts for.
<1>i. ASSUME Web!Input, timers' = timers \/ timers' = timers + 1
      PROVE  inputs' \in 0..MaxInputs /\ timers' \in 0..inputs'
  <2>1. inputs < MaxInputs /\ inputs' = inputs + 1
    BY <1>i DEF Web!Input
  <2> QED BY <1>t, <1>i, <2>1, InputsCount, Zenon
<1>1. CASE Web!Boot
  <2>1. /\ UNCHANGED <<canvas, stroke, note, timers, hand, cancelled, inputs>>
        /\ backendId' = "Naive" /\ frame' = 0
        /\ S' = [S EXCEPT !.ready = TRUE, !.material = Web!Sand, !.backend = "Naive"]
        /\ probes' \in Probes /\ backend' \in createBackend("Naive")
    BY <1>1, WebOperators DEF Web!Boot
  <2>2. PICK fill0 \in SeedFills : grid' = Seeded(Cleared, fill0)
    BY <1>1, WebOperators DEF Web!Boot
  <2>3. grid' = Seeded(grid, fill0)
    BY <1>w, <1>c, <2>2, SeededForgets DEF WorldTyped
  <2>4. Web!Sand \in Cells /\ "Naive" \in BackendIds
    BY DEF Web!Sand, Cells, BackendIds
  <2>5. S' \in PageRecords
    BY <1>t, <2>1, <2>4, PageRecordsType, Zenon
  <2>6. WorldMoves
    BY <2>1, <2>3 DEF WorldMoves, Reseeds
  <2>7. ObjectsTyped'
    BY <2>1, <2>4, CreatedType DEF ObjectsTyped
  <2> QED BY <1>t, <2>1, <2>4, <2>5, <2>6, <2>7 DEF WebTyped
<1>2. CASE Web!PaintNext
  <2>1. /\ UNCHANGED <<frame, backend, probes, backendId, note, timers, hand, cancelled, inputs>>
        /\ stroke # <<>> /\ stroke' = Tail(stroke)
        /\ grid' = Painted(grid, Head(stroke), S.brush, S.material)
        /\ S' = S \/ S' = [S EXCEPT !.last = Head(stroke)]
    BY <1>2, WebOperators DEF Web!PaintNext
  <2>2. Head(stroke) \in Coords /\ Tail(stroke) \in Seq(Coords)
    BY <1>t, <2>1, FirstCentre
  <2>3. S.brush \in Brushes /\ S.material \in Cells
    BY <1>t, PageRecordsType DEF Brushes
  <2>4. WorldMoves
    BY <2>1, <2>2, <2>3 DEF WorldMoves, Paints
  <2>5. S' \in PageRecords
    <3>1. [S EXCEPT !.last = Head(stroke)] \in PageRecords
      BY <1>t, <2>2, PageRecordsType
    <3>2. S' = S \/ S' = [S EXCEPT !.last = Head(stroke)]
      BY <2>1
    <3> QED BY <1>t, <3>1, <3>2, Zenon
  <2> QED BY <1>t, <1>w, <2>1, <2>2, <2>4, <2>5 DEF WebTyped, ObjectsTyped
<1>3. CASE Web!TimerFires
  <2>1. /\ UNCHANGED <<grid, frame, backend, probes, backendId, S, stroke, hand, cancelled, inputs>>
        /\ note' = "" /\ timers > 0 /\ timers' = timers - 1
    BY <1>3 DEF Web!TimerFires, Web!world
  <2>2. timers' \in 0..inputs'
    <3>1. timers - 1 \in 0..inputs
      BY <1>t, <2>1, InputsCount, Zenon
    <3>2. timers' = timers - 1 /\ inputs' = inputs
      BY <2>1
    <3> QED BY <3>1, <3>2, Zenon
  <2> QED BY <1>t, <1>w, <2>1, <2>2 DEF WebTyped, WorldMoves, ObjectsTyped
<1>4. CASE Web!FrameCallback
  <2>1. UNCHANGED <<probes, backendId, S, stroke, note, timers, hand, cancelled, inputs>>
    BY <1>4 DEF Web!FrameCallback
  <2>2. CASE UNCHANGED <<grid, frame, backend>>
    BY <1>t, <1>w, <2>1, <2>2 DEF WebTyped, WorldMoves, ObjectsTyped
  <2>3. CASE \E made \in StepOutcomes(backend, grid, frame) :
                backend' = made.backend /\ grid' = made.grid /\ frame' = made.frame
    <3>1. PICK made \in StepOutcomes(backend, grid, frame) :
                 backend' = made.backend /\ grid' = made.grid /\ frame' = made.frame
      BY <2>3
    <3>2. WorldMoves /\ backend' \in Objects
      BY <1>w, <3>1, OutcomesOfStep, NextOfType
      DEF WorldMoves, Advances, Breaks, WorldTyped, Closed
    <3> QED BY <1>t, <1>w, <2>1, <3>2 DEF WebTyped, ObjectsTyped
  <2> QED BY <1>4, <2>2, <2>3, WebOperators DEF Web!FrameCallback
<1>5. CASE Web!PointerEvent
  <2>0. PICK down \in BOOLEAN, last \in Coords \cup {Web!NoPoint} :
          \E path : path \in Seq(Coords) /\ Web!Pointer(down, last, path)
    BY <1>5, <1>t, PointerEvents, Zenon DEF Paintable
  <2>1. PICK path : path \in Seq(Coords) /\ Web!Pointer(down, last, path)
    BY <2>0
  <2>2. /\ Web!Input /\ S' = [S EXCEPT !.pointerDown = down, !.last = last]
        /\ stroke' = path /\ path \in Seq(Coords)
        /\ UNCHANGED <<grid, frame, backend, probes, backendId, note, timers>>
    BY <2>1 DEF Web!Pointer, Web!world
  <2>3. hand' \in {"up", "mouse"} \cup Web!Fingers /\ cancelled' \in BOOLEAN
    BY <1>5, <1>t, PointerEvents, Zenon
  <2>4. S' \in PageRecords
    BY <1>t, <2>2, PageRecordsType, Zenon
  <2>5. inputs' \in 0..MaxInputs /\ timers' \in 0..inputs'
    BY <1>i, <2>2
  <2> QED BY <1>t, <1>w, <2>2, <2>3, <2>4, <2>5 DEF WebTyped, WorldMoves, ObjectsTyped
<1>6. CASE \E id \in Web!BackendIds : Web!SelectBackend(id)
  <2>1. PICK id \in BackendIds : Web!SelectBackend(id)
    BY <1>6, WebOperators
  <2>2. /\ Web!Input
        /\ \/ backend' \in createBackend(id) /\ backendId' = id /\ S' = [S EXCEPT !.backend = id]
           \/ UNCHANGED <<backend, backendId, S>>
        /\ note' = "backend" /\ timers' = timers + 1
        /\ UNCHANGED <<grid, frame, probes, stroke, hand, cancelled>>
    BY <2>1, WebOperators DEF Web!SelectBackend, Web!brSetBackend, Web!world
  <2>3. S' \in PageRecords
    BY <1>t, <2>2, PageRecordsType, Zenon
  <2>4. inputs' \in 0..MaxInputs /\ timers' \in 0..inputs'
    BY <1>i, <2>2
  <2>5. ObjectsTyped' /\ backendId' \in BackendIds
    BY <1>t, <1>w, <2>2, CreatedType DEF ObjectsTyped
  <2> QED BY <1>t, <2>2, <2>3, <2>4, <2>5 DEF WebTyped, WorldMoves
<1>7. CASE \/ \E m \in Materials : Web!SelectMaterial(m)
           \/ \E r \in Radii : Web!Slide(r)
  <2>1. /\ Web!Input
        /\ UNCHANGED <<grid, frame, backend, probes, backendId, stroke, note, timers, hand, cancelled>>
    BY <1>7 DEF Web!SelectMaterial, Web!Slide, Web!world
  <2>2. \/ \E m \in Cells : S' = [S EXCEPT !.material = m]
        \/ \E r \in Radii : S' = [S EXCEPT !.brush = r]
    BY <1>7, InputAssumption DEF Web!SelectMaterial, Web!Slide
  <2>3. S' \in PageRecords
    BY <1>t, <2>2, PageRecordsType, Zenon
  <2>4. inputs' \in 0..MaxInputs /\ timers' \in 0..inputs'
    BY <1>i, <2>1
  <2> QED BY <1>t, <1>w, <2>1, <2>3, <2>4 DEF WebTyped, WorldMoves, ObjectsTyped
<1>8. CASE Web!KeyPause
  <2>1. /\ Web!Input /\ S' = [S EXCEPT !.paused = ~S.paused]
        /\ note' \in {"paused", ""}
        /\ UNCHANGED <<grid, frame, backend, probes, backendId, stroke, timers, hand, cancelled>>
    BY <1>8 DEF Web!KeyPause, Web!world
  <2>2. S' \in PageRecords
    <3>1. (~S.paused) \in BOOLEAN
      OBVIOUS
    <3> QED BY <1>t, <2>1, <3>1, PageRecordsType, Zenon
  <2>3. inputs' \in 0..MaxInputs /\ timers' \in 0..inputs'
    BY <1>i, <2>1
  <2> QED BY <1>t, <1>w, <2>1, <2>2, <2>3 DEF WebTyped, WorldMoves, ObjectsTyped
<1>9. CASE Web!KeyClear \/ Web!KeySeed
  <2>1. /\ Web!Input /\ frame' = 0
        /\ UNCHANGED <<backend, probes, backendId, S, stroke, note, timers, hand, cancelled>>
    BY <1>9 DEF Web!KeyClear, Web!KeySeed, Web!Replace
  <2>2. grid' = Cleared \/ \E fill0 \in SeedFills : grid' = Seeded(Cleared, fill0)
    BY <1>9, WebOperators DEF Web!KeyClear, Web!KeySeed, Web!Replace
  <2>3. \A fill0 : Seeded(Cleared, fill0) = Seeded(grid, fill0)
    BY <1>w, <1>c, SeededForgets DEF WorldTyped
  <2>4. WorldMoves
    BY <2>1, <2>2, <2>3 DEF WorldMoves, Clears, Reseeds
  <2>5. inputs' \in 0..MaxInputs /\ timers' \in 0..inputs'
    BY <1>i, <2>1
  <2> QED BY <1>t, <1>w, <2>1, <2>4, <2>5 DEF WebTyped, ObjectsTyped
<1> QED
  BY <1>1, <1>2, <1>3, <1>4, <1>5, <1>6, <1>7, <1>8, <1>9
  DEF WebProgram, Web!Next, Web!Browser, Web!PageEvent

-----------------------------------------------------------------------------
(* The benchmark.                                                          *)

LEMMA RowsGrow ==
  ASSUME NEW rs \in Seq(RowRecords), Len(rs) < 4, NEW row \in RowRecords
  PROVE  /\ Append(rs, row) \in Seq(RowRecords) /\ Len(Append(rs, row)) <= 4
         /\ Bench!Order[Len(rs) + 1] \in BackendIds
<1>1. PICK n \in Nat : n = Len(rs)
  OBVIOUS
<1>2. n \in {0, 1, 2, 3}
  BY <1>1
<1>3. Append(rs, row) \in Seq(RowRecords) /\ Len(Append(rs, row)) = n + 1
  BY <1>1, AppendedAt, Zenon
<1>4. n + 1 \in {1, 2, 3, 4} /\ n + 1 <= 4
  BY <1>2
<1>5. \A k \in {1, 2, 3, 4} : Bench!Order[k] \in BackendIds
  BY DEF Bench!Order, BackendIds
<1> QED BY <1>1, <1>3, <1>4, <1>5, Zenon

LEMMA OutcomeType ==
  ASSUME NEW id \in BackendIds, NEW ran \in BOOLEAN, NEW g \in Grids, NEW lost \in BOOLEAN
  PROVE  Bench!Outcome(id, ran, g, lost) \in RowRecords
BY DEF Bench!Outcome, RowRecords

\* seed() strews on a cleared grid and kindles its fire.
LEMMA KindledType ==
  ASSUME WorldTyped, NEW g \in Grids, Closed(g)
  PROVE  /\ Bench!Kindled(g) = Painted(g, Bench!FireCentre, FireRadius, Fire)
         /\ Bench!Kindled(g) \in Grids /\ Closed(Bench!Kindled(g))
<1>1. Bench!Kindled(g) = Painted(g, Bench!FireCentre, FireRadius, Fire)
  BY BenchOperators DEF Bench!Kindled
<1>2. Fire \in Cells
  BY DEF Fire, Cells
<1> QED BY <1>1, <1>2, EditsType, BorderStaysClosed

LEMMA CentreInside ==
  ASSUME FireDepth \in 1..H
  PROVE  Bench!FireCentre \in Coords
<1>1. W \div 2 \in Cols
  BY GeometryAssumption DEF Cols
<1>2. H - FireDepth \in Rows
  BY GeometryAssumption DEF Rows
<1> QED BY <1>1, <1>2 DEF Bench!FireCentre, Coords

\* A step of the benchmark.
LEMMA BenchSteps ==
  ASSUME FireDepth \in 1..H, Typed, BenchmarkProgram(Bench!Next)
  PROVE  BenchTyped' /\ WorldMoves /\ ObjectsTyped'
<1>t. /\ phase \in {"start", "create", "ok", "failed"} \cup Measuring
      /\ phase # "start" => fill \in SeedFills /\ hash \in [Frames -> NoiseWords]
      /\ rows \in Seq(RowRecords) /\ Len(rows) <= 4
      /\ phase \in Measuring => Len(rows) < 4
      /\ left \in 0..(WarmUp + Steps)
      /\ found \in [grid : Grids, frame : Frames] /\ Closed(found.grid)
  BY DEF Typed, BenchTyped
<1>w. /\ WorldTyped /\ backend \in Objects /\ probes \in [BackendIds -> BOOLEAN]
      /\ grid \in Grids /\ Closed(grid) /\ frame \in Frames
      /\ Cleared \in Grids /\ Closed(Cleared)
  BY EditsType, BorderStaysClosed DEF Typed, WorldTyped
<1>p. UNCHANGED probes
  BY DEF BenchmarkProgram
<1>1. CASE Bench!Start
  <2>1. /\ phase = "start" /\ phase' = "create"
        /\ fill' \in SeedFills /\ hash' \in [Frames -> NoiseWords]
        /\ UNCHANGED <<grid, frame, backend, rows, left, found>>
    BY <1>1, BenchOperators DEF Bench!Start
  <2>2. phase' \notin Measuring
    BY <2>1 DEF Measuring
  <2> QED BY <1>t, <1>w, <1>p, <2>1, <2>2 DEF BenchTyped, WorldMoves, ObjectsTyped, Closed
<1>2. CASE Bench!Create
  <2>1. /\ phase = "create" /\ grid' = Cleared /\ frame' = 0
        /\ UNCHANGED <<fill, hash, left, found>>
        /\ (phase' = "seed" /\ rows' = rows) \/ phase' = phase
    BY <1>2, BenchOperators DEF Bench!Create
  <2>2. Len(rows) < 4
    BY <1>2 DEF Bench!Create, Bench!Order
  <2> DEFINE id == Bench!Order[Len(rows) + 1]
             row == Bench!Outcome(id, FALSE, Cleared, FALSE)
  <2>3. Bench!Outcome("Naive", FALSE, Cleared, FALSE) \in RowRecords
    BY <1>w, OutcomeType DEF BackendIds
  <2>4. id \in BackendIds
    BY <1>t, <2>2, <2>3, RowsGrow
  <2>5. row \in RowRecords
    BY <1>w, <2>4, OutcomeType
  <2>6. Append(rows, row) \in Seq(RowRecords) /\ Len(Append(rows, row)) <= 4
    BY <1>t, <2>2, <2>5, RowsGrow
  <2>7. rows' = rows \/ rows' = Append(rows, row)
    BY <1>2, BenchOperators DEF Bench!Create
  <2>8. rows' \in Seq(RowRecords) /\ Len(rows') <= 4
    BY <1>t, <2>6, <2>7, Zenon
  <2>9. phase' \in Measuring => Len(rows') < 4
    BY <2>1, <2>2 DEF Measuring
  <2>10. backend' \in Objects
    BY <1>2, <2>4, BenchOperators, CreatedType DEF Bench!Create
  <2>11. WorldMoves
    BY <2>1 DEF WorldMoves, Clears
  <2>12. phase' \in {"start", "create", "ok", "failed"} \cup Measuring
    BY <2>1 DEF Measuring
  <2> QED
    BY <1>t, <1>w, <1>p, <2>1, <2>8, <2>9, <2>10, <2>11, <2>12
    DEF BenchTyped, ObjectsTyped, Closed
\* In the phases between, the rows stay; the backend is there and the row is not.
<1>m. ASSUME phase \in Measuring, phase' \in Measuring,
             UNCHANGED <<fill, hash, rows>>, left' \in 0..(WarmUp + Steps),
             found' \in [grid : Grids, frame : Frames], Closed(found'.grid)
      PROVE  BenchTyped'
  <2>1. phase # "start"
    BY <1>m DEF Measuring
  <2> QED BY <1>t, <1>m, <2>1 DEF BenchTyped, Closed
<1>3. CASE Bench!Seed
  <2>1. /\ phase \in Measuring /\ phase' \in Measuring /\ phase # "start"
        /\ grid' = Seeded(Cleared, fill) /\ frame' = 0
        /\ UNCHANGED <<backend, fill, hash, rows, left, found>>
    BY <1>3, BenchOperators DEF Bench!Seed, Bench!Strewn, Measuring
  <2>2. grid' = Seeded(grid, fill)
    BY <1>w, <2>1, SeededForgets
  <2>3. WorldMoves
    BY <1>t, <2>1, <2>2 DEF WorldMoves, Reseeds
  <2> QED BY <1>t, <1>w, <1>p, <1>m, <2>1, <2>3 DEF ObjectsTyped
<1>4. CASE Bench!Kindle
  <2>1. /\ phase \in Measuring /\ phase' \in Measuring
        /\ grid' = Bench!Kindled(grid) /\ left' \in {WarmUp, Steps}
        /\ found' = [grid |-> grid', frame |-> frame]
        /\ UNCHANGED <<frame, backend, fill, hash, rows>>
    BY <1>4 DEF Bench!Kindle, Measuring
  <2>2. /\ grid' = Painted(grid, Bench!FireCentre, FireRadius, Fire)
        /\ grid' \in Grids /\ Closed(grid')
    BY <1>w, <2>1, KindledType
  <2>3. /\ found' \in [grid : Grids, frame : Frames] /\ Closed(found'.grid)
        /\ left' \in 0..(WarmUp + Steps)
    BY <1>w, <2>1, <2>2, BenchmarkAssumption
  <2>4. WorldMoves
    <3>1. FireRadius \in Brushes /\ Fire \in Cells
      BY DEF Brushes, Fire, Cells
    <3> QED BY <2>1, <2>2, <3>1, CentreInside DEF WorldMoves, Paints
  <2> QED BY <1>w, <1>p, <1>m, <2>1, <2>3, <2>4 DEF ObjectsTyped
<1>5. CASE Bench!StepOnce
  <2>1. /\ phase \in Measuring /\ phase # "start" /\ left > 0 /\ left' = left - 1
        /\ grid' = NextFrame(grid, frame, hash[frame]) /\ frame' = NextOf(frame)
        /\ UNCHANGED <<backend, fill, hash, rows, phase, found>>
    BY <1>5, BenchOperators DEF Bench!StepOnce, Bench!Running, Measuring
  <2>2. left' \in 0..(WarmUp + Steps)
    BY <1>t, <2>1, BenchmarkAssumption
  <2>3. hash[frame] \in NoiseWords
    BY <1>t, <1>w, <2>1
  <2>4. WorldMoves
    BY <2>1, <2>3 DEF WorldMoves, Advances
  <2> QED BY <1>t, <1>w, <1>p, <1>m, <2>1, <2>2, <2>4 DEF ObjectsTyped
<1>6. CASE Bench!LoseDevice
  <2>1. /\ phase \in Measuring /\ ~Lost(backend) /\ backend.id = "Cuda"
        /\ backend' = [backend EXCEPT !.ok = FALSE]
        /\ grid' = found.grid /\ frame' \in {found.frame, (frame + left) % FrameMod}
        /\ UNCHANGED <<fill, hash, rows, phase, left, found>>
    BY <1>6, BenchOperators DEF Bench!LoseDevice, Bench!Running, Measuring
  <2>2. backend' \in Objects /\ Lost(backend')
    BY <1>w, <2>1 DEF Objects, Lost
  <2>3. (frame + left) % FrameMod \in Frames
    BY <1>t, <1>w, InputAssumption, BenchmarkAssumption DEF Frames
  <2>4. frame' \in Frames /\ grid' \in Grids /\ Closed(grid')
    BY <1>t, <2>1, <2>3
  <2>5. WorldMoves
    BY <2>1, <2>2, <2>4 DEF WorldMoves, Breaks
  <2> QED BY <1>t, <1>w, <1>p, <1>m, <2>1, <2>2, <2>5 DEF ObjectsTyped
<1>7. CASE Bench!WarmedUp
  <2>1. /\ phase \in Measuring /\ phase' \in Measuring /\ left' = 0
        /\ UNCHANGED <<grid, frame, backend, fill, hash, rows, found>>
    BY <1>7 DEF Bench!WarmedUp, Measuring
  <2>2. left' \in 0..(WarmUp + Steps)
    BY <2>1, BenchmarkAssumption
  <2> QED BY <1>t, <1>w, <1>p, <1>m, <2>1, <2>2 DEF WorldMoves, ObjectsTyped
<1>8. CASE Bench!Measured
  <2>1. /\ phase \in Measuring /\ phase # "start" /\ phase' = "create" /\ left' = 0
        /\ rows' = Append(rows, Bench!Outcome(backend.id, TRUE, grid, Lost(backend)))
        /\ UNCHANGED <<grid, frame, backend, fill, hash, found>>
    BY <1>8, BenchOperators DEF Bench!Measured, Measuring
  <2>2. backend.id \in BackendIds /\ Lost(backend) \in BOOLEAN
    BY <1>w DEF Objects, Lost
  <2>3. Bench!Outcome(backend.id, TRUE, grid, Lost(backend)) \in RowRecords
    BY <1>w, <2>2, OutcomeType
  <2>4. rows' \in Seq(RowRecords) /\ Len(rows') <= 4
    BY <1>t, <2>1, <2>3, RowsGrow, Zenon
  <2>5. left' \in 0..(WarmUp + Steps)
    BY <2>1, BenchmarkAssumption
  <2>6. phase' \notin Measuring
    BY <2>1 DEF Measuring
  <2> QED
    BY <1>t, <1>w, <1>p, <2>1, <2>4, <2>5, <2>6 DEF BenchTyped, WorldMoves, ObjectsTyped, Closed
<1>9. CASE Bench!Report
  <2>1. /\ phase' \in {"ok", "failed"} /\ phase # "start"
        /\ UNCHANGED <<grid, frame, backend, fill, hash, rows, left, found>>
    BY <1>9 DEF Bench!Report
  <2>2. phase' \notin Measuring
    BY <2>1 DEF Measuring
  <2> QED BY <1>t, <1>w, <1>p, <2>1, <2>2 DEF BenchTyped, WorldMoves, ObjectsTyped, Closed
<1> QED
  BY <1>1, <1>2, <1>3, <1>4, <1>5, <1>6, <1>7, <1>8, <1>9 DEF BenchmarkProgram, Bench!Next

-----------------------------------------------------------------------------
(* The three together.                                                     *)

\* What a program does not run leaves its variables alone.
LEMMA OthersUntouched ==
  /\ Typed /\ UNCHANGED nativeLocals => NativeTyped'
  /\ Typed /\ UNCHANGED webLocals => WebTyped'
  /\ Typed /\ UNCHANGED benchLocals => BenchTyped'
<1>1. ASSUME Typed, UNCHANGED nativeLocals PROVE NativeTyped'
  <2>1. UNCHANGED <<user, emitter, wire, escape, pc, presses, torn>>
    BY <1>1 DEF nativeLocals
  <2>2. Spent' = Spent
    BY <2>1 DEF Spent, EscapeBytes
  <2> QED BY <1>1, <2>1, <2>2 DEF Typed, NativeTyped
<1>2. ASSUME Typed, UNCHANGED webLocals PROVE WebTyped'
  BY <1>2 DEF Typed, WebTyped, webLocals
<1>3. ASSUME Typed, UNCHANGED benchLocals PROVE BenchTyped'
  BY <1>3 DEF Typed, BenchTyped, benchLocals, Closed
<1> QED BY <1>1, <1>2, <1>3

LEMMA ProgramsStep ==
  ASSUME W > 2, H > 2, FireDepth \in 1..H, Typed, [Next]_vars
  PROVE  Typed' /\ WorldMoves
<1>1. CASE NativeProgram(Native!Next)
  <2>1. program' = program /\ UNCHANGED webLocals /\ UNCHANGED benchLocals
    BY <1>1 DEF NativeProgram
  <2>2. NativeTyped' /\ WorldMoves /\ ObjectsTyped'
    BY <1>1, NativeSteps
  <2>3. WebTyped' /\ BenchTyped'
    BY <2>1, OthersUntouched
  <2>4. WorldTyped'
    BY <2>2, WorldMovesTyped DEF Typed
  <2> QED BY <2>1, <2>2, <2>3, <2>4 DEF Typed, ObjectsTyped
<1>2. CASE WebProgram(Web!Next)
  <2>1. program' = program /\ UNCHANGED nativeLocals /\ UNCHANGED benchLocals
    BY <1>2 DEF WebProgram
  <2>2. WebTyped' /\ WorldMoves /\ ObjectsTyped'
    BY <1>2, WebSteps
  <2>3. NativeTyped' /\ BenchTyped'
    BY <2>1, OthersUntouched
  <2>4. WorldTyped'
    BY <2>2, WorldMovesTyped DEF Typed
  <2> QED BY <2>1, <2>2, <2>3, <2>4 DEF Typed, ObjectsTyped
<1>3. CASE BenchmarkProgram(Bench!Next)
  <2>1. program' = program /\ UNCHANGED nativeLocals /\ UNCHANGED webLocals
    BY <1>3 DEF BenchmarkProgram
  <2>2. BenchTyped' /\ WorldMoves /\ ObjectsTyped'
    BY <1>3, BenchSteps
  <2>3. NativeTyped' /\ WebTyped'
    BY <2>1, OthersUntouched
  <2>4. WorldTyped'
    BY <2>2, WorldMovesTyped DEF Typed
  <2> QED BY <2>1, <2>2, <2>3, <2>4 DEF Typed, ObjectsTyped
<1>4. CASE UNCHANGED vars
  <2>1. /\ UNCHANGED <<program, grid, frame, backend, probes>>
        /\ UNCHANGED nativeLocals /\ UNCHANGED webLocals /\ UNCHANGED benchLocals
    BY <1>4 DEF vars
  <2>2. WorldMoves
    BY <2>1 DEF WorldMoves
  <2>3. WorldTyped'
    BY <2>2, WorldMovesTyped DEF Typed
  <2>4. NativeTyped' /\ WebTyped' /\ BenchTyped'
    BY <2>1, OthersUntouched
  <2> QED BY <2>1, <2>2, <2>3, <2>4 DEF Typed
<1> QED BY <1>1, <1>2, <1>3, <1>4 DEF Next

LEMMA TypedInit == ASSUME W > 2, H > 2 PROVE Init => Typed
<1> SUFFICES ASSUME Init PROVE Typed
  OBVIOUS
<1>1. Cleared \in Grids
  BY DEF Cleared, Grids, Cells, Wall, Empty
<1>2. Closed(Cleared)
  BY InteriorInside DEF Closed, CellsOf, Cleared
<1>3. WorldTyped
  BY <1>1, <1>2, NextOfType, InputAssumption DEF Init, WorldTyped, Frames
<1>4. backend \in Objects /\ probes \in [BackendIds -> BOOLEAN] /\ program \in Started
  BY DEF Init, Objects, BackendIds
<1>5. NativeTyped
  <2>1. /\ user = [material |-> Native!Sand, brush |-> StartBrush, paused |-> FALSE,
                   emitting |-> TRUE, running |-> TRUE]
        /\ emitter = <<W \div 2, 6>> /\ wire = <<>> /\ escape = <<>>
        /\ pc = "start" /\ presses = 0 /\ torn = FALSE
    BY DEF Init, Native!LocalInit
  <2>2. user \in UserRecords
    BY <2>1, NativeAssumption DEF UserRecords, Native!Sand, Cells
  <2>3. wire \in Seq(Bytes) /\ escape \in Seq(Bytes) /\ Len(escape) <= 2
    BY <2>1
  <2>4. Len(wire) = 0 /\ EscapeBytes = 0
    BY <2>1 DEF EscapeBytes
  <2>5. Spent = 0
    <3>1. presses = 0
      BY <2>1
    <3> QED BY <3>1, <2>4 DEF Spent
  <2>6. /\ emitter \in Int \X Int /\ Spent >= 0
        /\ emitter[1] \in -Spent..(W + Spent) /\ emitter[2] \in -Spent..(H + 6 + Spent)
    <3>1. emitter = <<W \div 2, 6>>
      BY <2>1
    <3> QED BY <2>5, <3>1, GeometryAssumption
  <2>7. presses \in 0..MaxPresses
    BY <2>1, NativeAssumption
  <2>8. torn \in BOOLEAN /\ pc \in {"start", "input", "paint", "step", "ended"}
    BY <2>1
  <2> QED BY <2>2, <2>3, <2>6, <2>7, <2>8 DEF NativeTyped
<1>6. WebTyped
  <2>1. /\ S = [ready |-> FALSE, paused |-> FALSE, material |-> Web!Sand, brush |-> PageBrush,
                backend |-> "Naive", pointerDown |-> FALSE, last |-> Web!NoPoint]
        /\ backendId = "Naive" /\ stroke = <<>> /\ note = "" /\ timers = 0 /\ inputs = 0
        /\ hand = "up" /\ cancelled = FALSE
    BY DEF Init, Web!LocalInit
  <2>2. S \in PageRecords /\ backendId \in BackendIds
    <3>1. Web!Sand \in Cells /\ "Naive" \in BackendIds /\ PageBrush \in Radii
      BY WebAssumption DEF Web!Sand, Cells, BackendIds
    <3>2. Web!NoPoint \in Coords \cup {Web!NoPoint}
      BY Zenon
    <3> QED BY <2>1, <3>1, <3>2 DEF PageRecords
  <2>3. stroke \in Seq(Coords)
    <3>1. <<>> \in Seq(Coords)
      OBVIOUS
    <3> QED BY <2>1, <3>1, Zenon
  <2>4. inputs \in 0..MaxInputs /\ timers \in 0..inputs
    <3>1. 0 \in 0..MaxInputs /\ 0 \in 0..0
      BY WebAssumption
    <3> QED BY <2>1, <3>1, Zenon
  <2>5. /\ note \in {"", "backend", "paused"} /\ cancelled \in BOOLEAN
        /\ hand \in {"up", "mouse"} \cup Web!Fingers
    BY <2>1
  <2> QED BY <2>2, <2>3, <2>4, <2>5 DEF WebTyped
<1>7. BenchTyped
  <2>1. /\ rows = <<>> /\ phase = "start" /\ left = 0
        /\ found = [grid |-> Cleared, frame |-> 0]
    BY BenchOperators DEF Init, Bench!LocalInit
  <2>2. rows \in Seq(RowRecords) /\ Len(rows) <= 4 /\ phase \notin Measuring
    BY <2>1 DEF Measuring
  <2>3. left \in 0..(WarmUp + Steps)
    BY <2>1, BenchmarkAssumption
  <2>4. found \in [grid : Grids, frame : Frames] /\ Closed(found.grid)
    BY <1>1, <1>2, <2>1, InputAssumption DEF Frames
  <2> QED BY <2>1, <2>2, <2>3, <2>4 DEF BenchTyped
<1> QED BY <1>3, <1>4, <1>5, <1>6, <1>7 DEF Typed

LEMMA AlwaysTyped ==
  ASSUME W > 2, H > 2, FireDepth \in 1..H
  PROVE  Spec => []Typed
<1>1. Init => Typed
  BY TypedInit
<1>2. Typed /\ [Next]_vars => Typed'
  BY ProgramsStep
<1> QED BY <1>1, <1>2, PTL DEF Spec

\* Every variable of the three programs keeps its type: the brush stays between 1
\* and MaxBrush, each centre of a stroke on the canvas, and the emitter, which no
\* read clamps, no further off the grid than the bytes typed can take it.
THEOREM ProgramsTypeOK ==
  ASSUME W > 2, H > 2, FireDepth \in 1..H
  PROVE  Spec => []TypeOK
<1>1. Typed => TypeOK
  <2> SUFFICES ASSUME Typed PROVE TypeOK
    OBVIOUS
  <2>1. Native!LocalTypeOK
    <3>1. NativeTyped
      BY DEF Typed
    <3>2. user \in [material : Native!Cells, brush : 1..MaxBrush, paused : BOOLEAN,
                    emitting : BOOLEAN, running : BOOLEAN]
      BY <3>1, NativeOperators DEF NativeTyped, UserRecords
    <3>3. /\ wire \in Seq(Bytes) /\ escape \in Seq(Bytes) /\ Len(escape) <= 2
          /\ presses \in 0..MaxPresses /\ MaxPresses \in Nat /\ Spent >= 0
          /\ emitter \in Int \X Int
          /\ emitter[1] \in -Spent..(W + Spent) /\ emitter[2] \in -Spent..(H + 6 + Spent)
      BY <3>1, NativeAssumption DEF NativeTyped
    <3>4. {byte.key : byte \in Native!Range(wire) \cup Native!Range(escape)} \subseteq Keys \cup {"none"}
      <4>1. \A b \in Seq(Bytes) : \A byte \in Native!Range(b) : byte \in Bytes
        BY DEF Native!Range
      <4> QED BY <3>3, <4>1 DEF Bytes
    <3>5. Len(wire) \in Nat /\ EscapeBytes \in 0..2
      <4>1. PICK n \in Nat : n = Len(escape)
        BY <3>3
      <4>2. n <= 2 /\ EscapeBytes \in {1, n}
        BY <3>3, <4>1 DEF EscapeBytes
      <4> QED BY <3>3, <4>2
    <3>6. Len(wire) <= 3 * MaxPresses /\ Spent \in 0..(3 * MaxPresses)
      BY <3>3, <3>5 DEF Spent
    <3>7. emitter \in (-(3 * MaxPresses)..(W + 3 * MaxPresses))
                        \X (-(3 * MaxPresses)..(H + 6 + 3 * MaxPresses))
      <4>1. PICK x \in Int, y \in Int : emitter = <<x, y>>
        BY <3>3
      <4>2. x \in -Spent..(W + Spent) /\ y \in -Spent..(H + 6 + Spent)
        BY <3>3, <4>1
      <4>3. /\ x \in -(3 * MaxPresses)..(W + 3 * MaxPresses)
            /\ y \in -(3 * MaxPresses)..(H + 6 + 3 * MaxPresses)
        BY <3>3, <3>6, <4>2, GeometryAssumption
      <4> QED BY <4>1, <4>3
    <3> QED
      BY <3>1, <3>2, <3>3, <3>4, <3>6, <3>7 DEF NativeTyped, Native!LocalTypeOK
  <2>2. Web!LocalTypeOK
    <3>1. Web!Range(stroke) \subseteq Coords
      <4>1. stroke \in Seq(Coords)
        BY DEF Typed, WebTyped
      <4> QED BY <4>1 DEF Web!Range
    <3>2. timers \in 0..MaxInputs
      <4>1. inputs \in 0..MaxInputs /\ timers \in 0..inputs
        BY DEF Typed, WebTyped
      <4> QED BY <4>1, WebAssumption
    <3> QED
      BY <3>1, <3>2, WebOperators DEF Typed, WebTyped, PageRecords, Web!LocalTypeOK
  <2>3. Bench!LocalTypeOK
    <3>1. Len(rows) <= Len(Bench!Order)
      BY DEF Typed, BenchTyped, Bench!Order
    <3>2. found.grid \in Grids /\ found.frame \in Frames
      BY DEF Typed, BenchTyped
    <3> QED
      BY <3>1, <3>2, BenchOperators DEF Typed, BenchTyped, Measuring, Bench!LocalTypeOK
  <2> QED BY <2>1, <2>2, <2>3 DEF Typed, WorldTyped, TypeOK
<1> QED BY <1>1, AlwaysTyped, PTL

\* The three programs implement the abstract simulation: whatever is typed,
\* painted, chosen or lost, what they do to their world is a frame or an edit of
\* it, but for the step that loses a device.
THEOREM ProgramsSimulate ==
  ASSUME W > 2, H > 2, FireDepth \in 1..H
  PROVE  Spec => WorldsAreSimulated
<1>1. Init => World!Init
  BY WorldOperators DEF Init, World!Init
<1>2. Typed /\ [Next]_vars
        => [World!vars' # World!vars =>
              World!Next \/ (~Lost(backend) /\ Lost(backend'))]_(World!vars)
  BY ProgramsStep, WorldMovesSimulated
<1> QED BY <1>1, <1>2, AlwaysTyped, PTL DEF Spec, WorldsAreSimulated

\* A stroke has no gaps, however far the pointer jumped between two samples: the
\* rounding of paintAt never moves a centre by more than one cell either way.
THEOREM StrokesHaveNoGaps ==
  ASSUME W > 2, H > 2, FireDepth \in 1..H
  PROVE  Spec => StrokeConnected
<1>1. Typed /\ [Next]_vars
        => [stroke = <<>> /\ stroke' # <<>> =>
              Web!Connected(IF S'.last = Web!NoPoint THEN stroke'
                            ELSE <<S'.last>> \o stroke')]_(Web!vars)
  <2> SUFFICES ASSUME Typed, [Next]_vars, stroke = <<>>, stroke' # <<>>
               PROVE  Web!Connected(IF S'.last = Web!NoPoint THEN stroke'
                                    ELSE <<S'.last>> \o stroke')
    BY DEF Web!vars
  <2>1. WebProgram(Web!Next)
    BY DEF Next, NativeProgram, BenchmarkProgram, vars, webLocals
  <2>2. Web!PointerEvent
    BY <2>1
    DEF WebProgram, Web!Next, Web!Browser, Web!PageEvent, Web!Boot, Web!PaintNext,
        Web!TimerFires, Web!FrameCallback, Web!SelectBackend, Web!SelectMaterial,
        Web!Slide, Web!KeyPause, Web!KeyClear, Web!KeySeed, Web!Replace
  <2>3. S \in PageRecords
    BY DEF Typed, WebTyped
  <2>p. PICK down \in BOOLEAN, last \in Coords \cup {Web!NoPoint} :
          \E path : Paintable(last, path) /\ Web!Pointer(down, last, path)
    BY <2>2, <2>3, PointerEvents, Zenon
  <2>4. PICK path : Paintable(last, path) /\ Web!Pointer(down, last, path)
    BY <2>p
  <2>5. S' = [S EXCEPT !.pointerDown = down, !.last = last] /\ stroke' = path
    BY <2>4 DEF Web!Pointer
  <2>6. S'.last = last
    BY <2>3, <2>5 DEF PageRecords
  <2>7. Joined(last, path)
    BY <2>4, <2>5 DEF Paintable
  <2> QED BY <2>5, <2>6, <2>7, Zenon DEF Joined
<1> QED BY <1>1, AlwaysTyped, PTL DEF Spec, StrokeConnected, Web!StrokeConnected

-----------------------------------------------------------------------------
(* The rows of the benchmark depend on the seed alone.                     *)

Worlds == [grid : Grids, frame : Frames]

\* What the recursion of FramesOn computes.
LEMMA FramesOnSteps ==
  ASSUME fill \in SeedFills, hash \in [Frames -> NoiseWords]
  PROVE  /\ Bench!FramesOn[0] = [grid |-> Bench!Kindled(Bench!Strewn), frame |-> 0]
         /\ \A n \in Nat :
              /\ Bench!FramesOn[n] \in Worlds
              /\ Bench!FramesOn[n + 1] =
                   [grid  |-> NextFrame(Bench!FramesOn[n].grid, Bench!FramesOn[n].frame,
                                        hash[Bench!FramesOn[n].frame]),
                    frame |-> NextOf(Bench!FramesOn[n].frame)]
<1> DEFINE b == [grid |-> Bench!Kindled(Bench!Strewn), frame |-> 0]
           next(w) == [grid |-> NextFrame(w.grid, w.frame, hash[w.frame]),
                       frame |-> NextOf(w.frame)]
           step == [p \in Nat \X Worlds |-> next(p[2])]
           body(f) == [n \in Nat |-> IF n = 0 THEN b ELSE next(f[n - 1])]
<1>1. b \in Worlds
  <2>c. Cleared \in Grids
    BY DEF Cleared, Grids, Cells, Wall, Empty
  <2>1. Seeded(Cleared, fill) \in Grids
    BY <2>c, EditsType
  <2>2. Bench!Kindled(Bench!Strewn) \in Grids
    BY <2>1, EditsType, BenchOperators, CellsEnumerated DEF Bench!Kindled, Bench!Strewn
  <2> QED BY <2>2, NextOfType, InputAssumption DEF Worlds, Frames
<1>2. \A w \in Worlds : next(w) \in Worlds
  <2> SUFFICES ASSUME NEW w \in Worlds PROVE next(w) \in Worlds
    OBVIOUS
  <2>1. w.grid \in Grids /\ w.frame \in Frames /\ hash[w.frame] \in NoiseWords
    BY DEF Worlds
  <2> QED BY <2>1, FrameType, NextOfType DEF Worlds
<1> HIDE DEF b, next
<1>3. step \in [Nat \X Worlds -> Worlds]
  BY <1>2
<1>4. PICK f \in [Nat -> Worlds] : Iterates(f, b, step)
  <2> HIDE DEF step
  <2> QED BY <1>1, <1>3, NatRecursion
<1>5. \A n \in Nat : f[n + 1] = next(f[n])
  BY <1>4 DEF Iterates
<1>6. f = body(f)
  <2>1. \A n \in Nat : f[n] = IF n = 0 THEN b ELSE next(f[n - 1])
    BY <1>4, <1>5 DEF Iterates
  <2> QED BY <2>1
<1>7. Bench!FramesOn = body(Bench!FramesOn)
  <2>1. Bench!FramesOn = CHOOSE g : g = body(g)
    BY BenchOperators DEF Bench!FramesOn, b, next
  <2> HIDE DEF body
  <2> QED BY <1>6, <2>1
<1>8. \A n \in Nat : Bench!FramesOn[n] = IF n = 0 THEN b ELSE next(Bench!FramesOn[n - 1])
  BY <1>7
<1> DEFINE T == {n \in Nat : Bench!FramesOn[n] \in Worlds}
<1>9. T = Nat
  <2>1. 0 \in T
    BY <1>1, <1>8
  <2>2. \A n \in T : n + 1 \in T
    BY <1>2, <1>8
  <2>3. T \in SUBSET Nat
    OBVIOUS
  <2> HIDE DEF T
  <2> QED BY <2>1, <2>2, <2>3, SetInduction
<1>10. \A n \in Nat : Bench!FramesOn[n] \in Worlds /\ Bench!FramesOn[n + 1] = next(Bench!FramesOn[n])
  BY <1>8, <1>9
<1> QED BY <1>8, <1>10 DEF b, next

\* Where a row that was measured ends.
FinalOf(lost) == Bench!FramesOn[IF lost THEN 0 ELSE Steps].grid

\* After the second seed() the world is that of FramesOn, frame by frame, or that
\* of the seed once the device is lost, and so are the rows.  The naive backend is
\* always there, so that there is a first row to compare with.
RowsFromSeed(rs) ==
  /\ \A i \in 1..Len(rs) : rs[i].ran => rs[i].checksum = FinalOf(rs[i].lost)
  /\ Len(rs) > 0 => rs[1].ran

MeasureFromSeed ==
  phase = "measure" =>
    /\ left \in 0..Steps
    /\ found = Bench!FramesOn[0]
    /\ IF Lost(backend) THEN grid = Bench!FramesOn[0].grid
       ELSE [grid |-> grid, frame |-> frame] = Bench!FramesOn[Steps - left]

MeasuredInv ==
  /\ program # "benchmark" => phase = "start"
  /\ phase = "start" => rows = <<>>
  /\ phase \in {"kindle", "rekindle"} => grid = Bench!Strewn /\ frame = 0
  /\ MeasureFromSeed
  /\ RowsFromSeed(rows)
  /\ phase = "failed" => \E i \in 1..Len(rows) : rows[i].lost

LEMMA AppendedRows ==
  ASSUME NEW rs \in Seq(RowRecords), NEW row \in RowRecords, RowsFromSeed(rs),
         row.ran => row.checksum = FinalOf(row.lost),
         Len(rs) = 0 => row.ran
  PROVE  RowsFromSeed(Append(rs, row))
<1> DEFINE longer == Append(rs, row)
<1>1. PICK n \in Nat : n = Len(rs)
  OBVIOUS
<1>2. /\ longer \in Seq(RowRecords) /\ Len(longer) = n + 1 /\ longer[n + 1] = row
      /\ \A i \in 1..n : longer[i] = rs[i]
  BY <1>1
<1>3. \A i \in 1..n : rs[i].ran => rs[i].checksum = FinalOf(rs[i].lost)
  BY <1>1, Zenon DEF RowsFromSeed
<1>4. n > 0 => rs[1].ran
  BY <1>1, Zenon DEF RowsFromSeed
<1> HIDE DEF longer
<1>5. ASSUME NEW i \in 1..(n + 1), longer[i].ran
      PROVE  longer[i].checksum = FinalOf(longer[i].lost)
  <2>1. CASE i = n + 1
    <3>1. longer[i] = row
      BY <1>2, <2>1
    <3> QED BY <1>5, <3>1, Zenon
  <2>2. CASE i \in 1..n
    <3>1. longer[i] = rs[i]
      BY <1>2, <2>2
    <3> QED BY <1>3, <1>5, <2>2, <3>1, Zenon
  <2> QED BY <2>1, <2>2
<1>6. longer[1].ran
  <2>1. CASE n = 0
    <3>1. longer[1] = row
      BY <1>2, <2>1
    <3>2. row.ran
      BY <1>1, <2>1, Zenon
    <3> QED BY <3>1, <3>2, Zenon
  <2>2. CASE n > 0
    <3>1. longer[1] = rs[1]
      BY <1>2, <2>2
    <3> QED BY <1>4, <2>2, <3>1, Zenon
  <2> QED BY <2>1, <2>2
<1> QED BY <1>2, <1>5, <1>6, Zenon DEF RowsFromSeed, longer

LEMMA FramesOnStays ==
  ASSUME UNCHANGED <<fill, hash>>
  PROVE  /\ Bench!FramesOn' = Bench!FramesOn /\ Bench!Strewn' = Bench!Strewn
         /\ \A lost : FinalOf(lost)' = FinalOf(lost)
         /\ \A rs : RowsFromSeed(rs)' <=> RowsFromSeed(rs)
<1>1. Bench!Strewn' = Bench!Strewn
  BY DEF Bench!Strewn
<1>2. Bench!FramesOn' = Bench!FramesOn
  BY <1>1 DEF Bench!FramesOn
<1>3. \A lost : FinalOf(lost)' = FinalOf(lost)
  BY <1>2 DEF FinalOf
<1>4. \A rs : RowsFromSeed(rs)' <=> RowsFromSeed(rs)
  BY <1>2 DEF RowsFromSeed, FinalOf
<1> QED BY <1>1, <1>2, <1>3, <1>4

\* The first backend of the table is the naive one, which is always there.
LEMMA FirstRowRan ==
  ASSUME Typed, Bench!Create, Len(rows) = 0
  PROVE  phase' = "seed"
<1>1. Bench!Order[Len(rows) + 1] = "Naive"
  BY DEF Bench!Order
<1>2. backend' \in createBackend("Naive")
  BY <1>1, BenchOperators DEF Bench!Create
<1>3. backend'.ok = TRUE
  BY <1>2, CreatedType
<1> QED BY <1>3 DEF Bench!Create

LEMMA MeasuredSteps ==
  ASSUME Typed, MeasuredInv, BenchmarkProgram(Bench!Next)
  PROVE  MeasuredInv'
<1>t. /\ phase \in {"start", "create", "ok", "failed"} \cup Measuring
      /\ phase # "start" => fill \in SeedFills /\ hash \in [Frames -> NoiseWords]
      /\ rows \in Seq(RowRecords) /\ Len(rows) <= 4
      /\ left \in 0..(WarmUp + Steps) /\ Steps \in Nat /\ WarmUp \in Nat
      /\ found \in [grid : Grids, frame : Frames]
      /\ grid \in Grids /\ frame \in Frames /\ backend \in Objects
  BY BenchmarkAssumption DEF Typed, BenchTyped, WorldTyped
<1>i. /\ phase = "start" => rows = <<>>
      /\ phase \in {"kindle", "rekindle"} => grid = Bench!Strewn /\ frame = 0
      /\ MeasureFromSeed /\ RowsFromSeed(rows)
      /\ phase = "failed" => \E i \in 1..Len(rows) : rows[i].lost
  BY DEF MeasuredInv
<1>p. program = "benchmark" /\ program' = "benchmark"
  BY DEF BenchmarkProgram
\* A step that leaves the rows alone.
<1>r. ASSUME UNCHANGED <<fill, hash, rows>>, phase' \notin {"start", "failed"}, phase # "start",
             phase' \in {"kindle", "rekindle"} => grid' = Bench!Strewn /\ frame' = 0,
             phase' = "measure" =>
               /\ left' \in 0..Steps
               /\ found' = Bench!FramesOn[0]
               /\ IF Lost(backend') THEN grid' = Bench!FramesOn[0].grid
                  ELSE [grid |-> grid', frame |-> frame'] = Bench!FramesOn[Steps - left']
      PROVE  MeasuredInv'
  <2>1. Bench!FramesOn' = Bench!FramesOn /\ Bench!Strewn' = Bench!Strewn
    BY <1>r, FramesOnStays
  <2>2. RowsFromSeed(rows)' <=> RowsFromSeed(rows)
    BY <1>r, <2>1 DEF RowsFromSeed, FinalOf
  <2>3. MeasureFromSeed'
    BY <1>r, <2>1 DEF MeasureFromSeed, Lost
  <2> QED BY <1>i, <1>p, <1>r, <2>1, <2>2, <2>3 DEF MeasuredInv
<1>1. CASE Bench!Start
  <2>1. phase = "start" /\ phase' = "create" /\ rows' = rows /\ rows = <<>>
    BY <1>1, <1>i DEF Bench!Start
  <2>2. RowsFromSeed(rows)'
    BY <2>1 DEF RowsFromSeed
  <2>3. MeasureFromSeed'
    BY <2>1 DEF MeasureFromSeed
  <2> QED BY <1>p, <2>1, <2>2, <2>3 DEF MeasuredInv
<1>2. CASE Bench!Create
  <2>1. /\ phase = "create" /\ phase' \in {"seed", "create"}
        /\ UNCHANGED <<fill, hash, left, found>>
    BY <1>2 DEF Bench!Create
  <2>2. CASE rows' = rows
    BY <1>r, <2>1, <2>2
  <2>3. CASE rows' # rows
    <3> DEFINE id == Bench!Order[Len(rows) + 1]
               row == Bench!Outcome(id, FALSE, Cleared, FALSE)
    <3>1. /\ rows' = Append(rows, row) /\ phase' = "create" /\ Len(rows) < 4
      BY <1>2, <2>3, BenchOperators DEF Bench!Create, Bench!Order
    <3>2. Len(rows) # 0
      BY <1>2, <3>1, FirstRowRan
    <3>3. id \in BackendIds
      <4>1. Bench!Outcome("Naive", FALSE, Cleared, FALSE) \in RowRecords
        BY OutcomeType, EditsType, <1>t DEF BackendIds
      <4> QED BY <1>t, <3>1, <4>1, RowsGrow
    <3>4. row \in RowRecords /\ row.ran = FALSE
      <4>1. row \in RowRecords
        BY <1>t, <3>3, OutcomeType, EditsType
      <4> QED BY <4>1 DEF Bench!Outcome
    <3> HIDE DEF row
    <3>5. RowsFromSeed(rows')
      BY <1>i, <1>t, <3>1, <3>2, <3>4, AppendedRows
    <3>6. RowsFromSeed(rows)'
      <4>1. Bench!FramesOn' = Bench!FramesOn
        BY <2>1, FramesOnStays
      <4> QED BY <3>5, <4>1 DEF RowsFromSeed, FinalOf
    <3> QED BY <1>p, <3>1, <3>6 DEF MeasuredInv, MeasureFromSeed
  <2> QED BY <2>2, <2>3
<1>3. CASE Bench!Seed
  <2>1. /\ phase # "start" /\ phase' \in {"kindle", "rekindle"}
        /\ grid' = Bench!Strewn /\ frame' = 0 /\ UNCHANGED <<fill, hash, rows>>
    BY <1>3 DEF Bench!Seed
  <2> QED BY <1>r, <2>1
<1>4. CASE Bench!Kindle
  <2>1. /\ phase \in {"kindle", "rekindle"} /\ phase' \in {"warm up", "measure"}
        /\ grid' = Bench!Kindled(grid) /\ frame' = frame
        /\ found' = [grid |-> grid', frame |-> frame]
        /\ phase' = "measure" => left' = Steps
        /\ UNCHANGED <<fill, hash, rows>>
    BY <1>4 DEF Bench!Kindle
  <2>2. found' = Bench!FramesOn[0] /\ found' = [grid |-> grid', frame |-> frame']
    BY <1>i, <1>t, <2>1, FramesOnSteps
  <2>3. Steps \in 0..Steps /\ Steps - Steps = 0
    BY <1>t
  <2>4. grid' = Bench!FramesOn[0].grid
    BY <2>2
  <2> QED BY <1>r, <2>1, <2>2, <2>3, <2>4
<1>5. CASE Bench!StepOnce
  <2>1. /\ phase \in {"warm up", "measure"} /\ left > 0 /\ left' = left - 1 /\ ~Lost(backend)
        /\ grid' = NextFrame(grid, frame, hash[frame]) /\ frame' = NextOf(frame)
        /\ UNCHANGED <<backend, fill, hash, rows, phase, found>>
    BY <1>5, BenchOperators DEF Bench!StepOnce, Bench!Running
  <2>2. CASE phase = "measure"
    <3>1. /\ left \in 0..Steps /\ found = Bench!FramesOn[0]
          /\ [grid |-> grid, frame |-> frame] = Bench!FramesOn[Steps - left]
      BY <1>i, <2>1, <2>2 DEF MeasureFromSeed
    <3> DEFINE n == Steps - left
    <3>2. n \in Nat /\ n + 1 = Steps - left' /\ left' \in 0..Steps
      <4>1. left > 0 /\ left' = left - 1
        BY <2>1, Zenon
      <4>2. left \in 0..Steps
        BY <3>1, Zenon
      <4> QED BY <4>1, <4>2, BenchmarkAssumption
    <3> HIDE DEF n
    <3>3. Bench!FramesOn[n].grid = grid /\ Bench!FramesOn[n].frame = frame
      BY <3>1 DEF n
    <3>4. Bench!FramesOn[n + 1] = [grid |-> grid', frame |-> frame']
      BY <1>t, <2>1, <3>2, <3>3, FramesOnSteps
    <3>5. ~Lost(backend')
      BY <2>1
    <3> QED BY <1>r, <2>1, <2>2, <3>1, <3>2, <3>4, <3>5
  <2>3. CASE phase = "warm up"
    BY <1>r, <2>1, <2>3
  <2> QED BY <2>1, <2>2, <2>3
<1>6. CASE Bench!LoseDevice
  <2>1. /\ phase \in {"warm up", "measure"} /\ backend.id = "Cuda"
        /\ backend' = [backend EXCEPT !.ok = FALSE]
        /\ grid' = found.grid
        /\ UNCHANGED <<fill, hash, rows, phase, left, found>>
    BY <1>6 DEF Bench!LoseDevice, Bench!Running
  <2>2. Lost(backend')
    BY <1>t, <2>1 DEF Objects, Lost
  <2>3. phase = "measure" => left \in 0..Steps /\ found = Bench!FramesOn[0]
    BY <1>i DEF MeasureFromSeed
  <2> QED BY <1>r, <2>1, <2>2, <2>3
<1>7. CASE Bench!WarmedUp
  <2>1. phase = "warm up" /\ phase' = "reseed" /\ UNCHANGED <<fill, hash, rows>>
    BY <1>7 DEF Bench!WarmedUp
  <2> QED BY <1>r, <2>1
<1>8. CASE Bench!Measured
  <2> DEFINE row == Bench!Outcome(backend.id, TRUE, grid, Lost(backend))
  <2>1. /\ phase = "measure" /\ phase' = "create" /\ rows' = Append(rows, row)
        /\ left = 0 \/ Lost(backend)
        /\ UNCHANGED <<fill, hash>>
    BY <1>8, BenchOperators DEF Bench!Measured, Bench!Finished
  <2>2. backend.id \in BackendIds /\ Lost(backend) \in BOOLEAN
    BY <1>t DEF Objects, Lost
  <2>3. row \in RowRecords
    BY <1>t, <2>2, OutcomeType
  <2>4. row.ran = TRUE /\ row.checksum = grid /\ row.lost = Lost(backend)
    BY DEF Bench!Outcome
  <2>5. grid = FinalOf(Lost(backend))
    <3>1. CASE Lost(backend)
      BY <1>i, <2>1, <3>1 DEF MeasureFromSeed, FinalOf
    <3>2. CASE ~Lost(backend)
      <4>1. [grid |-> grid, frame |-> frame] = Bench!FramesOn[Steps - left] /\ left = 0
        BY <1>i, <2>1, <3>2 DEF MeasureFromSeed
      <4>2. Steps - left = Steps
        BY <1>t, <4>1
      <4>3. Bench!FramesOn[Steps].grid = grid
        BY <4>1, <4>2
      <4> QED BY <3>2, <4>3 DEF FinalOf
    <3> QED BY <3>1, <3>2
  <2> HIDE DEF row
  <2>6. RowsFromSeed(rows')
    BY <1>i, <1>t, <2>1, <2>3, <2>4, <2>5, AppendedRows
  <2>7. RowsFromSeed(rows)'
    <3>1. Bench!FramesOn' = Bench!FramesOn
      BY <2>1, FramesOnStays
    <3> QED BY <2>6, <3>1 DEF RowsFromSeed, FinalOf
  <2> QED BY <1>p, <2>1, <2>7 DEF MeasuredInv, MeasureFromSeed
<1>9. CASE Bench!Report
  <2>1. /\ phase = "create" /\ Len(rows) = 4
        /\ phase' = IF Bench!AllMatch THEN "ok" ELSE "failed"
        /\ UNCHANGED <<fill, hash, rows>>
    BY <1>9 DEF Bench!Report, Bench!Order
  <2>2. RowsFromSeed(rows)'
    <3>1. Bench!FramesOn' = Bench!FramesOn
      BY <2>1, FramesOnStays
    <3> QED BY <1>i, <2>1, <3>1 DEF RowsFromSeed, FinalOf
  <2>3. phase' = "failed" => \E i \in 1..Len(rows) : rows[i].lost
    <3> SUFFICES ASSUME ~Bench!AllMatch, \A i \in 1..Len(rows) : ~rows[i].lost PROVE FALSE
      BY <2>1
    <3>1. PICK row \in Bench!Range(rows) : row.ran /\ row.checksum # rows[1].checksum
      BY DEF Bench!AllMatch
    <3>2. PICK i \in 1..4 : row = rows[i]
      BY <1>t, <2>1, <3>1 DEF Bench!Range
    <3>3. rows[i].checksum = FinalOf(rows[i].lost) /\ rows[1].checksum = FinalOf(rows[1].lost)
      BY <1>i, <2>1, <3>1, <3>2 DEF RowsFromSeed
    <3>4. FinalOf(rows[i].lost) = FinalOf(rows[1].lost)
      BY <2>1, <3>2 DEF FinalOf
    <3> QED BY <3>1, <3>2, <3>3, <3>4
  <2> QED BY <1>p, <2>1, <2>2, <2>3 DEF MeasuredInv, MeasureFromSeed
<1> QED
  BY <1>1, <1>2, <1>3, <1>4, <1>5, <1>6, <1>7, <1>8, <1>9 DEF BenchmarkProgram, Bench!Next

\* Whatever the warm-up has left in the grid, the counter and the backend, a row
\* depends on the seed alone, and the verdict fails only because of a lost device.
THEOREM RowsDependOnSeed ==
  ASSUME W > 2, H > 2, FireDepth \in 1..H
  PROVE  Spec => []MeasuredFromSeed
<1>1. Init => MeasuredInv
  <2> SUFFICES ASSUME Init PROVE MeasuredInv
    OBVIOUS
  <2>1. phase = "start" /\ rows = <<>>
    BY DEF Init, Bench!LocalInit
  <2>2. RowsFromSeed(rows)
    BY <2>1 DEF RowsFromSeed
  <2> QED BY <2>1, <2>2 DEF MeasuredInv, MeasureFromSeed
<1>2. Typed /\ MeasuredInv /\ [Next]_vars => MeasuredInv'
  <2> SUFFICES ASSUME Typed, MeasuredInv, [Next]_vars PROVE MeasuredInv'
    OBVIOUS
  <2>1. CASE BenchmarkProgram(Bench!Next)
    BY <2>1, MeasuredSteps
  <2>2. CASE program' = program /\ program # "benchmark" /\ UNCHANGED benchLocals
    <3>1. phase' = "start" /\ rows' = <<>>
      BY <2>2 DEF MeasuredInv, benchLocals
    <3>2. RowsFromSeed(rows)'
      BY <3>1 DEF RowsFromSeed
    <3> QED BY <3>1, <3>2 DEF MeasuredInv, MeasureFromSeed
  <2>3. CASE UNCHANGED vars
    <3>1. UNCHANGED <<program, grid, frame, backend, fill, hash, rows, phase, left, found>>
      BY <2>3 DEF vars, benchLocals
    <3>2. Bench!FramesOn' = Bench!FramesOn /\ Bench!Strewn' = Bench!Strewn
      BY <3>1, FramesOnStays
    <3> QED BY <3>1, <3>2 DEF MeasuredInv, MeasureFromSeed, RowsFromSeed, FinalOf, Lost
  <2> QED BY <2>1, <2>2, <2>3 DEF Next, NativeProgram, WebProgram
<1>3. Typed /\ MeasuredInv => MeasuredFromSeed
  <2> SUFFICES ASSUME Typed, MeasuredInv PROVE MeasuredFromSeed
    OBVIOUS
  <2>1. rows \in Seq(RowRecords) /\ RowsFromSeed(rows)
    BY DEF Typed, BenchTyped, MeasuredInv
  <2>2. \A i \in 1..Len(rows) : rows[i].ran => rows[i].checksum = FinalOf(rows[i].lost)
    BY <2>1, Zenon DEF RowsFromSeed
  <2>3. Bench!Range(rows) = {rows[i] : i \in 1..Len(rows)}
    BY <2>1 DEF Bench!Range
  <2> QED BY <2>2, <2>3 DEF MeasuredInv, FinalOf, MeasuredFromSeed, Bench!MeasuredFromSeed
<1> QED BY <1>1, <1>2, <1>3, AlwaysTyped, PTL DEF Spec

-----------------------------------------------------------------------------
(* The escape sequences of the terminal.                                   *)

\* The three bytes of an arrow.
Lead(key)   == [code |-> "ESC", key |-> key]
Open(key)   == [code |-> "[", key |-> key]
Letter(key) == [code |-> Native!LetterOf[key], key |-> key]

\* The bytes of s after the first k can be decoded as they were typed: the bytes
\* of an arrow are together and in their order, and no other byte is an ESC.
DecodableAt(s, k, i) ==
  /\ s[i].code = "ESC" =>
       /\ s[i].key \in Native!ArrowKeys /\ i + 2 <= Len(s)
       /\ s[i + 1] = Open(s[i].key) /\ s[i + 2] = Letter(s[i].key)
  /\ s[i].key \in Native!ArrowKeys =>
       \/ s[i].code = "ESC"
       \/ i > k + 1 /\ s[i - 1].code = "ESC"
       \/ i > k + 2 /\ s[i - 2].code = "ESC"

Decodable(s, k) == \A i \in (k + 1)..Len(s) : DecodableAt(s, k, i)

LEMMA ArrowBytes ==
  ASSUME NEW key \in Native!ArrowKeys
  PROVE  /\ Open(key).code # "ESC" /\ Letter(key).code # "ESC"
         /\ Letter(key).code \in {"A", "B", "C", "D"}
         /\ Native!BytesOf(key) = <<Lead(key), Open(key), Letter(key)>>
<1>1. Native!LetterOf[key] \in {"A", "B", "C", "D"}
  BY DEF Native!ArrowKeys, Native!LetterOf
<1>2. Open(key).code = "[" /\ Letter(key).code = Native!LetterOf[key]
  BY DEF Open, Letter
<1>3. Native!BytesOf(key) = <<Lead(key), Open(key), Letter(key)>>
  BY DEF Native!BytesOf, Lead, Open, Letter
<1> QED BY <1>1, <1>2, <1>3

\* Where k counts down to l along with the tail, or the bytes that leave are no
\* part of an arrow, what was decodable stays so.
LEMMA DecodableShift ==
  ASSUME NEW n \in Nat, NEW s, NEW t, Len(s) = n + 1, Len(t) = n,
         \A j \in 1..n : t[j] = s[j + 1],
         NEW k \in Nat, NEW l \in Nat, NEW i \in 1..n, i > l,
         DecodableAt(s, k, i + 1),
         i <= l + 1 /\ i > k => s[i].code # "ESC",
         i <= l + 2 /\ i > k + 1 => s[i - 1].code # "ESC"
  PROVE  DecodableAt(t, l, i)
<1>1. /\ t[i] = s[i + 1]
      /\ i + 2 <= n => t[i + 1] = s[i + 2] /\ t[i + 2] = s[i + 3]
      /\ i > 1 => t[i - 1] = s[i]
      /\ i > 2 => t[i - 2] = s[i - 1]
  <2>1. ASSUME i + 2 <= n PROVE t[i + 1] = s[i + 2] /\ t[i + 2] = s[i + 3]
    <3>1. /\ i + 1 \in 1..n /\ (i + 1) + 1 = i + 2
          /\ i + 2 \in 1..n /\ (i + 2) + 1 = i + 3
      BY <2>1
    <3>2. t[i + 1] = s[(i + 1) + 1] /\ t[i + 2] = s[(i + 2) + 1]
      BY <3>1, Zenon
    <3> QED BY <3>1, <3>2, Zenon
  <2>2. ASSUME i > 1 PROVE t[i - 1] = s[i]
    <3>1. i - 1 \in 1..n /\ (i - 1) + 1 = i
      BY <2>2
    <3>2. t[i - 1] = s[(i - 1) + 1]
      BY <3>1, Zenon
    <3> QED BY <3>1, <3>2, Zenon
  <2>3. ASSUME i > 2 PROVE t[i - 2] = s[i - 1]
    <3>1. i - 2 \in 1..n /\ (i - 2) + 1 = i - 1
      BY <2>3
    <3>2. t[i - 2] = s[(i - 2) + 1]
      BY <3>1, Zenon
    <3> QED BY <3>1, <3>2, Zenon
  <2>4. t[i] = s[i + 1]
    OBVIOUS
  <2> QED BY <2>1, <2>2, <2>3, <2>4, Zenon
<1>2. /\ i \in Nat /\ (i + 1) + 1 = i + 2 /\ (i + 1) + 2 = i + 3
      /\ (i + 1) - 1 = i /\ (i + 1) - 2 = i - 1
      /\ (i + 1) + 2 <= n + 1 <=> i + 2 <= n
      /\ i + 1 > k + 1 <=> i > k
      /\ i + 1 > k + 2 <=> i > k + 1
  OBVIOUS
<1>3. /\ s[i + 1].code = "ESC" =>
           /\ s[i + 1].key \in Native!ArrowKeys /\ i + 2 <= n
           /\ s[i + 2] = Open(s[i + 1].key) /\ s[i + 3] = Letter(s[i + 1].key)
      /\ s[i + 1].key \in Native!ArrowKeys =>
           \/ s[i + 1].code = "ESC"
           \/ i > k /\ s[i].code = "ESC"
           \/ i > k + 1 /\ s[i - 1].code = "ESC"
  <2>1. /\ s[i + 1].code = "ESC" =>
             /\ s[i + 1].key \in Native!ArrowKeys /\ (i + 1) + 2 <= Len(s)
             /\ s[(i + 1) + 1] = Open(s[i + 1].key) /\ s[(i + 1) + 2] = Letter(s[i + 1].key)
        /\ s[i + 1].key \in Native!ArrowKeys =>
             \/ s[i + 1].code = "ESC"
             \/ i + 1 > k + 1 /\ s[(i + 1) - 1].code = "ESC"
             \/ i + 1 > k + 2 /\ s[(i + 1) - 2].code = "ESC"
    BY Zenon DEF DecodableAt
  <2> QED BY <1>2, <2>1, Zenon
<1>4. s[i].code = "ESC" /\ i > k => i > l + 1 /\ i > 1
  BY <1>2
<1>5. s[i - 1].code = "ESC" /\ i > k + 1 => i > l + 2 /\ i > 2
  BY <1>2
<1>6. t[i].code = "ESC" =>
        /\ t[i].key \in Native!ArrowKeys /\ i + 2 <= Len(t)
        /\ t[i + 1] = Open(t[i].key) /\ t[i + 2] = Letter(t[i].key)
  BY <1>1, <1>3, Zenon
<1>7. t[i].key \in Native!ArrowKeys =>
        \/ t[i].code = "ESC"
        \/ i > l + 1 /\ t[i - 1].code = "ESC"
        \/ i > l + 2 /\ t[i - 2].code = "ESC"
  BY <1>1, <1>3, <1>4, <1>5, Zenon
<1> QED BY <1>6, <1>7, Zenon DEF DecodableAt

\* What is read of a byte that is skipped, ...
LEMMA DecodableTail ==
  ASSUME NEW s \in Seq(Bytes), Len(s) > 0
  PROVE  /\ \A k \in Nat \ {0} : Decodable(s, k) => Decodable(Tail(s), k - 1)
         /\ Decodable(s, 0) /\ s[1].code # "ESC" =>
              s[1].key \notin Native!ArrowKeys /\ Decodable(Tail(s), 0)
         /\ Decodable(s, 0) /\ s[1].code = "ESC" =>
              /\ s[1].key \in Native!ArrowKeys /\ Len(Tail(s)) >= 2
              /\ s[1] = Lead(s[1].key)
              /\ Tail(s)[1] = Open(s[1].key) /\ Tail(s)[2] = Letter(s[1].key)
              /\ Decodable(Tail(s), 2)
<1> DEFINE t == Tail(s)
<1>1. PICK n \in Nat : n + 1 = Len(s)
  <2>1. Len(s) - 1 \in Nat
    OBVIOUS
  <2> QED BY <2>1
<1>2. Len(s) = n + 1 /\ Len(t) = n /\ \A i \in 1..n : t[i] = s[i + 1]
  <2>1. s # <<>>
    OBVIOUS
  <2>2. /\ Len(Tail(s)) = Len(s) - 1
        /\ \A i \in 1..Len(Tail(s)) : Tail(s)[i] = s[i + 1]
    BY <2>1, HeadTailProperties, Zenon
  <2>3. (n + 1) - 1 = n
    OBVIOUS
  <2> QED BY <1>1, <2>2, <2>3, Zenon
<1> HIDE DEF t
<1>d. \A k \in Nat : \A i \in k..n : Decodable(s, k) => DecodableAt(s, k, i + 1)
  BY <1>2 DEF Decodable
<1>3. ASSUME NEW k \in Nat \ {0}, Decodable(s, k) PROVE Decodable(t, k - 1)
  <2>0. k - 1 \in Nat /\ k \in Nat /\ (k - 1) + 1 = k
    OBVIOUS
  <2> SUFFICES ASSUME NEW i \in k..n PROVE DecodableAt(t, k - 1, i)
    BY <1>2, <2>0 DEF Decodable
  <2>1. DecodableAt(s, k, i + 1)
    BY <1>3, <1>d
  <2>2. i \in 1..n /\ i > k - 1 /\ ~(i <= (k - 1) + 1 /\ i > k)
        /\ ~(i <= (k - 1) + 2 /\ i > k + 1)
    OBVIOUS
  <2> QED BY <1>2, <2>0, <2>1, <2>2, DecodableShift
<1>4. ASSUME Decodable(s, 0), s[1].code # "ESC"
      PROVE  s[1].key \notin Native!ArrowKeys /\ Decodable(t, 0)
  <2>1. DecodableAt(s, 0, 1)
    BY <1>2, <1>4 DEF Decodable
  <2>2. s[1].key \notin Native!ArrowKeys
    BY <1>4, <2>1 DEF DecodableAt
  <2>3. ASSUME NEW i \in 1..n PROVE DecodableAt(t, 0, i)
    <3>1. DecodableAt(s, 0, i + 1)
      BY <1>4, <1>d
    <3>2. i <= 0 + 1 => s[i].code # "ESC"
      <4>1. i <= 0 + 1 => i = 1
        OBVIOUS
      <4> QED BY <1>4, <4>1, Zenon
    <3>3. i <= 0 + 2 /\ i > 0 + 1 => s[i - 1].code # "ESC"
      <4>1. i <= 0 + 2 /\ i > 0 + 1 => i - 1 = 1
        OBVIOUS
      <4> QED BY <1>4, <4>1, Zenon
    <3>4. i > 0 /\ 0 \in Nat
      OBVIOUS
    <3> QED BY <1>2, <3>1, <3>2, <3>3, <3>4, DecodableShift
  <2> QED BY <1>2, <2>2, <2>3 DEF Decodable
<1>5. ASSUME Decodable(s, 0), s[1].code = "ESC"
      PROVE  /\ s[1].key \in Native!ArrowKeys /\ Len(t) >= 2
             /\ t[1] = Open(s[1].key) /\ t[2] = Letter(s[1].key)
             /\ Decodable(t, 2)
  <2>1. DecodableAt(s, 0, 1)
    BY <1>2, <1>5 DEF Decodable
  <2>2. /\ s[1].key \in Native!ArrowKeys /\ n >= 2
        /\ s[2] = Open(s[1].key) /\ s[3] = Letter(s[1].key)
    BY <1>2, <1>5, <2>1 DEF DecodableAt
  <2>3. t[1] = s[2] /\ t[2] = s[3]
    BY <1>2, <2>2
  <2>4. s[2].code # "ESC" /\ s[3].code # "ESC"
    BY <2>2, ArrowBytes
  <2>5. ASSUME NEW i \in 3..n PROVE DecodableAt(t, 2, i)
    <3>1. DecodableAt(s, 0, i + 1)
      BY <1>5, <1>d
    <3>2. i <= 2 + 1 => s[i].code # "ESC"
      <4>1. i <= 2 + 1 => i = 3
        OBVIOUS
      <4> QED BY <2>4, <4>1, Zenon
    <3>3. i <= 2 + 2 => s[i - 1].code # "ESC"
      <4>1. i <= 2 + 2 => i - 1 = 2 \/ i - 1 = 3
        OBVIOUS
      <4> QED BY <2>4, <4>1, Zenon
    <3>4. i > 2 /\ i \in 1..n
      OBVIOUS
    <3> QED BY <1>2, <3>1, <3>2, <3>3, <3>4, DecodableShift
  <2> QED BY <1>2, <2>2, <2>3, <2>5 DEF Decodable
<1>6. s[1].code = "ESC" => s[1] = Lead(s[1].key)
  <2>1. s[1] \in Bytes
    BY <1>1
  <2> QED BY <2>1 DEF Bytes, Lead
<1> QED BY <1>3, <1>4, <1>5, <1>6 DEF t

\* ... and of a key that is typed behind the others.
LEMMA DecodableTyped ==
  ASSUME NEW s \in Seq(Bytes), NEW k \in Nat, k <= Len(s), Decodable(s, k),
         NEW key \in Keys, key # "esc"
  PROVE  Decodable(s \o Native!BytesOf(key), k)
<1> DEFINE b == Native!BytesOf(key)
           t == s \o b
<1>1. PICK n \in Nat, m \in Nat : n = Len(s) /\ m = Len(b)
  BY BytesOfType
<1>2. /\ t \in Seq(Bytes) /\ Len(t) = n + m
      /\ \A i \in 1..n : t[i] = s[i]
      /\ \A j \in 1..m : t[n + j] = b[j]
  <2>1. /\ t \in Seq(Bytes) /\ Len(t) = n + m
        /\ \A i \in 1..(n + m) : t[i] = IF i <= n THEN s[i] ELSE b[i - n]
    BY <1>1, BytesOfType, ConcatProperties, Zenon
  <2> HIDE DEF t, b
  <2> QED BY <2>1
<1> HIDE DEF t
<1>3. ASSUME NEW i \in (k + 1)..n PROVE DecodableAt(t, k, i)
  <2>1. DecodableAt(s, k, i)
    BY <1>1, <1>3 DEF Decodable
  <2>0. /\ i \in 1..n /\ i \in Nat
        /\ i + 2 <= n => i + 1 \in 1..n /\ i + 2 \in 1..n /\ i + 2 <= n + m
        /\ i > k + 1 => i - 1 \in 1..n
        /\ i > k + 2 => i - 2 \in 1..n
    OBVIOUS
  <2>2. /\ t[i] = s[i] /\ (i + 2 <= n => t[i + 1] = s[i + 1] /\ t[i + 2] = s[i + 2])
        /\ (i > k + 1 => t[i - 1] = s[i - 1]) /\ (i > k + 2 => t[i - 2] = s[i - 2])
    BY <1>2, <2>0
  <2> HIDE DEF b
  <2>3. n = Len(s) /\ Len(t) = n + m
    BY <1>1, <1>2, Zenon
  <2> QED BY <2>0, <2>1, <2>2, <2>3 DEF DecodableAt
<1>4. CASE key \in Native!ArrowKeys
  <2>1. b = <<Lead(key), Open(key), Letter(key)>>
    BY <1>4, ArrowBytes
  <2>2. m = 3 /\ b[1] = Lead(key) /\ b[2] = Open(key) /\ b[3] = Letter(key)
    BY <1>1, <2>1
  <2> HIDE DEF b
  <2>3. /\ t[n + 1] = Lead(key) /\ t[n + 2] = Open(key) /\ t[n + 3] = Letter(key)
        /\ Len(t) = n + 3
    BY <1>2, <2>2
  <2>4. /\ Lead(key).code = "ESC" /\ Lead(key).key = key
        /\ Open(key).code # "ESC" /\ Letter(key).code # "ESC"
    BY <1>4, ArrowBytes DEF Lead
  <2>5. DecodableAt(t, k, n + 1)
    <3>1. (n + 1) + 1 = n + 2 /\ (n + 1) + 2 = n + 3
      OBVIOUS
    <3> QED BY <1>4, <2>3, <2>4, <3>1 DEF DecodableAt
  <2>6. DecodableAt(t, k, n + 2)
    <3>1. (n + 2) - 1 = n + 1 /\ n + 2 > k + 1
      BY <1>1
    <3> QED BY <2>3, <2>4, <3>1 DEF DecodableAt
  <2>7. DecodableAt(t, k, n + 3)
    <3>1. (n + 3) - 2 = n + 1 /\ n + 3 > k + 2
      BY <1>1
    <3> QED BY <2>3, <2>4, <3>1 DEF DecodableAt
  <2>8. \A i \in (k + 1)..(n + 3) : i \in (k + 1)..n \/ i = n + 1 \/ i = n + 2 \/ i = n + 3
    OBVIOUS
  <2> QED BY <1>3, <2>3, <2>5, <2>6, <2>7, <2>8 DEF Decodable, t, b
<1>5. CASE key \notin Native!ArrowKeys
  <2>1. b = <<[code |-> key, key |-> key]>>
    BY <1>5 DEF Native!BytesOf
  <2>2. m = 1 /\ b[1] = [code |-> key, key |-> key]
    BY <1>1, <2>1
  <2> HIDE DEF b
  <2>3. t[n + 1] = [code |-> key, key |-> key] /\ Len(t) = n + 1
    BY <1>2, <2>2
  <2>4. DecodableAt(t, k, n + 1)
    BY <1>5, <2>3, NativeAssumption DEF DecodableAt
  <2>5. \A i \in (k + 1)..(n + 1) : i \in (k + 1)..n \/ i = n + 1
    OBVIOUS
  <2> QED BY <1>3, <2>3, <2>4, <2>5 DEF Decodable, t, b
<1> QED BY <1>4, <1>5

\* What the loop has read of an arrow, and the bytes that are to come.
Expected(e, w) ==
  \/ e = <<>> /\ Decodable(w, 0)
  \/ \E key \in Native!ArrowKeys :
       /\ e = <<Lead(key)>> /\ Len(w) >= 2
       /\ w[1] = Open(key) /\ w[2] = Letter(key) /\ Decodable(w, 2)
  \/ \E key \in Native!ArrowKeys :
       /\ e = <<Lead(key), Open(key)>> /\ Len(w) >= 1
       /\ w[1] = Letter(key) /\ Decodable(w, 1)

LEMMA ExpectedTyped ==
  ASSUME NEW e, NEW w \in Seq(Bytes), Expected(e, w), NEW key \in Keys, key # "esc"
  PROVE  Expected(e, w \o Native!BytesOf(key))
<1> DEFINE t == w \o Native!BytesOf(key)
<1>1. \A k \in Nat : k <= Len(w) /\ Decodable(w, k) => Decodable(t, k)
  BY DecodableTyped
<1>2. Len(t) >= Len(w) /\ \A i \in 1..Len(w) : t[i] = w[i]
  BY BytesOfType
<1>3. Len(w) \in Nat /\ Len(t) \in Nat
  BY BytesOfType
<1> HIDE DEF t
<1>4. CASE e = <<>> /\ Decodable(w, 0)
  BY <1>1, <1>3, <1>4 DEF Expected, t
<1>5. CASE \E arrow \in Native!ArrowKeys :
             /\ e = <<Lead(arrow)>> /\ Len(w) >= 2
             /\ w[1] = Open(arrow) /\ w[2] = Letter(arrow) /\ Decodable(w, 2)
  <2>1. PICK arrow \in Native!ArrowKeys :
             /\ e = <<Lead(arrow)>> /\ Len(w) >= 2
             /\ w[1] = Open(arrow) /\ w[2] = Letter(arrow) /\ Decodable(w, 2)
    BY <1>5
  <2>2. t[1] = Open(arrow) /\ t[2] = Letter(arrow) /\ Len(t) >= 2 /\ Decodable(t, 2)
    BY <1>1, <1>2, <1>3, <2>1
  <2> QED BY <2>1, <2>2, Zenon DEF Expected, t
<1>6. CASE \E arrow \in Native!ArrowKeys :
             /\ e = <<Lead(arrow), Open(arrow)>> /\ Len(w) >= 1
             /\ w[1] = Letter(arrow) /\ Decodable(w, 1)
  <2>1. PICK arrow \in Native!ArrowKeys :
             /\ e = <<Lead(arrow), Open(arrow)>> /\ Len(w) >= 1
             /\ w[1] = Letter(arrow) /\ Decodable(w, 1)
    BY <1>6
  <2>2. t[1] = Letter(arrow) /\ Len(t) >= 1 /\ Decodable(t, 1)
    BY <1>1, <1>2, <1>3, <2>1
  <2> QED BY <2>1, <2>2, Zenon DEF Expected, t
<1> QED BY <1>4, <1>5, <1>6, Zenon DEF Expected

LEMMA ExpectedRead ==
  ASSUME NEW w \in Seq(Bytes), w # <<>>
  PROVE  /\ Expected(<<>>, w) /\ Head(w).code # "ESC" =>
              Head(w).key \notin Native!ArrowKeys /\ Expected(<<>>, Tail(w))
         /\ Expected(<<>>, w) /\ Head(w).code = "ESC" => Expected(<<Head(w)>>, Tail(w))
         /\ \A key \in Native!ArrowKeys :
              /\ w[1] = Open(key) /\ w[2] = Letter(key) /\ Len(w) >= 2 /\ Decodable(w, 2) =>
                   Expected(<<Lead(key), Head(w)>>, Tail(w))
              /\ Decodable(w, 1) => Expected(<<>>, Tail(w))
<1>1. Len(w) > 0 /\ Head(w) = w[1]
  OBVIOUS
<1>2. Expected(<<>>, w) => Decodable(w, 0)
  BY DEF Expected
<1>3. \A k \in Nat \ {0} : Decodable(w, k) => Decodable(Tail(w), k - 1)
  BY <1>1, DecodableTail
<1>4. ASSUME Decodable(w, 0), w[1].code # "ESC"
      PROVE  w[1].key \notin Native!ArrowKeys /\ Expected(<<>>, Tail(w))
  BY <1>1, <1>4, DecodableTail DEF Expected
<1>5. ASSUME Decodable(w, 0), w[1].code = "ESC" PROVE Expected(<<w[1]>>, Tail(w))
  <2>1. /\ w[1].key \in Native!ArrowKeys /\ Len(Tail(w)) >= 2
        /\ w[1] = Lead(w[1].key)
        /\ Tail(w)[1] = Open(w[1].key) /\ Tail(w)[2] = Letter(w[1].key)
        /\ Decodable(Tail(w), 2)
    BY <1>1, <1>5, DecodableTail, Zenon
  <2>2. <<w[1]>> = <<Lead(w[1].key)>>
    BY <2>1, Zenon
  <2> QED BY <2>1, <2>2, Zenon DEF Expected
<1>6. ASSUME NEW key \in Native!ArrowKeys, w[1] = Open(key), w[2] = Letter(key),
             Len(w) >= 2, Decodable(w, 2)
      PROVE  Expected(<<Lead(key), w[1]>>, Tail(w))
  <2>1. Decodable(Tail(w), 1)
    BY <1>3, <1>6
  <2>2. Tail(w)[1] = w[2] /\ Len(Tail(w)) >= 1
    BY <1>1, <1>6
  <2>3. Tail(w)[1] = Letter(key) /\ <<Lead(key), w[1]>> = <<Lead(key), Open(key)>>
    BY <1>6, <2>2, Zenon
  <2> QED BY <2>1, <2>2, <2>3, Zenon DEF Expected
<1>7. ASSUME Decodable(w, 1) PROVE Expected(<<>>, Tail(w))
  <2>1. Decodable(Tail(w), 0)
    BY <1>3, <1>7
  <2> QED BY <2>1 DEF Expected
<1> QED BY <1>1, <1>2, <1>4, <1>5, <1>6, <1>7, Zenon

LEMMA AppendedPair ==
  ASSUME NEW T, NEW a \in T, NEW b \in T
  PROVE  Append(<<a>>, b) = <<a, b>>
<1>1. <<a>> \in Seq(T) /\ <<a, b>> \in Seq(T) /\ Len(<<a>>) = 1 /\ Len(<<a, b>>) = 2
  OBVIOUS
<1>2. /\ Append(<<a>>, b) \in Seq(T) /\ Len(Append(<<a>>, b)) = 2
      /\ Append(<<a>>, b)[1] = a /\ Append(<<a>>, b)[2] = b
  OBVIOUS
<1>3. <<a, b>>[1] = a /\ <<a, b>>[2] = b /\ 1..2 = {1, 2}
  OBVIOUS
<1>4. \A i \in 1..Len(Append(<<a>>, b)) : Append(<<a>>, b)[i] = <<a, b>>[i]
  BY <1>2, <1>3, Zenon
<1> QED BY <1>1, <1>2, <1>4, SeqEqual, Zenon

\* A sequence is read in one piece unless torn says otherwise: then the emitter
\* does what the user typed, and nothing of it is left for the switch.
LEMMA KeysSteps ==
  ASSUME Typed, ~torn', Expected(escape, wire), [Next]_vars
  PROVE  /\ Expected(escape', wire')
         /\ Native!ReadKey /\ ~Native!KeyEscape => Head(wire).key \notin Native!ArrowKeys
         /\ Len(escape) = 2 /\ escape' = <<>> =>
              emitter' = <<emitter[1] + Native!Heading[escape[1].key][1],
                           emitter[2] + Native!Heading[escape[1].key][2]>>
<1>t. wire \in Seq(Bytes) /\ escape \in Seq(Bytes) /\ emitter \in Int \X Int
  BY DEF Typed, NativeTyped
<1>n. Len(<<>>) = 0 /\ (\A a : Len(<<a>>) = 1) /\ (\A a, b : Len(<<a, b>>) = 2)
      /\ 0 # 1 /\ 0 # 2 /\ 1 # 2
  OBVIOUS
\* The bytes that the switch handles: none of them is an ESC.
<1>s. /\ Native!ReadKey => wire # <<>> /\ wire' = Tail(wire) /\ escape = <<>> /\ torn' = torn
      /\ Native!ReadKey /\ ~Native!KeyEscape => Head(wire).code # "ESC"
      /\ Native!ReadKey /\ ~Native!KeyEscape => escape' = escape
      /\ Native!KeyEscape => Head(wire).code = "ESC" /\ escape' = <<Head(wire)>>
  BY DEF Native!ReadKey, Native!KeySetting, Native!KeyClear, Native!KeySeed,
         Native!KeyBackend, Native!KeyIgnored, Native!KeyEscape, Native!Reads,
         Native!SettingCodes, Native!ClearCodes, Native!MaterialOf, Native!BackendOf
<1>r. ASSUME Native!ReadKey
      PROVE  /\ Expected(escape', wire')
             /\ ~Native!KeyEscape => Head(wire).key \notin Native!ArrowKeys
  <2>1. wire # <<>> /\ wire' = Tail(wire) /\ escape = <<>> /\ Expected(<<>>, wire)
    BY <1>r, <1>s
  <2>2. CASE Native!KeyEscape
    <3>1. Expected(<<Head(wire)>>, Tail(wire))
      BY <1>s, <1>t, <2>1, <2>2, ExpectedRead, Zenon
    <3> QED BY <1>s, <2>1, <2>2, <3>1, Zenon
  <2>3. CASE ~Native!KeyEscape
    <3>1. Head(wire).key \notin Native!ArrowKeys /\ Expected(<<>>, Tail(wire))
      BY <1>r, <1>s, <1>t, <2>1, <2>3, ExpectedRead, Zenon
    <3>2. escape' = <<>>
      BY <1>r, <1>s, <2>1, <2>3
    <3> QED BY <2>1, <3>1, <3>2, Zenon
  <2> QED BY <2>2, <2>3
<1>u. ASSUME UNCHANGED <<escape, wire>> PROVE Expected(escape', wire')
  BY <1>u
\* The rest of the sequence.
<1>p. ASSUME Native!PollFirst
      PROVE  Expected(escape', wire') /\ Len(escape) = 1 /\ escape' # <<>>
  <2>1. /\ Len(escape) = 1 /\ wire # <<>> /\ wire' = Tail(wire)
        /\ escape' = Append(escape, Head(wire))
    BY <1>p DEF Native!PollFirst, Native!Polls
  <2>2. PICK key \in Native!ArrowKeys :
          /\ escape = <<Lead(key)>> /\ Len(wire) >= 2
          /\ wire[1] = Open(key) /\ wire[2] = Letter(key) /\ Decodable(wire, 2)
    <3>1. escape # <<>>
      BY <1>n, <2>1, Zenon
    <3>2. \A key : escape # <<Lead(key), Open(key)>>
      BY <1>n, <2>1, Zenon
    <3> QED BY <3>1, <3>2, Zenon DEF Expected
  <2>3. Expected(<<Lead(key), Head(wire)>>, Tail(wire))
    BY <1>t, <2>1, <2>2, ExpectedRead, Zenon
  <2>4. Append(<<Lead(key)>>, Head(wire)) = <<Lead(key), Head(wire)>>
    <3>1. escape[1] = Lead(key) /\ escape[1] \in Bytes
      BY <1>t, <2>1, <2>2
    <3>2. Head(wire) \in Bytes
      BY <1>t, <2>1
    <3> QED BY <3>1, <3>2, AppendedPair
  <2>5. escape' = <<Lead(key), Head(wire)>>
    BY <2>1, <2>2, <2>4, Zenon
  <2>6. <<Lead(key), Head(wire)>> # <<>>
    <3>1. Len(<<Lead(key), Head(wire)>>) = 2 /\ Len(<<>>) = 0
      BY <1>n
    <3>2. \A e : Len(e) = 2 => e # <<>>
      BY <1>n, Zenon
    <3> QED BY <3>1, <3>2, Zenon
  <2> QED BY <2>1, <2>3, <2>5, <2>6, Zenon
<1>q. ASSUME Native!PollSecond
      PROVE  /\ Expected(escape', wire')
             /\ emitter' = <<emitter[1] + Native!Heading[escape[1].key][1],
                             emitter[2] + Native!Heading[escape[1].key][2]>>
  <2>1. /\ Len(escape) = 2 /\ escape' = <<>> /\ wire # <<>> /\ wire' = Tail(wire)
        /\ emitter' = IF escape[2].code = "[" THEN Native!Moved(emitter, Head(wire).code)
                      ELSE emitter
    BY <1>q DEF Native!PollSecond, Native!Polls
  <2>2. PICK key \in Native!ArrowKeys :
          /\ escape = <<Lead(key), Open(key)>> /\ Len(wire) >= 1
          /\ wire[1] = Letter(key) /\ Decodable(wire, 1)
    <3>1. escape # <<>>
      BY <1>n, <2>1, Zenon
    <3>2. \A key : escape # <<Lead(key)>>
      BY <1>n, <2>1, Zenon
    <3> QED BY <3>1, <3>2, Zenon DEF Expected
  <2>3. Expected(<<>>, Tail(wire))
    BY <1>t, <2>1, <2>2, ExpectedRead, Zenon
  <2>4. escape[1].key = key /\ escape[2].code = "[" /\ Head(wire).code = Native!LetterOf[key]
    <3>1. escape[1] = Lead(key) /\ escape[2] = Open(key)
      BY <2>2
    <3>2. Head(wire) = Letter(key)
      BY <1>t, <2>1, <2>2
    <3> QED BY <3>1, <3>2 DEF Lead, Open, Letter
  <2>5. emitter' = Native!Moved(emitter, Native!LetterOf[key])
    BY <2>1, <2>4
  <2>6. PICK x \in Int, y \in Int : emitter = <<x, y>>
    BY <1>t
  <2>7. Native!Moved(emitter, Native!LetterOf[key])
          = <<x + Native!Heading[key][1], y + Native!Heading[key][2]>>
    BY <2>6 DEF Native!Moved, Native!LetterOf, Native!Heading, Native!ArrowKeys
  <2> QED BY <2>1, <2>3, <2>4, <2>5, <2>6, <2>7
<1>1. CASE NativeProgram(Native!Next)
  <2>1. CASE Native!Typing
    <3>1. PICK key \in Keys : Native!Press(key)
      BY <2>1 DEF Native!Typing
    <3>2. wire' = wire \o Native!BytesOf(key) /\ escape' = escape /\ key # "esc"
      BY <3>1 DEF Native!Press
    <3>3. Expected(escape, wire \o Native!BytesOf(key))
      BY <1>t, <3>2, ExpectedTyped
    <3>4. ~(Len(escape) = 2 /\ escape' = <<>>)
      BY <1>n, <3>2
    <3> QED BY <1>r, <3>2, <3>3, <3>4, Zenon
  <2>2. CASE Native!ReadKey
    <3>1. escape = <<>>
      BY <1>s, <2>2
    <3> QED BY <1>n, <1>r, <2>2, <3>1
  <2>3. CASE Native!PollFirst
    BY <1>p, <1>r, <2>3
  <2>4. CASE Native!PollSecond
    BY <1>q, <1>r, <2>4
  <2>5. CASE Native!Start \/ Native!NoKey \/ Native!Paint \/ Native!StepAndDraw
    <3>1. UNCHANGED <<escape, wire>>
      BY <2>5 DEF Native!Start, Native!NoKey, Native!Paint, Native!StepAndDraw
    <3> QED BY <1>n, <1>r, <1>u, <3>1
  <2> QED
    BY <1>1, <2>1, <2>2, <2>3, <2>4, <2>5 DEF NativeProgram, Native!Next, Native!Loop
<1>2. CASE UNCHANGED nativeLocals
  <2>1. UNCHANGED <<escape, wire>>
    BY <1>2 DEF nativeLocals
  <2> QED BY <1>n, <1>r, <1>u, <2>1
<1> QED BY <1>1, <1>2 DEF Next, WebProgram, BenchmarkProgram, vars

\* As long as sequences arrive in one piece and nobody presses Esc, each arrow
\* moves the emitter as it says and no byte of one is handled as a key.
THEOREM KeysAreUnderstood ==
  ASSUME W > 2, H > 2, FireDepth \in 1..H
  PROVE  Spec => KeysUnderstood
<1> DEFINE Inv == ~torn => Expected(escape, wire)
           Understood ==
             ~torn' =>
               /\ Native!ReadKey /\ ~Native!KeyEscape => Head(wire).key \notin Native!ArrowKeys
               /\ Len(escape) = 2 /\ escape' = <<>> =>
                    LET by == Native!Heading[escape[1].key]
                    IN  emitter' = <<emitter[1] + by[1], emitter[2] + by[2]>>
<1>1. Init => Inv
  <2> SUFFICES ASSUME Init PROVE Inv
    OBVIOUS
  <2>1. escape = <<>> /\ wire = <<>>
    BY DEF Init, Native!LocalInit
  <2>2. Decodable(wire, 0)
    BY <2>1 DEF Decodable
  <2> QED BY <2>1, <2>2 DEF Expected
<1>2. Typed /\ Typed' /\ [Next]_vars /\ torn => torn'
  <2> SUFFICES ASSUME [Next]_vars, torn, Typed, Typed' PROVE torn'
    OBVIOUS
  <2>1. torn' = torn \/ torn' = TRUE \/ (\E key : torn' = (torn \/ key = "esc"))
    BY DEF Next, vars, nativeLocals, NativeProgram, WebProgram, BenchmarkProgram,
           Native!Next, Native!ReadKey, Native!Loop, Native!Typing, Native!Press,
           Native!KeySetting, Native!KeyClear, Native!KeySeed, Native!KeyBackend,
           Native!KeyIgnored, Native!KeyEscape, Native!Reads, Native!Start,
           Native!PollFirst, Native!PollSecond, Native!Polls, Native!NoKey,
           Native!Paint, Native!StepAndDraw
  <2> QED BY <2>1
<1>3. Typed /\ Typed' /\ Inv /\ [Next]_vars => Inv'
  <2> SUFFICES ASSUME Typed, Typed', Inv, [Next]_vars, ~torn' PROVE Expected(escape, wire)'
    OBVIOUS
  <2>1. Expected(escape, wire)
    BY <1>2
  <2>2. Expected(escape', wire')
    BY <2>1, KeysSteps
  <2> QED BY <2>2 DEF Expected, Decodable, DecodableAt
<1>4. Typed /\ Typed' /\ Inv /\ [Next]_vars => [Understood]_(Native!vars)
  <2> SUFFICES ASSUME Typed, Typed', Inv, [Next]_vars, ~torn' PROVE Understood
    OBVIOUS
  <2>1. Expected(escape, wire)
    BY <1>2
  <2> QED BY <2>1, KeysSteps
<1>5. KeysUnderstood <=> [][Understood]_(Native!vars)
  BY DEF KeysUnderstood, Native!KeysUnderstood
<1> HIDE DEF Inv, Understood
<1> QED BY <1>1, <1>3, <1>4, <1>5, AlwaysTyped, PTL DEF Spec
=============================================================================
