---------------------------- MODULE NaiveBackend ----------------------------
(***************************************************************************)
(* The reference backend on the double-buffered Grid.  One call of step()  *)
(* is spread over as many actions as it writes cells: each pass walks the  *)
(* grid in row-major order, gathers from the front buffer, writes the back *)
(* buffer, and only then swaps the two.  Nothing clears the back buffer    *)
(* between passes, so it starts every pass full of stale cells.            *)
(***************************************************************************)
EXTENDS Grid

VARIABLES src,    \* Grid::a_, the front buffer
          dst,    \* Grid::b_, the back buffer
          frame,
          pc,     \* the pass step() is in, "idle" outside of step()
          cursor, \* cells of dst this pass has written
          noise   \* the random words of the frame being computed

vars == <<src, dst, frame, pc, cursor, noise>>

PassNames == {"vertical", "horizontal", "decay"}

-----------------------------------------------------------------------------
\* The n-th cell of `for y { for x { ... } }`.
CellAt(n) == <<n % W, n \div W>>

\* The value the loop body of the current pass gives to cell p.
Gathered(p) ==
  CASE pc = "vertical"   -> verticalCell(src, VerticalParity(frame), p)
    [] pc = "horizontal" -> horizontalCell(src, HorizontalParity(frame), p)
    [] pc = "decay"      -> decayCell(src, noise, p)

swapBuffers == src' = dst /\ dst' = src

Init ==
  /\ src = Cleared
  /\ dst = Blank
  /\ frame = 0 /\ pc = "idle" /\ cursor = 0 /\ noise = Calm

BeginStep ==
  /\ pc = "idle"
  /\ pc' = "vertical" /\ cursor' = 0
  /\ noise' \in NoiseWords
  /\ UNCHANGED <<src, dst, frame>>

WriteCell_OnlyChanges ==
  /\ pc \in PassNames /\ cursor < Size
  /\ LET p == CellAt(cursor)
     IN  dst' = IF Gathered(p) = src[p] THEN dst ELSE [dst EXCEPT ![p] = Gathered(p)]
  /\ cursor' = cursor + 1
  /\ UNCHANGED <<src, frame, pc, noise>>

WriteCell ==
  /\ pc \in PassNames /\ cursor < Size
  /\ dst' = [dst EXCEPT ![CellAt(cursor)] = Gathered(CellAt(cursor))]
  /\ cursor' = cursor + 1
  /\ UNCHANGED <<src, frame, pc, noise>>

EndPass_NoSwap(pass, next) ==
  /\ pc = pass /\ cursor = Size
  /\ pc' = next /\ cursor' = 0
  /\ UNCHANGED <<src, dst>>

EndPass(pass, next) ==
  /\ pc = pass /\ cursor = Size
  /\ swapBuffers
  /\ pc' = next /\ cursor' = 0

EndVertical   == EndPass("vertical", "horizontal") /\ UNCHANGED <<frame, noise>>
EndHorizontal == EndPass("horizontal", "decay") /\ UNCHANGED <<frame, noise>>
EndDecay      == /\ EndPass("decay", "idle")
                 /\ frame' = NextOf(frame)
                 /\ noise' = Calm

Work == BeginStep \/ WriteCell \/ EndVertical \/ EndHorizontal \/ EndDecay

\* The edits run on the thread that calls step(), hence only between steps.
SetCell ==
  /\ \E p \in Targets, c \in Materials : src' = [src EXCEPT ![p] = c]
  /\ UNCHANGED <<dst, frame>>

PaintDisc ==
  /\ \E p \in Targets, r \in Radii, c \in Materials : src' = Painted(src, p, r, c)
  /\ UNCHANGED <<dst, frame>>

\* clear() empties both buffers but draws the border in the front one only.
Clear ==
  /\ src' = Cleared
  /\ dst' = Blank
  /\ frame' = 0

Seed ==
  /\ \E fill \in SeedFills : src' = Seeded(src, fill)
  /\ frame' = 0
  /\ UNCHANGED dst

Edit == /\ pc = "idle"
        /\ SetCell \/ PaintDisc \/ Clear \/ Seed
        /\ UNCHANGED <<pc, cursor, noise>>

Next == Work \/ Edit

Spec == Init /\ [][Next]_vars

-----------------------------------------------------------------------------
TypeOK ==
  /\ src \in Grids /\ dst \in Grids
  /\ frame \in Frames
  /\ pc \in PassNames \cup {"idle"}
  /\ cursor \in 0..Size
  /\ noise \in Noise

\* Behind the cursor the back buffer holds exactly what the pass makes of the
\* front buffer, whatever order the cells are visited in and whatever stale
\* cells the buffer started with.
Progress ==
  pc \in PassNames => \A n \in 0..(cursor - 1) : dst[CellAt(n)] = Gathered(CellAt(n))

\* The frame a step in progress will have produced: what it still has to do to
\* the front buffer.
Promised ==
  CASE pc = "idle"       -> src
    [] pc = "vertical"   -> NextFrame(src, frame, noise)
    [] pc = "horizontal" -> decayScalar(horizontalScalar(src, HorizontalParity(frame)), noise)
    [] pc = "decay"      -> decayScalar(src, noise)

Sim == INSTANCE Simulation
         WITH Pictures <- {},
              grid     <- Promised,
              frame    <- IF pc = "idle" THEN frame ELSE NextOf(frame)

\* The backend implements the one-step-per-frame simulation: the whole frame
\* takes effect when step() begins, and nothing step() does then shows.
Implements == Sim!Spec
=============================================================================
