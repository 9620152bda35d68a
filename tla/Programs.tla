------------------------------ MODULE Programs ------------------------------
(***************************************************************************)
(* The three programs that are built on the grid and the backends: the     *)
(* terminal program, the web page and the benchmark.  A run is a run of    *)
(* one of them; what they have in common is their world, the grid with its *)
(* frame counter, and the backend that steps it.                           *)
(***************************************************************************)
EXTENDS Options

CONSTANT Started  \* the programs that may be started

ASSUME StartedAssumption == Started \subseteq {"native", "web", "benchmark"}

VARIABLES program, grid, frame, backend, probes,
          user, emitter, wire, escape, pc, presses, torn,
          backendId, pixels, S, canvas, stroke, note, timers, hand, cancelled, inputs,
          fill, hash, rows, phase, left, found

Native == INSTANCE NativeApp
Web    == INSTANCE WebApp
Bench  == INSTANCE Benchmark

nativeLocals == <<user, emitter, wire, escape, pc, presses, torn>>
webLocals    == <<backendId, pixels, S, canvas, stroke, note, timers, hand,
                  cancelled, inputs>>
benchLocals  == <<fill, hash, rows, phase, left, found>>

vars == <<program, grid, frame, backend, probes, nativeLocals, webLocals, benchLocals>>

\* A grid before its program has done anything with it.
Init ==
  /\ program \in Started
  /\ grid = Cleared /\ frame = 0
  /\ backend = [id |-> "Naive", ok |-> TRUE]
  /\ probes = [id \in BackendIds |-> FALSE]
  /\ Native!LocalInit /\ Web!LocalInit /\ Bench!LocalInit

\* A step of one program leaves what only the others have alone.
NativeProgram(step) ==
  program = "native" /\ step /\ UNCHANGED <<program, webLocals, benchLocals>>

WebProgram(step) ==
  program = "web" /\ step /\ UNCHANGED <<program, nativeLocals, benchLocals>>

BenchmarkProgram(step) ==
  program = "benchmark" /\ step /\ UNCHANGED <<program, probes, nativeLocals, webLocals>>

Next ==
  NativeProgram(Native!Next) \/ WebProgram(Web!Next) \/ BenchmarkProgram(Bench!Next)

Spec == Init /\ [][Next]_vars

\* The loop of the terminal program never waits, and a byte that was typed is
\* delivered in the end to the loop, which polls for it again and again.  The
\* browser lets a handler finish, and calls back for frame after frame between
\* the others; only a paused page needs this.
FairSpec ==
  /\ Spec
  /\ WF_vars(NativeProgram(Native!Loop))
  /\ SF_vars(NativeProgram(Native!ReadKey))
  /\ WF_vars(WebProgram(Web!PaintNext))
  /\ SF_vars(WebProgram(S.paused /\ Web!FrameCallback))

-----------------------------------------------------------------------------
TypeOK ==
  /\ program \in Started
  /\ grid \in Grids /\ frame \in Frames
  /\ backend \in Objects /\ probes \in [BackendIds -> BOOLEAN]
  /\ Native!LocalTypeOK /\ Web!LocalTypeOK /\ Bench!LocalTypeOK

\* Whatever a program does to its world is one of the operations of the abstract
\* simulation, from its start to the step that loses a device: no key, handler or
\* phase of the benchmark leaves a world that frames and edits cannot lead to.
World == INSTANCE Simulation
           WITH Targets <- Coords, Materials <- Cells, Pictures <- {},
                Radii <- Radii \cup 1..MaxBrush \cup {FireRadius}
WorldsAreSimulated ==
  World!Init /\ [][World!vars' # World!vars =>
                     World!Next \/ (~Lost(backend) /\ Lost(backend'))]_(World!vars)

\* NativeApp: an emitter anywhere in the interior has painted its whole disc.
EmitterPaints == Native!EmitterPaints

\* NativeApp: what arrives in one piece is decoded as it was typed.
KeysUnderstood == Native!KeysUnderstood

\* NativeApp: a typed x ends the program, unless a sequence was torn.
QuitEnds == Native!QuitEnds

\* NativeApp: an arrow does nothing but move the emitter.
ArrowsOnlyMove == Native!ArrowsOnlyMove

\* WebApp: page, bindings and active backend agree.
BackendsAgree == Web!BackendsAgree

\* WebApp: strokes have no gaps.
StrokeConnected == Web!StrokeConnected

\* WebApp: no stroke without a pointer that is down.
OnlyHeldPointersPaint == Web!OnlyHeldPointersPaint

\* WebApp: the canvas of a paused page catches up with the world.
CanvasIsCurrent == Web!CanvasIsCurrent

\* WebApp: a note about a backend goes away.
BackendNotesExpire == Web!BackendNotesExpire

\* Benchmark: a row depends on the seed alone.
MeasuredFromSeed == Bench!MeasuredFromSeed
=============================================================================
