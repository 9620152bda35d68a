----------------------------- MODULE ToyBackend -----------------------------
(***************************************************************************)
(* backends/toy_isa/toy_backend.cpp: the vertical pass runs on the         *)
(* accelerator, the other two on the host.  When the accelerator stops     *)
(* with a fault, whatever it has stored by then, the host runs the         *)
(* vertical pass itself.                                                   *)
(***************************************************************************)
EXTENDS Grid, ToyKernel

\* ensureProgram has compiled both kernels for the geometry of the grid.
ASSUME BackendAssumption == DOMAIN Kernels \subseteq DOMAIN Programs

VARIABLES frame,
          phase,     \* where step() is, "idle" outside of it
          begun      \* auxiliary: the grid as this step() found it

\* The machine, whose memory is both buffers: the front one is SRC, the back one DST.
machine == <<program, budget, registers, pc, now, res, fault, status>>
vars == <<mem, frame, phase, begun, machine>>

-----------------------------------------------------------------------------
(* The buffers as grids.                                                   *)

BothBuffers(front(_), back(_)) ==
  [a \in MemAddrs |-> IF a < Size THEN front(a) ELSE back(a - Size)]

\* A host pass that writes g into the back buffer, then swapBuffers: the old
\* front buffer is behind now.
HostPass(g) == mem' = BothBuffers(LAMBDA i : g[CoordOf(i)], LAMBDA i : mem[i])

swapBuffers == mem' = BothBuffers(LAMBDA i : mem[Size + i], LAMBDA i : mem[i])

-----------------------------------------------------------------------------
Init ==
  /\ mem = BothBuffers(LAMBDA i : Cleared[CoordOf(i)], LAMBDA i : Empty)
  /\ frame = 0 /\ phase = "idle" /\ begun = Cleared
  /\ program = KernelFor(0) /\ budget = 0
  /\ Reset /\ status = "stopped"

BeginStep ==
  /\ phase = "idle"
  /\ phase' = "accelerate" /\ begun' = SrcGrid
  /\ program' = KernelFor(VerticalParity(frame)) /\ budget' \in Budgets
  /\ Call
  /\ UNCHANGED <<mem, frame>>

Accelerate ==
  /\ phase = "accelerate"
  /\ Execute
  /\ UNCHANGED <<frame, phase, begun>>

TakeResult ==
  /\ phase = "accelerate" /\ status = "stopped" /\ fault = "None"
  /\ swapBuffers
  /\ phase' = "horizontal"
  /\ UNCHANGED <<frame, begun, machine>>

FallBack_KeepPartial ==
  /\ phase = "accelerate" /\ status = "stopped" /\ fault # "None"
  /\ swapBuffers
  /\ phase' = "horizontal"
  /\ UNCHANGED <<frame, begun, machine>>

FallBack ==
  /\ phase = "accelerate" /\ status = "stopped" /\ fault # "None"
  /\ HostPass(verticalScalar(SrcGrid, VerticalParity(frame)))
  /\ phase' = "horizontal"
  /\ UNCHANGED <<frame, begun, machine>>

HostHorizontal ==
  /\ phase = "horizontal"
  /\ HostPass(horizontalScalar(SrcGrid, HorizontalParity(frame)))
  /\ phase' = "decay"
  /\ UNCHANGED <<frame, begun, machine>>

HostDecay ==
  /\ phase = "decay"
  /\ \E noise \in NoiseWords : HostPass(decayScalar(SrcGrid, noise))
  /\ frame' = NextOf(frame)
  /\ phase' = "idle"
  /\ UNCHANGED <<begun, machine>>

Work == BeginStep \/ Accelerate \/ TakeResult \/ FallBack \/ HostHorizontal \/ HostDecay

\* The edits of class Grid, between two steps.
EditFront(g) == mem' = BothBuffers(LAMBDA i : g[CoordOf(i)], LAMBDA i : mem[Size + i])

SetCell ==
  /\ \E p \in Targets, c \in Materials : EditFront([SrcGrid EXCEPT ![p] = c])
  /\ UNCHANGED frame

PaintDisc ==
  /\ \E p \in Targets, r \in Radii, c \in Materials : EditFront(Painted(SrcGrid, p, r, c))
  /\ UNCHANGED frame

Clear ==
  /\ mem' = BothBuffers(LAMBDA i : Cleared[CoordOf(i)], LAMBDA i : Empty)
  /\ frame' = 0

Seed ==
  /\ \E fill \in SeedFills : EditFront(Seeded(SrcGrid, fill))
  /\ frame' = 0

Edit == /\ phase = "idle"
        /\ SetCell \/ PaintDisc \/ Clear \/ Seed
        /\ UNCHANGED <<phase, begun, machine>>

Next == Work \/ Edit

Spec == Init /\ [][Next]_vars

-----------------------------------------------------------------------------
Sim == INSTANCE Simulation
         WITH Pictures <- {},
              grid     <- IF phase = "idle" THEN SrcGrid ELSE begun

\* With the accelerator in the loop the backend still makes the frames of the
\* scalar code, and it makes the same ones when the accelerator gives up
\* anywhere in its run.
Implements == Sim!Spec
=============================================================================
