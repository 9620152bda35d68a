------------------------------ MODULE Backends ------------------------------
(***************************************************************************)
(* core/backend.cpp and core/backend.hpp: the backends as the programs see *)
(* them, objects made by createBackend that answer available() and step a  *)
(* grid.  What goes on inside of a step is the subject of the backends'    *)
(* own modules; here a step is one frame, or the end of a CUDA device.     *)
(***************************************************************************)
EXTENDS Grid

CONSTANTS HasAvx2,   \* cpuSupportsAvx2() on this machine
          CudaBuild  \* the CUDA backend is linked in, not its stub

ASSUME BuildAssumption == HasAvx2 \in BOOLEAN /\ CudaBuild \in BOOLEAN

BackendIds == {"Naive", "Avx2", "Cuda", "ToyIsa"}

\* What available() of a new object may answer: the CUDA backend looks for a
\* device each time one is made.
Answers(id) == CASE id \in {"Naive", "ToyIsa"} -> {TRUE}
                 [] id = "Avx2" -> {HasAvx2}
                 [] id = "Cuda" -> IF CudaBuild THEN BOOLEAN ELSE {FALSE}

Objects == [id : BackendIds, ok : BOOLEAN]

createBackend(id) == {[id |-> id, ok |-> answer] : answer \in Answers(id)}

\* The answers of the four probe objects a program makes when it starts and
\* never steps.
Probes == {f \in [BackendIds -> BOOLEAN] : \A id \in BackendIds : f[id] \in Answers(id)}

\* A CUDA backend that found no device, or lost it: its step() does nothing.
Lost(b) == b.id = "Cuda" /\ ~b.ok

\* The three passes of a frame, one after the other.
FramesOf_SpreadFirst(g, f) ==
  UNION {UNION {{decayScalar(fallen, noise) : noise \in NoiseWords} :
                  fallen \in {verticalScalar(spread, VerticalParity(f))}} :
           spread \in {horizontalScalar(g, HorizontalParity(f))}}

FramesOf(g, f) ==
  UNION {UNION {{decayScalar(spread, noise) : noise \in NoiseWords} :
                  spread \in {horizontalScalar(fallen, HorizontalParity(f))}} :
           fallen \in {verticalScalar(g, VerticalParity(f))}}

\* What step() may leave behind: a frame; with a lost device nothing at all; and
\* when the device is lost in this very step, the old grid and, after a failed
\* launch, a counter that has moved on.
StepOutcomes(b, g, f) ==
  LET made == {[backend |-> b, grid |-> next, frame |-> NextOf(f)] : next \in FramesOf(g, f)}
      loss == {[backend |-> [b EXCEPT !.ok = FALSE], grid |-> g, frame |-> k] :
                 k \in {f, NextOf(f)}}
  IN  IF Lost(b) THEN {[backend |-> b, grid |-> g, frame |-> f]}
      ELSE IF b.id = "Cuda" THEN made \cup loss ELSE made
=============================================================================
