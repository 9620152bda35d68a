------------------------------- MODULE Options -------------------------------
(***************************************************************************)
(* The constants of the three programs: what their command lines, their    *)
(* literals and their users supply.                                        *)
(***************************************************************************)
EXTENDS Backends

CONSTANTS
  Keys,        \* native: the keys the user may press
  StartBrush,  \* native: the brush at start-up, 5 in the code
  MaxBrush,    \* native: the largest brush, 24 in the code
  MaxPresses,  \* bound: the keys pressed in one run
  PageBrush,   \* web: the brush at start-up, 6 in the code
  Points,      \* web: where the pointer may be, some of them off the canvas
  MaxInputs,   \* bound: the visitor's inputs in one run
  WarmUp,      \* benchmark: --warmup
  Steps,       \* benchmark: --steps
  FireDepth,   \* benchmark: how far above the bottom its fire is, 8 in the code
  FireRadius   \* benchmark: 6 in the code

ASSUME NativeAssumption ==
  /\ MaxBrush \in Nat /\ StartBrush \in 1..MaxBrush
  /\ MaxPresses \in Nat
  /\ "ESC" \notin Keys  \* the name of a byte; the key that sends it is "esc"

ASSUME WebAssumption ==
  /\ PageBrush \in Radii
  /\ Points \subseteq Int \X Int
  /\ MaxInputs \in Nat

ASSUME BenchmarkAssumption ==
  /\ WarmUp \in Nat /\ Steps \in Nat \ {0}
  /\ FireDepth \in Nat /\ FireRadius \in Nat
=============================================================================
