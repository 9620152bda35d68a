------------------------------ MODULE Benchmark ------------------------------
(***************************************************************************)
(* benchmarks/benchmark_runner.cpp: every backend that is there warms up   *)
(* and is then measured from the same world, and the worlds they end with  *)
(* are compared with the naive one.  The hash is a function of the frame,  *)
(* so that the backends meet the same random words.  The checksum of a     *)
(* grid is the grid itself: collisions of the 64-bit hash are left out.    *)
(***************************************************************************)
EXTENDS Options, Sequences, Functions

VARIABLES grid, frame,  \* the grid of runBackend
          backend,      \* its backend
          fill, hash,   \* what the fixed seed strews, and the words of each frame
          rows,         \* the rows of the table
          phase,        \* where runBackend is
          left,         \* frames left in this stepMany
          found         \* the grid and counter this stepMany was called with

vars == <<grid, frame, backend, fill, hash, rows, phase, left, found>>

Order == <<"Naive", "Avx2", "Cuda", "ToyIsa">>

Outcome(id, ran, g, lost) == [id |-> id, ran |-> ran, checksum |-> g, lost |-> lost]

FireCentre == <<W \div 2, H - FireDepth>>

\* seed: clear, seedRandom, and a block of fire on top.
Strewn     == Seeded(Cleared, fill)
Kindled(g) == Painted(g, FireCentre, FireRadius, Fire)

\* The world n frames after seed().
FramesOn[n \in Nat] ==
  IF n = 0 THEN [grid |-> Kindled(Strewn), frame |-> 0]
  ELSE LET last == FramesOn[n - 1]
       IN  [grid  |-> NextFrame(last.grid, last.frame, hash[last.frame]),
            frame |-> NextOf(last.frame)]

-----------------------------------------------------------------------------
LocalInit ==
  /\ fill = <<>> /\ hash = <<>>
  /\ rows = <<>> /\ phase = "start"
  /\ left = 0 /\ found = [grid |-> Cleared, frame |-> 0]

\* What the hash of the code is, once and for all.
Start ==
  /\ phase = "start" /\ phase' = "create"
  /\ fill' \in SeedFills /\ hash' \in [Frames -> NoiseWords]
  /\ UNCHANGED <<grid, frame, backend, rows, left, found>>

\* The next backend and a grid of its own, or a row that says "n/a".
Create ==
  /\ phase = "create" /\ Len(rows) < Len(Order)
  /\ LET id == Order[Len(rows) + 1]
     IN  /\ backend' \in createBackend(id)
         /\ IF backend'.ok THEN phase' = "seed" /\ UNCHANGED rows
            ELSE rows' = Append(rows, Outcome(id, FALSE, Cleared, FALSE)) /\ UNCHANGED phase
  /\ grid' = Cleared /\ frame' = 0
  /\ UNCHANGED <<fill, hash, left, found>>

\* seed() before the warm-up and again after it.
Seed_KeepsFrame ==
  /\ phase \in {"seed", "reseed"}
  /\ grid' = Strewn /\ UNCHANGED frame
  /\ phase' = IF phase = "seed" THEN "kindle" ELSE "rekindle"
  /\ UNCHANGED <<backend, fill, hash, rows, left, found>>

Seed ==
  /\ phase \in {"seed", "reseed"}
  /\ grid' = Strewn /\ frame' = 0
  /\ phase' = IF phase = "seed" THEN "kindle" ELSE "rekindle"
  /\ UNCHANGED <<backend, fill, hash, rows, left, found>>

Kindle ==
  /\ phase \in {"kindle", "rekindle"}
  /\ grid' = Kindled(grid)
  /\ phase' = IF phase = "kindle" THEN "warm up" ELSE "measure"
  /\ left' = IF phase = "kindle" THEN WarmUp ELSE Steps
  /\ found' = [grid |-> grid', frame |-> frame]
  /\ UNCHANGED <<frame, backend, fill, hash, rows>>

Running == phase \in {"warm up", "measure"} /\ left > 0 /\ ~Lost(backend)

StepOnce ==
  /\ Running
  /\ grid' = NextFrame(grid, frame, hash[frame]) /\ frame' = NextOf(frame)
  /\ left' = left - 1
  /\ UNCHANGED <<backend, fill, hash, rows, phase, found>>

\* The CUDA device is lost: the host keeps the grid the batch began with, with
\* the counter of that moment or, after a failed launch, of the batch's end.
LoseDevice ==
  /\ Running /\ backend.id = "Cuda"
  /\ backend' = [backend EXCEPT !.ok = FALSE]
  /\ grid' = found.grid
  /\ frame' \in {found.frame, (frame + left) % FrameMod}
  /\ UNCHANGED <<fill, hash, rows, phase, left, found>>

\* stepMany is back: seed again, or write the row.
Finished == left = 0 \/ Lost(backend)

WarmedUp ==
  /\ phase = "warm up" /\ Finished
  /\ phase' = "reseed" /\ left' = 0
  /\ UNCHANGED <<grid, frame, backend, fill, hash, rows, found>>

Measured ==
  /\ phase = "measure" /\ Finished
  /\ rows' = Append(rows, Outcome(backend.id, TRUE, grid, Lost(backend)))
  /\ phase' = "create" /\ left' = 0
  /\ UNCHANGED <<grid, frame, backend, fill, hash, found>>

\* The verdict, and the exit status with it.
AllMatch == \A row \in Range(rows) : row.ran => row.checksum = rows[1].checksum

Report ==
  /\ phase = "create" /\ Len(rows) = Len(Order)
  /\ phase' = IF AllMatch THEN "ok" ELSE "failed"
  /\ UNCHANGED <<grid, frame, backend, fill, hash, rows, left, found>>

Next == Start \/ Create \/ Seed \/ Kindle \/ StepOnce \/ LoseDevice \/ WarmedUp
          \/ Measured \/ Report

-----------------------------------------------------------------------------
LocalTypeOK ==
  /\ phase \in {"start", "create", "seed", "kindle", "warm up", "reseed", "rekindle", "measure",
               "ok", "failed"}
  /\ left \in 0..(WarmUp + Steps) /\ Len(rows) <= Len(Order)
  /\ found.grid \in Grids /\ found.frame \in Frames

\* benchmark_runner.cpp, "identical start state for all": whatever the warm-up
\* has left in the grid, the counter and the backend, a backend that got to its
\* end holds the world `Steps` frames after seed(), one whose device was lost on
\* the way that of seed() itself; and only such a loss makes the verdict "FAILED".
MeasuredFromSeed ==
  /\ \A row \in Range(rows) : row.ran =>
       row.checksum = FramesOn[IF row.lost THEN 0 ELSE Steps].grid
  /\ phase = "failed" => \E row \in Range(rows) : row.lost
=============================================================================
