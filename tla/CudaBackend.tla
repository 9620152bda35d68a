----------------------------- MODULE CudaBackend -----------------------------
(***************************************************************************)
(* The host side of backends/cuda_backend.cu: stepMany uploads the front   *)
(* buffer once, launches three kernels per frame, and copies the result    *)
(* back once.  Launches are asynchronous: an error of any kernel is seen   *)
(* only after all frames have been launched.  What the kernels compute is  *)
(* the subject of CudaKernel.                                              *)
(***************************************************************************)
EXTENDS Grid

CONSTANTS Batches,    \* values of n the callers pass to stepMany
          Failures    \* CUDA calls that may fail: "malloc", "upload", "run", "download"

ASSUME CallAssumption ==
  /\ Batches \subseteq Int
  /\ Failures \subseteq {"malloc", "upload", "run", "download"}

VARIABLES src, dst,   \* the grid's two buffers
          frame,
          ok,         \* ok_, what available() reports
          dA, dB,     \* which device buffers are allocated
          bytes,      \* bytes_, the size the device buffers are known to have
          device,     \* contents of the device buffer `a` of runFrames
          pc,         \* "idle" outside of stepMany
          todo,       \* frames still to launch
          found       \* auxiliary: grid, frame counter and n at the call

memory == <<dA, dB, bytes>>
vars == <<src, dst, frame, ok, memory, device, pc, todo, found>>

GridBytes == Size

-----------------------------------------------------------------------------
Init ==
  /\ src = Cleared /\ dst = Blank /\ frame = 0
  /\ ok \in BOOLEAN                    \* a usable device was found, or not
  /\ dA = FALSE /\ dB = FALSE /\ bytes = 0
  /\ device = Blank
  /\ pc = "idle" /\ todo = 0
  /\ found = [grid |-> Cleared, frame |-> 0, n |-> 0]

StepMany_IgnoresLoss(n) ==
  /\ pc = "idle" /\ n > 0
  /\ pc' = "ensure" /\ todo' = n
  /\ found' = [grid |-> src, frame |-> frame, n |-> n]
  /\ UNCHANGED <<src, dst, frame, ok, memory, device>>

StepMany(n) ==
  /\ pc = "idle" /\ ok /\ n > 0
  /\ pc' = "ensure" /\ todo' = n
  /\ found' = [grid |-> src, frame |-> frame, n |-> n]
  /\ UNCHANGED <<src, dst, frame, ok, memory, device>>

\* A backend that is not ok_, or n <= 0: the call returns at once.
StepNothing(n) ==
  /\ pc = "idle"
  /\ ~ok \/ n <= 0
  /\ UNCHANGED vars

\* Any failing call makes stepMany give up and the backend unavailable for good.
Fail(call) ==
  /\ call \in Failures
  /\ ok' = FALSE /\ pc' = "idle"

BuffersReady ==
  /\ pc = "ensure" /\ bytes = GridBytes /\ dA /\ dB
  /\ pc' = "upload"
  /\ UNCHANGED <<src, dst, frame, ok, memory, device, todo, found>>

\* release(), then two cudaMalloc.
Allocate ==
  /\ pc = "ensure" /\ ~(bytes = GridBytes /\ dA /\ dB)
  /\ dA' = TRUE /\ dB' = TRUE /\ bytes' = GridBytes
  /\ pc' = "upload"
  /\ UNCHANGED <<src, dst, frame, ok, device, todo, found>>

AllocateFails_SizeFirst ==
  /\ pc = "ensure" /\ ~(bytes = GridBytes /\ dA /\ dB)
  /\ Fail("malloc")
  /\ dA' \in BOOLEAN /\ dB' = FALSE /\ bytes' = GridBytes
  /\ UNCHANGED <<src, dst, frame, device, todo, found>>

\* The first or the second cudaMalloc fails; bytes_ stays 0.
AllocateFails ==
  /\ pc = "ensure" /\ ~(bytes = GridBytes /\ dA /\ dB)
  /\ Fail("malloc")
  /\ dA' \in BOOLEAN /\ dB' = FALSE /\ bytes' = 0
  /\ UNCHANGED <<src, dst, frame, device, todo, found>>

Upload ==
  /\ pc = "upload"
  /\ device' = src
  /\ pc' = "launch"
  /\ UNCHANGED <<src, dst, frame, ok, memory, todo, found>>

UploadFails ==
  /\ pc = "upload"
  /\ Fail("upload")
  /\ UNCHANGED <<src, dst, frame, memory, device, todo, found>>

Launch_NeverEnds ==
  /\ pc = "launch" /\ todo > 0
  /\ \E noise \in NoiseWords : device' = NextFrame(device, frame, noise)
  /\ frame' = NextOf(frame)
  /\ UNCHANGED <<src, dst, ok, memory, pc, todo, found>>

Launch_OneCounter ==
  /\ pc = "launch" /\ todo > 0
  /\ \E noise \in NoiseWords : device' = NextFrame(device, frame, noise)
  /\ frame' = IF todo = 1 THEN NextOf(frame) ELSE frame
  /\ todo' = todo - 1
  /\ UNCHANGED <<src, dst, ok, memory, pc, found>>

\* Three kernels of one frame; the counter is advanced without waiting for them.
Launch ==
  /\ pc = "launch" /\ todo > 0
  /\ \E noise \in NoiseWords : device' = NextFrame(device, frame, noise)
  /\ frame' = NextOf(frame)
  /\ todo' = todo - 1
  /\ UNCHANGED <<src, dst, ok, memory, pc, found>>

\* cudaGetLastError and cudaDeviceSynchronize.
Synchronise ==
  /\ pc = "launch" /\ todo = 0
  /\ pc' = "download"
  /\ UNCHANGED <<src, dst, frame, ok, memory, device, todo, found>>

SynchroniseFails ==
  /\ pc = "launch" /\ todo = 0
  /\ Fail("run")
  /\ UNCHANGED <<src, dst, frame, memory, device, todo, found>>

Download ==
  /\ pc = "download"
  /\ dst' = src /\ src' = device      \* into the back buffer, then swapBuffers
  /\ pc' = "idle"
  /\ UNCHANGED <<frame, ok, memory, device, todo, found>>

DownloadFails_SwapsAnyway ==
  /\ pc = "download"
  /\ Fail("download")
  /\ src' = dst /\ dst' = src
  /\ UNCHANGED <<frame, memory, device, todo, found>>

\* None or all of the back buffer is overwritten (the part does not matter: it is
\* not swapped in).
DownloadFails ==
  /\ pc = "download"
  /\ Fail("download")
  /\ dst' \in {dst, device}
  /\ UNCHANGED <<src, frame, memory, device, todo, found>>

Work == \/ BuffersReady \/ Allocate \/ AllocateFails \/ Upload \/ UploadFails
        \/ Launch \/ Synchronise \/ SynchroniseFails \/ Download \/ DownloadFails

\* The edits of class Grid, between two calls.
SetCell ==
  /\ \E p \in Targets, c \in Materials : src' = [src EXCEPT ![p] = c]
  /\ UNCHANGED <<dst, frame>>

PaintDisc ==
  /\ \E p \in Targets, r \in Radii, c \in Materials : src' = Painted(src, p, r, c)
  /\ UNCHANGED <<dst, frame>>

Clear == src' = Cleared /\ dst' = Blank /\ frame' = 0

Seed ==
  /\ \E fill \in SeedFills : src' = Seeded(src, fill)
  /\ frame' = 0
  /\ UNCHANGED dst

Edit == /\ pc = "idle"
        /\ SetCell \/ PaintDisc \/ Clear \/ Seed
        /\ UNCHANGED <<ok, memory, device, pc, todo, found>>

Next == Work \/ Edit \/ \E n \in Batches : StepMany(n) \/ StepNothing(n)

Spec == Init /\ [][Next]_vars

\* stepMany runs on the thread of its caller until it returns.
FairSpec == Spec /\ WF_vars(Work)

-----------------------------------------------------------------------------
TypeOK ==
  /\ src \in Grids /\ dst \in Grids /\ device \in Grids
  /\ frame \in Frames
  /\ ok \in BOOLEAN /\ dA \in BOOLEAN /\ dB \in BOOLEAN
  /\ bytes \in {0, GridBytes}
  /\ pc \in {"idle", "ensure", "upload", "launch", "download"}
  /\ todo \in Nat

\* The device buffers are used only while both are allocated with the size of
\* the grid, also when an earlier allocation had failed half way.
BuffersAllocated ==
  /\ pc \in {"upload", "launch", "download"} => dA /\ dB /\ bytes = GridBytes
  /\ bytes = GridBytes => dA /\ dB

\* The front buffer is never half a batch: when a call returns it holds either
\* what the caller passed in or, with the backend still available, the result
\* of all n frames.
ReturnsAllOrNothing ==
  [][pc # "idle" /\ pc' = "idle" =>
       IF ok' THEN src' = device /\ todo = 0 ELSE src' = found.grid]_vars

\* A lost device stays lost, and from then on nothing but the user's edits
\* changes the grid: the world is frozen while the callers go on stepping.
FrozenOnceLost == [][~ok => ~ok' /\ (src' # src => Edit)]_vars

\* Every call returns, failures included.
CallReturns == pc # "idle" ~> pc = "idle"

\* While the frames are on the device the grid is there.
Sim == INSTANCE Simulation
         WITH Pictures <- {},
              grid     <- IF pc \in {"launch", "download"} THEN device ELSE src

\* Every step but the one that loses the device is a step of the simulation: a
\* call that no CUDA failure disturbs makes n frames, one per launch.
ImplementsUntilLost ==
  Sim!Init /\ [][Sim!Next \/ (ok /\ ~ok')]_(Sim!vars)

\* backend.hpp: step() is to "Advance the simulation by one frame (three passes
\* + frame counter)": when a call has returned, the counter has advanced by as
\* many frames as the grid has.
CounterMatchesGrid ==
  [][pc # "idle" /\ pc' = "idle" =>
       \/ src' = found.grid /\ frame' = found.frame
       \/ ok' /\ frame' = (found.frame + found.n) % FrameMod]_vars
=============================================================================
