# A verification project for BackendRace

BackendRace is a falling-sand simulation with four interchangeable compute
backends.  One frame is three passes over a grid of cells: a vertical exchange
(gravity), a horizontal exchange (spreading), and a decay of fire.  The
program's promise is that every backend makes *the same* frames, and that a
frame moves material without creating or destroying any.

Three programs are built on it: a terminal program, a web page and a benchmark.

The modules here state that promise, model each backend at the granularity at
which it could break it, model the programs around them with their users, check
the models with TLC on small grids, and prove the central properties for every
grid with TLAPS.

## Inventory

| part | source | state | operations | interacts with |
|---|---|---|---|---|
| cell rules | `core/grid.hpp` | none | `densityBiased`, `denserThan`, `swapVertical`, `swapHorizontal`, `decayFire`, `hash32`/`randBit` | called by every backend |
| grid | `core/grid.hpp`, `core/grid.cpp` | two buffers in tiled layout, the frame counter | `set`, `clear`, `paintDisc`, `seedRandom`, `swapBuffers`, `advanceFrame` | owned by the applications, stepped by a backend |
| contract | `core/backend.hpp` | statistics | `step`, `stepMany`, `available` | applications call it |
| scalar backend | `core/passes.hpp`, `backends/naive_cpu.cpp` | none of its own | three passes, each followed by a buffer swap | fallback of AVX2 and of the toy ISA |
| AVX2 backend | `backends/simd_avx2.cpp` | scratch rows | the same passes, 32 lanes at a time | scalar passes when the CPU lacks AVX2 |
| CUDA backend | `backends/cuda_backend.cu`, `backends/cuda_stub.cpp` | two device buffers, their size, `ok_` | `stepMany`: upload, 3 n kernels, synchronise, download | the CUDA runtime |
| toy ISA | `backends/toy_isa/*` | programs; the registers, memory and clock of the machine | `compileVerticalPass`, `execute`, `step` | scalar passes when the machine faults |
| factory | `core/backend.cpp` | none | `createBackend`, `cpuSupportsAvx2` | the programs |
| native program | `app/main_native.cpp` | material, emitter, brush, flags, backend, four probes; the bytes of the terminal | poll and decode keys, clamp, paint, step, draw | grid, backends, terminal |
| web bindings | `web/emscripten_bindings.cpp` | `App`: grid, active backend and its id, probes, pixels | `brInit`, `brStep`, `brRender`, `brBrush`, `brSetBackend`, `brClear`, `brSeed` | called by the page |
| web page | `web/main.js` | the record `S`, the canvas, a note and its timers | boot, frame callback, key, button, slider, mouse and touch listeners | bindings, browser |
| benchmark | `benchmarks/benchmark_runner.cpp` | a grid and a backend per row, the rows | seed, warm up, seed, run, compare checksums | backends |

What is hard here, part by part, and what makes the part correct:

* *The passes* compute every destination cell on its own from the read buffer;
  the two cells of a pair decide separately whether they swap.  Correct means
  that the two decisions always agree: mass is conserved.
* *The backends* spread a frame over many writes into a buffer full of stale
  cells.  Correct means that none of it shows: `step()` looks like one frame.
* *AVX2* keeps rows in rotating scratch buffers and reads over the edges of
  tiles.  Correct means the same frames as the scalar code.
* *CUDA kernels* are concurrent up to a barrier; the *CUDA host* can fail in
  any call, and learns of a failed kernel late.  Correct means that the front
  buffer is never part of a batch and that every call returns.
* *The toy ISA* is a compiler and a machine: correct means that the compiled
  kernels are the vertical pass, that no store reaches the front buffer past the
  machine's check, that the accounting adds up, and that a fault costs nothing but
  time.
* *The border* is a ring of walls by convention only: correct means knowing
  which calls keep it.
* *In the long run* the world must come to rest.
* *The native program* decodes keys of one to three bytes from a terminal that
  delivers bytes when it pleases, and asks one object whether a backend is there
  and steps another.  Correct means that keys do what they say, that the emitter
  paints its whole disc, and that the program ends when told.
* *The web page* shares its state with C++ code below it and runs listeners,
  timers and frames in any order, some before the runtime is there.  Correct means
  that page and bindings agree, that strokes have no gaps and no unwanted
  beginnings, and that the visitor sees the world as it is.
* *The benchmark* compares rows that must depend on the seed alone, whatever the
  warm-up left behind.

`PROJECT.json` lists the hazards line by line with the properties aimed at each.

## Modules

Models, in the order in which they build on each other:

| module | models | one action is |
|---|---|---|
| `Rules` | the predicates of `grid.hpp`, with the 16-entry table and its signed byte compare | - |
| `Passes` | geometry, tiled addressing, and the three scalar passes as functions from grid to grid | - |
| `Grid` | the edits of class `Grid` as functions; the inputs of the environment | - |
| `Simulation` | the abstract specification: a frame, or an edit, in one step | a whole `step()` |
| `NaiveBackend` | `step()` of the scalar backend on two buffers | the write of one cell; a buffer swap |
| `Avx2Backend` | `step()` of the AVX2 backend on two tiled buffers and three scratch rows | the store of one tile row; a buffer swap |
| `CudaKernel` | one thread block of one kernel | a thread's fill, its passing of the barrier, its gather |
| `CudaBackend` | `stepMany` of the CUDA host | a CUDA call, successful or failing |
| `ToyIsa` | opcodes, latencies, the 64-bit encoding | - |
| `ToyCompiler` | `compileVerticalPass`, instruction by instruction | - |
| `ToyMachine` | `execute()` | a turn of its loop |
| `ToyKernel` | compiled kernels on the machine | as `ToyMachine` |
| `ToyBackend` | `step()` around `ToyKernel`, whose memory is the two buffers | a machine step, or a host pass |
| `Backends` | `createBackend`, `available()`, and what a `step()` of each object may leave | - |
| `Options` | the constants of the programs: command line, literals, users | - |
| `NativeApp` | the terminal program | a byte read, a key pressed, a phase of the loop |
| `WebApp` | `main.js` on top of the bindings | a listener, a timer, a frame callback, one `brBrush` of a stroke |
| `Benchmark` | the benchmark | a phase of `runBackend`, one frame of `stepMany` |
| `Programs` | the three programs over one world | a step of the one that was started |

`Simulation` is the specification the others implement: `NaiveBackend`,
`Avx2Backend`, `ToyBackend` and `CudaBackend` each hold an `INSTANCE Simulation`
with a refinement mapping and state `Implements == Sim!Spec` (`CudaBackend`: every step
that does not lose the device is a step of `Simulation`).  For the first two the
mapping shows, while a step is running, the frame it *will* have produced
(`Promised`), so the frame takes effect when the step begins.  For the toy
backend it shows the grid as the step found it, so the frame takes effect when the
step ends.  For CUDA each launch of three kernels is a frame.

The programs use that promise: in `Backends` a step is one frame of `Simulation`,
or the loss of a CUDA device.  `Programs` composes the three programs, which share
the grid, the counter, the backend and the probes, and closes the circle:
`WorldsAreSimulated` says that whatever a program does to its world, from its
start to the loss of a device, is a step of `Simulation` again, so what holds for
`Simulation` holds for the worlds users see.

How names correspond: a definition has the name of the function it models
where there is one (`verticalScalar`, `gatherHaloRow`, `emitPairRow`,
`checkAccess`...); `src` and `dst` are the front and the back buffer; `pc` or
`phase` says where the call is.  `Tile` is `Grid::kTile` and is at the same
time the number of lanes of a vector, as in the code.  A name with a suffix
after an underscore (`verticalCell_UpperOnly`) is a deliberate defect of the
definition after it: with the defect in place the corresponding run fails, which
shows that the property depends on that code.

Abstractions:

* `hash32` is an arbitrary function: a frame picks any of the random words
  `NoiseWords` offers.  Nothing here depends on its statistics; what does matter, that
  all backends use the same word for the same cell, is kept.
* The frame counter wraps at `FrameMod`, a multiple of 4 (2^64 in the code);
  only its two lowest bits and the hash read it.
* `Grid`'s constructor rounds sizes up to a multiple of the tile, which is the
  assumption `GeometryAssumption`.  The tile size is any even number.
* A grid is a function from coordinates to cells; the modules in which the
  layout matters (`Avx2Backend`, the toy modules) use flat buffers and
  `tiledIndex`.
* A scalar register of the toy machine is `WordBits` wide, and addresses wrap at
  `AddrMod`, a multiple of the vector width beyond all registers (2^32 and 2^64 in
  the code).  An access whose end wraps to 0 passes `checkAccess`, with a pointer that
  lies outside of both regions; what the code reads or overwrites there is undefined.
  In the model a load brings any row of the constant `Junk`, and a store hits any
  place of SRC, wholly or in part, or none (SRC is an allocation of its own, so any
  distance from DST is possible).  That the access may end the process, or hit state
  that is not modelled, is left out.
* Timing and statistics fields and text are left out.  `renderRGBA` is abstracted
  to what distinguishes two pictures: the cells and, if there is fire, the frame
  its flicker is taken from.  The checksum of a grid is the grid.
* A terminal that has not delivered a byte yet is a poll that finds nothing, at
  any time.  A byte remembers the key it came from, for the properties alone.
* In `WebApp` a listener that paints a stroke paints it centre by centre, and
  nothing else runs until it is done, as in a browser.  The user has a mouse or up to two
  fingers, which the listeners do not tell apart.
* In `Benchmark` the hash is one function of the frame, chosen at the start, so
  that all backends meet the same words, as in the code.

## Runs

| run | bounds | question |
|---|---|---|
| `simulation_safety` | 4 x 4 cells, tiles of 2, four noise words, brushes of radius -1 and 1, every material, one border cell that can be set | do the per-frame guarantees hold between any edits? |
| `simulation_settles` | 6 x 6, all pictures with up to two grains of any kind or three of sand and water, and all sand/water pictures whose rows are uniform in each half | does an untouched world come to rest? |
| `naive_implements` | 4 x 4, two noise words, every fill of sand and water | does the scalar backend implement `Simulation`, with no stale cell on the way? |
| `avx2_implements` | 4 x 4, four tiles, one noise word, fire set into the border | does the vector backend, and do its scratch rows hold the rows the pass is at? |
| `cuda_block` | 2 x 2 tiles of 4 x 4, blocks of 4 x 2 threads, every block position, two grids with every kind of pair | does a block write its tile of the pass, in every order of its threads? |
| `cuda_host` | 4 x 4, batches of 0, 1 and 3 frames, every call failing or not | what can a failing CUDA call break, and is an undisturbed batch n frames? |
| `cuda_counter` | as `cuda_host` | *violated*: the frame counter after a failure |
| `toy_kernel` | 12 x 18, tiles of 6, 15-bit words, both kernels and fifteen short programs, each on five images | does the machine compute the pass, and does it account for it? |
| `toy_backend` | 6 x 18, tiles of 6, one budget that suffices and one that is spent in the middle of the kernel | does the frame survive a faulting accelerator? |
| `programs` | 6 x 4, tiles of 2, two noise words; two keys of thirteen; three inputs of the visitor at four points; one step of warm-up and two measured | do the programs keep their promises to their users, and do their worlds stay simulations? |
| `native_arrows` | as `programs`, the native program alone with five keys | *violated*: what an arrow key may do |
| `sand_over_floor` | as `simulation_safety` | *violated*: sand does not spread over a floor |

Why the bounds are enough.  A rule looks at a cell, its four neighbours and, in a
pair, the cells above and below the two; a 4 x 4 grid of 2 x 2 tiles has every
position of such a neighbourhood relative to the edges of tiles and of the grid,
and both parities.  `FrameMod = 4` has all four combinations of the two parities.
The toy kernels need three tile rows for their three loop bodies, and a tile of
at least six lanes so that the table lookup reaches the entry of `Wall` (4); the
budget 97 ends in the middle of the first kernel.  Three of the short programs use
the rows below address 0: the load and the store at one row below pass with an end
of 0, and at two rows below the access faults; `AddrMod` = 6 * 2^15 is beyond every
register and immediate.  The CUDA block needs at least
two rows of threads (rows 0 and 1 fetch the halo) and more rows than threads, so
that a thread loops.  In `simulation_settles` the grid has an interior of 4 x 4,
the noise words include the one that never burns anything, and no picture moves
for ever.  Everything about a frame that the two larger claims need for *every*
size is proved (below).

The programs' literals are scaled to the grid: brush 1 to 2 (`StartBrush`,
`MaxBrush`; 5 and 24 in the code), the page's brush 1 (`PageBrush`; 6), the fire of
the benchmark 2 rows above the bottom with radius 1 (`FireDepth`, `FireRadius`; 8
and 6); the start row 6 and the stride 3 of the emitter are the code's, which
puts the emitter outside of the grid from the start, so the clamp is always at
work.  `MaxPresses` = 2 lets every key meet every other, and an arrow and a key
fill the wire with four bytes; the decoder's state is one sequence long.
`MaxInputs` = 3 is the shortest that pauses, paints and moves on, or presses, drags
over three columns and releases; the points are on, at the edge of and off the
canvas.  Two measured steps after one of warm-up make a frame counter that was not
reset differ in both parities.

Deadlock is checked but for `cuda_block`, `toy_kernel`, `programs` and
`native_arrows`: a block whose threads have returned, a machine that has halted, a
program that has ended and a visitor who has gone stop.

### Fairness

* `Simulation!Untouched`: `WF(Step)`.  The main loops call `step()` again and
  again (unless paused).  User edits are never fair.
* `CudaBackend`: `WF(Work)`.  A call runs on the thread that called it, and
  nothing in it waits for anything but the CUDA runtime, whose calls are assumed
  to return, successfully or not.  Edits happen only between calls, on the same
  thread, so they cannot starve it.
* `CudaKernel`: `WF(Next)`, the block as a whole makes progress while it can.
* `ToyMachine`: `WF(Execute)`, the loop of `execute()` runs.
* `NaiveBackend`, `Avx2Backend` and `ToyBackend` are checked for safety only: each
  call is a loop over the rows of the grid, or a run of the machine and two such
  loops.
* `Programs`: `WF` of the loop of the native program, which never waits for
  anything, and `SF` of its reading a key: a byte that was typed reaches the loop
  in the end, although any single poll may come too early.  For the page, `WF` of the rest of a
  stroke (a listener runs to its end) and `SF` of the frame callback while the page
  is paused: the browser keeps calling it back between the other listeners.  Users
  are never fair.

### What the violated runs show

1. `cuda_counter`: `runFrames` calls `advanceFrame()` while it queues kernels, and
   checks errors afterwards.  After a failed kernel or copy the frame counter is n
   frames ahead of the grid.
2. `native_arrows`: the README has arrows move the emitter, also over SSH.  When
   the terminal delivers a right arrow in two pieces, the two polls after the ESC
   find nothing, and the `C` that follows is the key that clears the grid.
3. `sand_over_floor`: a test requires sand to move sideways along a wall; the
   rule (and the comment above it) wants empty space under the destination.

Other disagreements met while reading, which no run shows:

* `isa_spec.md:36` promises `STORE_PROTECTION` for any store outside of DST; in
  `interpreter.cpp` a misaligned one raises `Alignment` and one past the image
  `OutOfRange`, as `checkAccess` in `ToyMachine` has it.  One raises no fault at all:
  the store at 2^64 - 32 (base 0, immediate -32), whose end `addr + 32` is 0 in the
  64 bits of `interpreter.cpp:38`.  `SrcUntouched` names it as the only exception, and
  the program `store_below` of `MCToyKernel` runs it.  The compiler emits no negative
  immediate; that no kernel changes SRC is the theorem `KernelsKeepSource`.
* `tests/test_toy_isa.cpp:478` requires one load and one store per row of a tile;
  the kernel of `compiler.cpp`, as `emitPairRow` in `ToyCompiler` has it, loads both
  rows of a pair.
* `isa_spec.md:87` defines `VSHUF` as `vd[i] = vs1[vs2[i] & 15]`; `interpreter.cpp`
  writes `vd` byte by byte while it reads `vs1`, so with `vd = vs1` an index below `i`
  finds a byte already replaced.  `Shuffled` in `ToyMachine` has the loop of the
  code; `ShuffleIsLookup` proves that it is the table look-up when `vd` and `vs1`
  differ, as they do in what the compiler emits.
* The note "paused" of the page stands until the timer of an older note blanks it
  (`WebApp!TimerFires`); `BackendNotesExpire` is about the other notes.
* The cycles the benchmark prints for the toy ISA include those of the warm-up.
* A CUDA device that is lost in a benchmark is reported as a failure of
  determinism; `MeasuredFromSeed` says that nothing else is.

## Proofs

All theorems are checked by TLAPS for every grid size, tile size, set of noise
words, set of edits and length of run the assumptions of `Passes` and `Grid`
admit.

### What is proved

* `Grid_proofs`, the cell rules: the biased signed compare is the density order; a
  vertical swap is strict and involves no wall; the two lateral directions exclude
  each other.
* `Grid_proofs`, whole passes.  The argument for conservation: a pass
  is a permutation of the grid.  `FallingPairInside` and `SpreadingPairInside`
  say that a pair that swaps lies inside the grid (the outside is `Wall`, and a
  wall never swaps); `VerticalGathers` and `HorizontalGathers` say that the pass
  reads, at every cell, the cell an *involution* of the coordinates names, the
  one that exchanges the swapping pairs; `InvolutionKeepsCounts` says that
  gathering through an involution keeps the number of cells of every kind.
  Together they are `ExchangeKeepsCounts`.
* `Simulation_proofs`: `TypeCorrect`, then from it and the facts above
  `MassIsConserved`, `WallsAreFixed`, `WaterAlwaysQuenches`, `BorderHolds` and
  `SandOnlySinks`.  The last one counts the grains at or below a row: the
  vertical pass maps the grains of a row to the same row or the next lower one,
  injectively, because only sand of the upper half of a pair can move.
* `NaiveBackend_proofs`: the inductive invariant is `TypeOK` and `Progress`: the
  written part of the back buffer is the pass applied to the front buffer.
  `TypeOK` alone says nothing about the stale cells; `Progress` at the end of the
  scan says that the back buffer *is* the pass (`PassIsComplete`), hence the swap
  does what one step of the mapping promises, and `NaiveImplementsSimulation`
  follows action by action.
* `Avx2Backend_proofs`: `RotationIsExact` and `Avx2ImplementsSimulation`.  Three
  layers.  Addresses (in `Grid_proofs`, for the toy kernels too): lane i of row r of
  tile t is at `At(t, r, i)`, every cell and every address has exactly one such place,
  and `tiledIndex` and `CoordOf` are inverse to each other (`AddressOfCell`,
  `IndexInverse`).  Rows: what
  `gatherHaloRow` brings is what `sampleCell` reads, in the halo and outside of the
  grid too (`HaloIsSample`), the partner row of the vertical pass is the row above
  or below, across the edge of a tile too (`RowAbove`, `RowBelow`), and the vector
  a turn stores is, lane by lane, the scalar cell (`VerticalRowIsScalar`,
  `HorizontalRowIsScalar`, `DecayRowIsScalar`).  Steps: the inductive invariant is
  `RotationKeepsRows` and `Progress`, the destination exact in every row behind the
  loop counters; neither is inductive alone, since the cells of a row are exact only
  if the rows it was computed from are.  The invariant asks nothing of the scratch
  rows when a tile begins: the stale cells cannot matter.
* `CudaKernel_proofs`: `BlocksComputePass` and `BlockTypeOK`.  The inductive
  invariant `BlockInv` says what each thread has filled and gathered at its place in
  the kernel; that no thread gathers before all have filled is the barrier, and that
  all together fill every slot a gather reads is arithmetic (`RingIsShared`: the
  stride of the ring loop gives each of the `4 * Tile + 4` slots a thread;
  `RowsAreShared`).  `BlocksPartitionGrid`: each cell belongs to exactly one block,
  so the blocks of a launch, which share nothing but the input, write the whole pass.
* `CudaBackend_proofs`: the inductive invariant adds `CallInv` to `TypeOK` and
  `BuffersAllocated`: inside a call the backend is still available and the front
  buffer is the one the call found, and the download starts with no frame left to
  launch.  Neither of the other two says anything of the front buffer, and
  `BatchesAreAtomic`, `LossIsFinal` and `CudaImplementsUntilLost` all rest on it.
* `ToyBackend_proofs`, the machine, for *every* program and image, not only those
  the compiler makes: `CyclesAreAccounted`, `ClassesPartition`, `MachineTypeOK` and
  `SourceIsSafe` (SRC changes by the store with the wrapped end and by no other), from
  the inductive invariant `MachineInv`; it bounds the scoreboard by the clock and the
  longest latency, without which the stalls would not be known to be numbers.  `ShuffleIsLookup` says when `VSHUF` is the lookup of `isa_spec.md`:
  whenever its destination is not its own table.
* `ToyBackend_proofs`, the kernels: `KernelInvariant`, `KernelGravityHolds`,
  `KernelReadsOnlySource` and `KernelsKeepSource`, for every grid, parity and contents of both buffers.  The
  text: `DecodeEncode` (a word decodes to the instruction it was encoded from),
  then what the words of a kernel are.  A kernel is a prologue, at most three loops
  and a HALT; the body of a loop is one part for each row of a tile, two words for a
  row that is copied and nine for one whose cells have partners.  So each word of a
  kernel has a name made of its group, its row and its place in the row (`InHead`,
  `InCopiedRow`, `InPairedRow`, `InTail`), however long the kernel is.  The run:
  `KernelInv` says that a running kernel is at such a place (`Located`) with the
  pointers of the tile under way in the scalar registers, with the halves of the
  pairs, their densities or their mask in each lane of the vector registers as far as
  the row has got (`Lane`), and with DST written up to that row (`Written`).
  `PlaceStep` is the step from place to place, one lemma for each kind.  That
  `VCMPGT`, `VCMPEQ` and `VANDN` on bytes are the rule `swapVertical` is `LaneRules`;
  that the two addresses of a row are those of the two rows of its pairs, across the
  edge of a tile too, are `UpperRowAt` and `LowerRowAt`.  The invariant also counts
  the instructions, at most `9 * Tile + 7` a tile and 11 more: with such a budget the
  only end is the HALT, behind which all of DST is the pass.
* `ToyBackend_proofs`, the backend: `ToyImplementsSimulation`.  `BackendInv` says
  which passes the front buffer has been through since the step began and, while the
  accelerator runs, `KernelInv`.  Nothing is asked of the budgets: a kernel that
  halts left the pass in the back buffer, and one that stops earlier left the front
  buffer alone, from which the host makes the same pass.
* `Programs_proofs`, by program.  The terminal: `EmitterAlwaysPaints` (the invariant
  `NativeInv` adds that no sequence is being read outside of the input phase, hence
  nothing gets between the clamp, the painting and the step) and
  `KeysAreUnderstood` (as long as no sequence was torn, what was read of one and
  what is on the wire are together whole sequences, `Expected`).  The page:
  `PageNamesActiveBackend`, `BackendNotesAlwaysExpire`, `StrokesNeedPointer` (the
  invariant `WebInv` ties the three copies of the chosen backend together and the
  page's pointer to the user's) and `StrokesHaveNoGaps`, from the rounding of
  `paintAt`.  The benchmark: `RowsDependOnSeed`; the invariant `MeasuredInv` says
  that after the second `seed()` the world is that of the recursion `FramesOn`, frame
  by frame, or that of the seed once the device is lost.
* `Programs_proofs`, all three: `ProgramsTypeOK` and `ProgramsSimulate`.  The
  types are not inductive as `TypeOK` states them: a reseeded world is
  the simulation's only if the border was closed, an arrow moves the emitter off the
  grid only as far as bytes were typed, a byte of a sequence is one of three.
  `Typed` adds these, and `WorldMoves` names what a program may do to its world: so
  the types and the refinement are argued once per kind of move and not once per
  listener.

### How

Invariance is `Init => Inv`, `Inv /\ [Next]_vars => Inv'` by one step per action, and
the temporal step on top; TLC had checked each invariant on the runs' instances.
Three devices recur:

* A module instantiated with `WITH` brings its own copy of each operator it is built
  from.  Lemmas called `Same...`, `...Operators` say that the copies are the originals
  (the constants are substituted by themselves), and are cited from there on.
* Induction over the natural numbers is by sets: `SetInduction` (a set that holds 0
  and the successor of each of its elements is `Nat`), and `NatRecursion` for what a
  recursive function computes.  Both are proved in `Grid_proofs` from
  well-foundedness.
* Addresses, threads and coordinates are quotients and remainders; `DivMod` and
  `DivModUnique` are the only facts about them that are needed.

### Assumptions

`GeometryAssumption` (sides are multiples of an even tile), `InputAssumption` (types
of the environment's inputs) and, for `Simulation`, `PicturesAssumption`, for
`CudaBackend` `CallAssumption` (batches are integers), for `CudaKernel`
`KernelAssumption`, for the machine `MachineAssumption`, `AddressAssumption` (the
address space is a multiple of the vector width, larger than the values of a register
and than both regions) and `ProgramsAssumption` (a program is a list of words of sixteen
hexadecimal digits), for the kernels `KernelAssumption` (a vector is a row of a
tile, SRC is a grid of cells, both regions together have no more bytes than a
scalar register has values, and the bytes of a grid fit an immediate of 32 bits,
signed: the code computes them as an `int32_t`), for the toy backend
`BackendAssumption` (it has both kernels), for the programs the assumptions of `Backends`
and `Options` (the name `"ESC"` of the byte is not the name of a key).  TLC evaluates
all of them in the runs.

Hypotheses of single theorems: a budget of `N * (9 * Tile + 7) + 11` instructions
for a grid of `N` tiles in `KernelGravityHolds` (a grid that fits an immediate has
less than 2^21 tiles, which need less than 2^30 instructions; `maxInstructions` is
2^34); `VecBytes >= 16` in `MachineTypeOK` and
`ShuffleIsLookup`, since `VSHUF` masks its index with 15 whatever the width (32 in
the code); and in the theorems about the programs that seed or clamp `W > 2` and
`H > 2`, a grid with an interior, and `FireDepth \in 1..H`, the fire of the
benchmark on the grid (the smallest grid the constructor makes is 32 by 32, and the
depth is 8).

### Only model-checked

* Liveness, which is out of the prover's reach: `SandSettles`, `SandRests`,
  `WaterComesDown`, `BlockFinishes`, `CallReturns`, `RunEnds`, `QuitEnds`,
  `CanvasIsCurrent`.
* What single programs of `MCToyKernel` do; the theorems about the machine are
  about all programs at once.

All other properties of the passing runs are stated by a theorem.

## Modelled, but excluded by no property

* A `VSHUF` onto its own table: the compiler emits none, so no kernel can go wrong
  by it.
* A torn arrow sequence, beyond the violated run: `KeysUnderstood` and `QuitEnds` say
  nothing once a sequence was torn or ESC was pressed.
* A probe and a stepping object that disagree because a device was lost.  The code
  never compares the two; `WorldsAreSimulated` exempts the loss, and `FrozenOnceLost`
  says that the world stands still from then on.
* A mouse that paints after a touch was cancelled, since no listener hears
  `touchcancel`: `OnlyHeldPointersPaint` exempts it (`cancelled`).
* A stroke from one finger to another: to `StrokeConnected` it is connected, and to
  `OnlyHeldPointersPaint` a finger is down.

## Not modelled

* Drawing in the terminal, the overlay, statistics, disassembly, timing figures,
  tables and the parsing of command lines: no property here is about them.
* `brAddCell`, `setFrame`, `copyToDst`, `patchImm`, `isVectorOp`: nothing in the
  three programs calls them.
* A click on a backend button before the runtime is there: the call throws before
  it changes anything.
* The build, the deployment workflow and the tests (the tests were read for
  what they claim).

## Plan

1. Two grids of different size on one toy backend (`ensureProgram`), which no
   program of the repository does: each makes one grid per backend object.
2. `stepMany` of the backends that inherit it from `IBackend`: n calls of `step()`,
   which is what `Benchmark` takes it for.
