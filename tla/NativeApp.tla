------------------------------ MODULE NativeApp ------------------------------
(***************************************************************************)
(* app/main_native.cpp: the terminal program.  Its loop drains the bytes   *)
(* the terminal has delivered, paints what the emitter emits, makes one    *)
(* frame and draws it.  An arrow key arrives as three bytes, ESC [ and a   *)
(* letter, which the terminal may deliver in pieces.                       *)
(***************************************************************************)
EXTENDS Options, Sequences, Functions

VARIABLES grid, frame,  \* the grid of the program
          backend,      \* the object that steps it
          probes,       \* what available() of the four probe objects answers
          user,         \* material, brush, paused, emitting, running
          emitter,      \* cx and cy
          wire,         \* bytes typed and not read yet
          escape,       \* the bytes read so far of an escape sequence
          pc,           \* where the loop is
          presses,      \* keys pressed so far
          torn          \* history: a sequence was read in pieces, or ESC pressed

world  == <<grid, frame>>
locals == <<user, emitter, wire, escape, pc, presses, torn>>
vars   == <<grid, frame, backend, probes, user, emitter, wire, escape, pc,
            presses, torn>>

ArrowKeys == {"up", "down", "left", "right"}
LetterOf  == [up |-> "A", down |-> "B", right |-> "C", left |-> "D"]

\* A byte remembers the key it comes from, for the properties only.
BytesOf(key) ==
  LET Byte(code) == [code |-> code, key |-> key]
  IN  IF key \in ArrowKeys THEN <<Byte("ESC"), Byte("["), Byte(LetterOf[key])>>
      ELSE IF key = "esc" THEN <<Byte("ESC")>>
      ELSE <<Byte(key)>>

NoByte == [code |-> "none", key |-> "none"]

BackendOf  == [key \in {"1", "2", "3", "4"} |->
                 CASE key = "1" -> "Naive" [] key = "2" -> "Avx2"
                   [] key = "3" -> "Cuda"  [] key = "4" -> "ToyIsa"]
MaterialOf == [q |-> Sand, w |-> Water, e |-> Fire, r |-> Wall, z |-> Empty]

\* What a key of the switch makes of the user's settings.
Setting_BrushToZero(code, u) ==
  CASE code \in DOMAIN MaterialOf -> [u EXCEPT !.material = MaterialOf[code]]
    [] code = " " -> [u EXCEPT !.emitting = ~u.emitting]
    [] code = "p" -> [u EXCEPT !.paused = ~u.paused]
    [] code = "+" -> [u EXCEPT !.brush = IF u.brush < MaxBrush THEN u.brush + 1 ELSE u.brush]
    [] code = "-" -> [u EXCEPT !.brush = IF u.brush > 0 THEN u.brush - 1 ELSE u.brush]
    [] code = "x" -> [u EXCEPT !.running = FALSE]

Setting(code, u) ==
  CASE code \in DOMAIN MaterialOf -> [u EXCEPT !.material = MaterialOf[code]]
    [] code = " " -> [u EXCEPT !.emitting = ~u.emitting]
    [] code = "p" -> [u EXCEPT !.paused = ~u.paused]
    [] code = "+" -> [u EXCEPT !.brush = IF u.brush < MaxBrush THEN u.brush + 1 ELSE u.brush]
    [] code = "-" -> [u EXCEPT !.brush = IF u.brush > 1 THEN u.brush - 1 ELSE u.brush]
    [] code = "x" -> [u EXCEPT !.running = FALSE]

SettingCodes == DOMAIN MaterialOf \cup {" ", "p", "+", "-", "x"}
ClearCodes   == {"c", "C"}
SwitchCodes  == SettingCodes \cup ClearCodes \cup {"s"} \cup DOMAIN BackendOf

\* What the letter of an arrow makes of the emitter.
Moved(at, code) ==
  CASE code = "A" -> <<at[1], at[2] - 3>>
    [] code = "B" -> <<at[1], at[2] + 3>>
    [] code = "D" -> <<at[1] - 3, at[2]>>
    [] code = "C" -> <<at[1] + 3, at[2]>>
    [] OTHER      -> at

\* Before it paints, the loop brings the emitter back into the interior.
Clamp(at) ==
  LET Into(v, top) == IF v > top THEN top ELSE IF v < 1 THEN 1 ELSE v
  IN  <<Into(at[1], W - 2), Into(at[2], H - 2)>>

-----------------------------------------------------------------------------
LocalInit ==
  /\ user = [material |-> Sand, brush |-> StartBrush, paused |-> FALSE,
             emitting |-> TRUE, running |-> TRUE]
  /\ emitter = <<W \div 2, 6>>
  /\ wire = <<>> /\ escape = <<>>
  /\ pc = "start" /\ presses = 0 /\ torn = FALSE

\* AVX2 if it is there, the naive backend otherwise.
Start ==
  /\ pc = "start" /\ pc' = "input"
  /\ \E fill \in SeedFills : grid' = Seeded(grid, fill)
  /\ frame' = 0
  /\ probes' \in Probes
  /\ backend' \in createBackend(IF probes'["Avx2"] THEN "Avx2" ELSE "Naive")
  /\ UNCHANGED <<user, emitter, wire, escape, presses, torn>>

Press(key) ==
  /\ presses < MaxPresses /\ presses' = presses + 1
  /\ pc \notin {"start", "ended"}
  /\ wire' = wire \o BytesOf(key)
  /\ torn' = (torn \/ key = "esc")
  /\ UNCHANGED <<world, backend, probes, user, emitter, escape, pc>>

\* pollByte in the loop head: it finds a byte with one of these codes, ...
Reads(codes) ==
  /\ pc = "input" /\ escape = <<>>
  /\ wire # <<>> /\ Head(wire).code \in codes
  /\ wire' = Tail(wire)
  /\ UNCHANGED <<probes, emitter, pc, presses, torn>>

\* ... and a key that changes a setting, ...
KeySetting ==
  /\ Reads(SettingCodes)
  /\ user' = Setting(Head(wire).code, user)
  /\ UNCHANGED <<world, backend, escape>>

KeyClear ==
  /\ Reads(ClearCodes)
  /\ grid' = Cleared /\ frame' = 0
  /\ UNCHANGED <<backend, user, escape>>

KeySeed ==
  /\ Reads({"s"})
  /\ \E fill \in SeedFills : grid' = Seeded(Cleared, fill)
  /\ frame' = 0
  /\ UNCHANGED <<backend, user, escape>>

\* ... or a backend: the probe is asked, and another object is made.
KeyBackend ==
  /\ Reads(DOMAIN BackendOf)
  /\ LET id == BackendOf[Head(wire).code]
     IN  IF probes[id] THEN backend' \in createBackend(id) ELSE UNCHANGED backend
  /\ UNCHANGED <<world, user, escape>>

KeyIgnored ==
  /\ pc = "input" /\ escape = <<>>
  /\ wire # <<>> /\ Head(wire).code \notin SwitchCodes \cup {"ESC"}
  /\ wire' = Tail(wire)
  /\ UNCHANGED <<world, backend, probes, user, emitter, escape, pc, presses, torn>>

KeyEscape ==
  /\ Reads({"ESC"})
  /\ escape' = <<Head(wire)>>
  /\ UNCHANGED <<world, backend, user>>

\* The two polls after an ESC do not wait: when the next byte has not been
\* delivered yet they find nothing.
Polls(byte) ==
  \/ /\ wire # <<>> /\ byte = Head(wire)
     /\ wire' = Tail(wire)
     /\ UNCHANGED torn
  \/ byte = NoByte /\ torn' = TRUE /\ UNCHANGED wire

Pollable == {NoByte} \cup {byte \in Range(wire) : byte = Head(wire)}

PollFirst ==
  /\ Len(escape) = 1
  /\ \E a \in Pollable : Polls(a) /\ escape' = Append(escape, a)
  /\ UNCHANGED <<world, backend, probes, user, emitter, pc, presses>>

PollSecond_NotPolled ==
  /\ Len(escape) = 2
  /\ escape' = <<>>
  /\ emitter' = IF escape[2].code = "[" /\ wire # <<>>
                THEN Moved(emitter, Head(wire).code) ELSE emitter
  /\ UNCHANGED <<world, backend, probes, user, wire, pc, presses, torn>>

PollSecond ==
  /\ Len(escape) = 2
  /\ escape' = <<>>
  /\ \E b \in Pollable :
        /\ Polls(b)
        /\ emitter' = IF escape[2].code = "[" THEN Moved(emitter, b.code) ELSE emitter
  /\ UNCHANGED <<world, backend, probes, user, pc, presses>>

\* The loop head finds no byte: nothing typed, or nothing delivered yet.
NoKey ==
  /\ pc = "input" /\ escape = <<>> /\ pc' = "paint"
  /\ UNCHANGED <<world, backend, probes, user, emitter, wire, escape, presses, torn>>

Paint_BeforeClamp ==
  /\ pc = "paint" /\ pc' = "step"
  /\ emitter' = Clamp(emitter)
  /\ grid' = IF user.emitting THEN Painted(grid, emitter, user.brush, user.material)
             ELSE grid
  /\ UNCHANGED <<frame, backend, probes, user, wire, escape, presses, torn>>

Paint ==
  /\ pc = "paint" /\ pc' = "step"
  /\ emitter' = Clamp(emitter)
  /\ grid' = IF user.emitting THEN Painted(grid, emitter', user.brush, user.material)
             ELSE grid
  /\ UNCHANGED <<frame, backend, probes, user, wire, escape, presses, torn>>

\* Step unless paused, draw, and back to the head of the loop.
StepAndDraw_NeverEnds ==
  /\ pc = "step" /\ pc' = "input"
  /\ UNCHANGED <<probes, user, emitter, wire, escape, presses, torn>>
  /\ IF user.paused THEN UNCHANGED <<grid, frame, backend>>
     ELSE \E made \in StepOutcomes(backend, grid, frame) :
            backend' = made.backend /\ grid' = made.grid /\ frame' = made.frame

StepAndDraw ==
  /\ pc = "step" /\ pc' = IF user.running THEN "input" ELSE "ended"
  /\ UNCHANGED <<probes, user, emitter, wire, escape, presses, torn>>
  /\ IF user.paused THEN UNCHANGED <<grid, frame, backend>>
     ELSE \E made \in StepOutcomes(backend, grid, frame) :
            backend' = made.backend /\ grid' = made.grid /\ frame' = made.frame

ReadKey == KeySetting \/ KeyClear \/ KeySeed \/ KeyBackend \/ KeyIgnored \/ KeyEscape
Loop    == Start \/ PollFirst \/ PollSecond \/ NoKey \/ Paint \/ StepAndDraw
Typing  == \E key \in Keys : Press(key)
Next    == ReadKey \/ Loop \/ Typing

-----------------------------------------------------------------------------
Interiors == (1..(W - 2)) \X (1..(H - 2))

LocalTypeOK ==
  /\ user \in [material : Cells, brush : 1..MaxBrush, paused : BOOLEAN,
               emitting : BOOLEAN, running : BOOLEAN]
  /\ emitter \in LET far == 3 * MaxPresses
                  IN  (-far..W + far) \X (-far..H + 6 + far)
  /\ {byte.key : byte \in Range(wire) \cup Range(escape)} \subseteq Keys \cup {"none"}
  /\ Len(wire) <= 3 * MaxPresses /\ Len(escape) <= 2
  /\ pc \in {"start", "input", "paint", "step", "ended"}
  /\ presses \in 0..MaxPresses /\ torn \in BOOLEAN

\* When a frame is made the emitter has just painted: wherever the arrows have
\* taken it, it is in the interior and the whole disc around it, as far as it
\* lies in the interior, is of the chosen material.
EmitterPaints ==
  pc = "step" /\ user.emitting =>
    /\ emitter \in Interiors
    /\ \A p \in Disc(emitter, user.brush) : grid[p] = user.material

\* As long as sequences arrive in one piece and nobody presses ESC, the decoder
\* and the user agree, whatever is typed around the arrows: each arrow moves the
\* emitter as it says, and no byte of one is handled as a key of its own.
Heading == [up |-> <<0, -3>>, down |-> <<0, 3>>, left |-> <<-3, 0>>, right |-> <<3, 0>>]
KeysUnderstood ==
  [][~torn' =>
       /\ ReadKey /\ ~KeyEscape => Head(wire).key \notin ArrowKeys
       /\ Len(escape) = 2 /\ escape' = <<>> =>
            LET by == Heading[escape[1].key]
            IN  emitter' = <<emitter[1] + by[1], emitter[2] + by[2]>>]_vars

\* A typed x ends the program, with whatever keys before and after it, as long as
\* sequences arrive in one piece and nobody presses ESC; after either, any byte may
\* have been swallowed, and nothing is said of the x.
QuitTyped == \E byte \in Range(wire) : byte.code = "x"
QuitEnds  == QuitTyped ~> (pc = "ended" \/ torn)

\* README: "arrows move the emitter"; main_native.cpp, "works over SSH".  No
\* arrow key does anything else, however its bytes are delivered.
ArrowsOnlyMove ==
  [][wire # <<>> /\ Head(wire).key \in ArrowKeys => ~KeyClear]_vars
=============================================================================
