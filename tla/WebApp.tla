------------------------------- MODULE WebApp -------------------------------
(***************************************************************************)
(* The web program: web/main.js, whose state is the record S, on top of    *)
(* web/emscripten_bindings.cpp, which keeps the grid, the active backend   *)
(* and the pixels.  The browser runs one handler at a time; a handler that *)
(* paints a stroke calls brBrush once per centre, and nothing else happens *)
(* until the last one is painted.                                          *)
(***************************************************************************)
EXTENDS Options, SequencesExt

VARIABLES grid, frame,  \* the grid of the bindings
          backend,      \* App::active
          probes,       \* what available() of the four probe objects answers
          backendId,    \* App::backendId
          pixels,       \* App::pixels, what the bindings rendered last
          S,            \* the state of main.js
          canvas,       \* what the visitor sees
          stroke,       \* the centres the running handler still has to paint
          note, timers, \* the note line, and the timers that will blank it
          hand,         \* what is held down: nothing, the mouse, one finger or two
          cancelled,    \* history: a touch was cancelled, no release since
          inputs        \* inputs so far

world == <<grid, frame>>
vars  == <<grid, frame, backend, probes, backendId, pixels, S, canvas, stroke,
           note, timers, hand, cancelled, inputs>>

NoPoint == <<-1, -1>>   \* S.lastGX = -1: no sample of this stroke yet

\* renderRGBA: the colours tell the cells apart, and fire flickers with the frame.
Picture(g, f) == [cells |-> g, flicker |-> IF Fire \in Range(g) THEN f ELSE 0]
NoPicture     == [cells |-> Blank, flicker |-> 0]

\* Math.round of d * i / n.
Round(d, i, n) == (2 * d * i + n) \div (2 * n)

AbsOf(d) == IF d < 0 THEN -d ELSE d

\* The centres paintAt paints from the last sample to this one, which is last.
Segment_StepsOfX(from, to) ==
  LET dx == to[1] - from[1]
      dy == to[2] - from[2]
      n  == AbsOf(dx)
  IN  IF from = NoPoint THEN <<to>>
      ELSE [i \in 1..(n - 1) |-> <<from[1] + Round(dx, i, n), from[2] + Round(dy, i, n)>>]
             \o <<to>>

Segment(from, to) ==
  LET dx == to[1] - from[1]
      dy == to[2] - from[2]
      n  == IF AbsOf(dx) > AbsOf(dy) THEN AbsOf(dx) ELSE AbsOf(dy)
  IN  IF from = NoPoint THEN <<to>>
      ELSE [i \in 1..(n - 1) |-> <<from[1] + Round(dx, i, n), from[2] + Round(dy, i, n)>>]
             \o <<to>>

-----------------------------------------------------------------------------
LocalInit ==
  /\ backendId = "Naive" /\ pixels = NoPicture
  /\ S = [ready |-> FALSE, paused |-> FALSE, material |-> Sand, brush |-> PageBrush,
          backend |-> "Naive", pointerDown |-> FALSE, last |-> NoPoint]
  /\ canvas = NoPicture /\ stroke = <<>>
  /\ note = "" /\ timers = 0
  /\ hand = "up" /\ cancelled = FALSE /\ inputs = 0

\* No handler is running.
Idle == stroke = <<>>

\* boot: brInit, brSeed, selectBackend(0, true), selectMaterial(1).  What the
\* visitor did before stays in S.
Boot ==
  /\ Idle /\ ~S.ready
  /\ \E fill \in SeedFills : grid' = Seeded(Cleared, fill)
  /\ frame' = 0
  /\ pixels' = Picture(grid', frame')
  /\ probes' \in Probes
  /\ backend' \in createBackend("Naive") /\ backendId' = "Naive"
  /\ S' = [S EXCEPT !.ready = TRUE, !.material = Sand, !.backend = "Naive"]
  /\ UNCHANGED <<canvas, stroke, note, timers, hand, cancelled, inputs>>

\* The callback of requestAnimationFrame: brStep, or brRender while paused, and
\* the pixels go to the canvas.
FrameCallback_NoRender ==
  /\ Idle /\ S.ready
  /\ UNCHANGED <<probes, backendId, S, stroke, note, timers, hand, cancelled, inputs>>
  /\ IF S.paused THEN UNCHANGED <<grid, frame, backend, pixels>>
     ELSE \E made \in StepOutcomes(backend, grid, frame) :
            /\ backend' = made.backend /\ grid' = made.grid /\ frame' = made.frame
            /\ pixels' = Picture(grid', frame')
  /\ canvas' = pixels'

FrameCallback ==
  /\ Idle /\ S.ready
  /\ UNCHANGED <<probes, backendId, S, stroke, note, timers, hand, cancelled, inputs>>
  /\ IF S.paused THEN UNCHANGED <<grid, frame, backend>>
     ELSE \E made \in StepOutcomes(backend, grid, frame) :
            backend' = made.backend /\ grid' = made.grid /\ frame' = made.frame
  /\ pixels' = Picture(grid', frame')
  /\ canvas' = pixels'

\* One more brBrush of the running handler; the last sets the sample.
PaintNext ==
  /\ stroke # <<>>
  /\ grid' = Painted(grid, Head(stroke), S.brush, S.material)
  /\ stroke' = Tail(stroke)
  /\ S' = IF stroke' = <<>> THEN [S EXCEPT !.last = Head(stroke)] ELSE S
  /\ UNCHANGED <<frame, backend, probes, backendId, pixels, canvas, note, timers,
                 hand, cancelled, inputs>>

TimerFires ==
  /\ Idle /\ timers > 0
  /\ timers' = timers - 1 /\ note' = ""
  /\ UNCHANGED <<world, backend, probes, backendId, pixels, S, canvas, stroke,
                 hand, cancelled, inputs>>

-----------------------------------------------------------------------------
(* The user's inputs.                                                      *)

Input == Idle /\ inputs < MaxInputs /\ inputs' = inputs + 1

\* selectBackend by a key or, where the button is enabled, by a click: the probe
\* is asked and another object is made.  Either way a note, and its own timer.
brSetBackend_SetsFirst(id) ==
  /\ backendId' = id
  /\ IF probes[id] THEN backend' \in createBackend(id) ELSE UNCHANGED backend

brSetBackend(id) ==
  IF probes[id] THEN backend' \in createBackend(id) /\ backendId' = id
  ELSE UNCHANGED <<backend, backendId>>

SelectBackend_RefusalStays(id) ==
  /\ Input /\ S.ready
  /\ brSetBackend(id)
  /\ S' = IF probes[id] THEN [S EXCEPT !.backend = id] ELSE S
  /\ note' = "backend" /\ timers' = IF probes[id] THEN timers + 1 ELSE timers
  /\ UNCHANGED <<world, probes, pixels, canvas, stroke, hand, cancelled>>

SelectBackend(id) ==
  /\ Input /\ S.ready
  /\ brSetBackend(id)
  /\ S' = IF probes[id] THEN [S EXCEPT !.backend = id] ELSE S
  /\ note' = "backend" /\ timers' = timers + 1
  /\ UNCHANGED <<world, probes, pixels, canvas, stroke, hand, cancelled>>

\* The material buttons and the slider do not wait for the boot.
SelectMaterial(m) ==
  /\ Input
  /\ S' = [S EXCEPT !.material = m]
  /\ UNCHANGED <<world, backend, probes, backendId, pixels, canvas, stroke, note,
                 timers, hand, cancelled>>

Slide(r) ==
  /\ Input
  /\ S' = [S EXCEPT !.brush = r]
  /\ UNCHANGED <<world, backend, probes, backendId, pixels, canvas, stroke, note,
                 timers, hand, cancelled>>

KeyPause ==
  /\ Input /\ S.ready
  /\ S' = [S EXCEPT !.paused = ~S.paused]
  /\ note' = IF S'.paused THEN "paused" ELSE ""
  /\ UNCHANGED <<world, backend, probes, backendId, pixels, canvas, stroke, timers,
                 hand, cancelled>>

\* brClear and brSeed render at once, but the canvas waits for its frame.
Replace(g) ==
  /\ Input /\ S.ready
  /\ grid' = g /\ frame' = 0
  /\ pixels' = Picture(grid', frame')
  /\ UNCHANGED <<backend, probes, backendId, S, canvas, stroke, note, timers, hand,
                 cancelled>>

KeyClear == Replace(Cleared)
KeySeed  == \E fill \in SeedFills : Replace(Seeded(Cleared, fill))

\* A pointer event: `down` and `last` are what the handler makes of
\* S.pointerDown and S.lastGX before it paints, `path` what it paints.
Pointer(down, last, path) ==
  /\ Input
  /\ S' = [S EXCEPT !.pointerDown = down, !.last = last]
  /\ stroke' = path
  /\ UNCHANGED <<world, backend, probes, backendId, pixels, canvas, note, timers>>

\* paintAt: nothing before the boot, and nothing off the canvas.
PaintAt(last, p) == IF S.ready /\ p \in Coords THEN Segment(last, p) ELSE <<>>

MouseDown(p) ==
  /\ hand = "up" /\ hand' = "mouse" /\ p \in Coords
  /\ Pointer(TRUE, NoPoint, PaintAt(NoPoint, p))
  /\ UNCHANGED cancelled

MouseMove(p) ==
  /\ Pointer(S.pointerDown, S.last, IF S.pointerDown THEN PaintAt(S.last, p) ELSE <<>>)
  /\ UNCHANGED <<hand, cancelled>>

MouseUp_KeepsDown ==
  /\ hand = "mouse" /\ hand' = "up"
  /\ Pointer(S.pointerDown, NoPoint, <<>>)
  /\ cancelled' = FALSE

MouseUp ==
  /\ hand = "mouse" /\ hand' = "up"
  /\ Pointer(FALSE, NoPoint, <<>>)
  /\ cancelled' = FALSE

MouseLeave ==
  /\ Pointer(S.pointerDown, NoPoint, <<>>)
  /\ UNCHANGED <<hand, cancelled>>

\* The listeners do not tell the fingers apart: one last sample serves them all,
\* and the first that is lifted ends S.pointerDown.
Fingers == {"finger", "fingers"}
OneFewer == IF hand = "fingers" THEN "finger" ELSE "up"

TouchStart(p) ==
  /\ hand \in {"up", "finger"} /\ p \in Coords
  /\ hand' = IF hand = "up" THEN "finger" ELSE "fingers"
  /\ Pointer(TRUE, NoPoint, PaintAt(NoPoint, p))
  /\ UNCHANGED cancelled

TouchMove(p) ==
  /\ hand \in Fingers
  /\ Pointer(S.pointerDown, S.last, PaintAt(S.last, p))
  /\ UNCHANGED <<hand, cancelled>>

TouchEnd ==
  /\ hand \in Fingers /\ hand' = OneFewer
  /\ Pointer(FALSE, NoPoint, <<>>)
  /\ cancelled' = FALSE

\* The browser takes the touch away: there is no handler for that, so
\* S.pointerDown stays as it is.
TouchCancel ==
  /\ hand \in Fingers /\ hand' = OneFewer
  /\ Pointer(S.pointerDown, S.last, <<>>)
  /\ cancelled' = TRUE

PointerEvent ==
  \/ \E p \in Points : MouseDown(p) \/ MouseMove(p) \/ TouchStart(p) \/ TouchMove(p)
  \/ MouseUp \/ MouseLeave \/ TouchEnd \/ TouchCancel

PageEvent ==
  \/ \E id \in BackendIds : SelectBackend(id)
  \/ \E m \in Materials : SelectMaterial(m)
  \/ \E r \in Radii : Slide(r)
  \/ KeyPause \/ KeyClear \/ KeySeed

Browser == Boot \/ PaintNext \/ TimerFires \/ FrameCallback

Next == Browser \/ PointerEvent \/ PageEvent

-----------------------------------------------------------------------------
LocalTypeOK ==
  /\ backendId \in BackendIds
  /\ S.ready \in BOOLEAN /\ S.paused \in BOOLEAN /\ S.pointerDown \in BOOLEAN
  /\ S.material \in Cells /\ S.brush \in Radii /\ S.backend \in BackendIds
  /\ S.last \in Coords \cup {NoPoint}
  /\ Range(stroke) \subseteq Coords
  /\ note \in {"", "backend", "paused"} /\ timers \in 0..MaxInputs
  /\ hand \in {"up", "mouse"} \cup Fingers /\ cancelled \in BOOLEAN
  /\ inputs \in 0..MaxInputs

\* The page highlights the backend that really steps the grid, on both sides of
\* the bindings, and its probe said that it was there.
BackendsAgree ==
  S.ready => /\ S.backend = backendId /\ backendId = backend.id
             /\ probes[backendId]

\* main.js: "Interpolate between samples so fast drags leave a continuous
\* stroke".  However far the pointer jumped, each centre of a stroke touches the
\* one before, at least at a corner, beginning at the last sample and ending at
\* this one.
Touching(p, q) == AbsOf(p[1] - q[1]) <= 1 /\ AbsOf(p[2] - q[2]) <= 1
Connected(path) == \A i \in 1..(Len(path) - 1) : Touching(path[i], path[i + 1])
StrokeConnected ==
  [][stroke = <<>> /\ stroke' # <<>> =>
       Connected(IF S'.last = NoPoint THEN stroke' ELSE <<S'.last>> \o stroke')]_vars

\* A stroke begins only while the user holds something down, or after a touch
\* was taken away from the page and not been followed by a release.
OnlyHeldPointersPaint ==
  [][stroke = <<>> /\ stroke' # <<>> => hand' # "up" \/ cancelled]_vars

\* While the page is paused nothing steps, but whatever the user paints, clears or
\* seeds the visitor gets to see.
CanvasIsCurrent == S.ready /\ S.paused ~> canvas = Picture(grid, frame) \/ ~S.paused

\* A note about a backend, asked for or refused, never stays for good: a timer is
\* pending that will blank it.
BackendNotesExpire == note = "backend" => timers > 0
=============================================================================
