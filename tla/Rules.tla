------------------------------- MODULE Rules -------------------------------
(***************************************************************************)
(* The cell rules of core/grid.hpp: the five materials, the biased density *)
(* table with its signed byte compare, and the three per-cell predicates   *)
(* every backend evaluates.  Cells keep the numeric values of enum Cell,   *)
(* since the table is indexed by them.                                     *)
(***************************************************************************)
EXTENDS Integers

Empty == 0
Sand  == 1
Water == 2
Fire  == 3
Wall  == 4

Cells == 0..4

(* A name with a suffix after an underscore is a deliberate defect of the   *)
(* definition that follows it: the runs are shown to notice it.             *)

densityBiased_SandWaterSwapped(c) ==
  LET k == c % 16
  IN  IF k < Wall THEN <<129, 130, 131, 128>>[k + 1] ELSE 127

densityBiased_WaterAsEmpty(c) ==
  LET k == c % 16
  IN  IF k < Wall THEN <<129, 131, 129, 128>>[k + 1] ELSE 127

\* The 16-entry lookup table, densities already XORed with 0x80; all entries
\* from Wall on are 0x7F.
densityBiased(c) ==
  LET k == c % 16
  IN  IF k < Wall THEN <<129, 131, 130, 128>>[k + 1] ELSE 127

\* static_cast<std::int8_t> of a byte.
Signed8(b) == IF b < 128 THEN b ELSE b - 256

denserThan(a, b) == Signed8(densityBiased(a)) > Signed8(densityBiased(b))

isMobile(c) == c \notin {Empty, Wall}

swapVertical_NoWallTest(above, below) == denserThan(above, below)

swapVertical(above, below) == denserThan(above, below) /\ above # Wall

blockedVertically(c, below, above) ==
  IF c = Fire THEN above # Empty ELSE below # Empty

Spreads_SandAnywhere(from, to, belowFrom, belowTo, aboveFrom) ==
  to = Empty /\ isMobile(from) /\ blockedVertically(from, belowFrom, aboveFrom)

\* One direction of the lateral move: the cell `from` may enter the cell `to`.
Spreads(from, to, belowFrom, belowTo, aboveFrom) ==
  /\ to = Empty
  /\ isMobile(from)
  /\ blockedVertically(from, belowFrom, aboveFrom)
  /\ from = Sand => belowTo = Empty

\* a is at (x, y) and b at (x + 1, y).
swapHorizontal(a, b, belowA, belowB, aboveA, aboveB) ==
  \/ Spreads(a, b, belowA, belowB, aboveA)
  \/ Spreads(b, a, belowB, belowA, aboveB)

decayFire_NotFromBelow(c, l, r, u, d, burns) ==
  IF c = Fire /\ (Water \in {l, r, u} \/ burns) THEN Empty ELSE c

\* `burns` stands for rA && rB && rC; l, r, u, d are the four neighbours.
decayFire(c, l, r, u, d, burns) ==
  IF c = Fire /\ (Water \in {l, r, u, d} \/ burns) THEN Empty ELSE c
=============================================================================
