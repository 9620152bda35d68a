----------------------------- MODULE MCPrograms -----------------------------
(***************************************************************************)
(* A world of 6 x 4 cells, in which an arrow crosses the interior, a       *)
(* stroke may jump over three columns, and every material fits.            *)
(***************************************************************************)
EXTENDS Programs

Lanes == 0..(Tile - 1)

\* No fire burns out, or every second lane does.
MCNoiseWords ==
  {Calm, [k \in TileCols \X Rows |-> {l \in Lanes : (l + k[2]) % 2 = 0}]}

\* Sand on top of water, wherever there is no ledge.
MCSeedFills ==
  {[p \in Interior \ Ledges |-> IF p[2] = 1 THEN Sand ELSE Water]}

\* Three points on the canvas and one off it.
MCPoints == {<<0, 0>>, <<4, 1>>, <<1, 3>>, <<6, 2>>}
=============================================================================
