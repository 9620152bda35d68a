---------------------------- MODULE MCToyBackend ----------------------------
(***************************************************************************)
(* Three tile rows, so that all three loop bodies of a kernel run.         *)
(***************************************************************************)
EXTENDS ToyBackend

MCNoiseWords == {[k \in TileCols \X Rows |-> {l \in 0..(Tile - 1) : (l + k[2]) % 2 = 0}]}

\* A column of water on sand on water, low in the grid; the ledges are at rows
\* 6 and 12.
MCSeedFills ==
  {[p \in Interior \ Ledges |->
      IF p[1] = 2 /\ p[2] \in 9..15 THEN IF p[2] % 3 = 0 THEN Sand ELSE Water ELSE Empty]}

MCTargets == {<<0, 4>>}

\* No kernel loads from outside of the image.
MCJunk == {[i \in Lanes |-> 200]}

MCPrograms == Kernels
=============================================================================
