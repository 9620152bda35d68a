---------------------------- MODULE MCSimulation ----------------------------
(***************************************************************************)
(* Small instances of Simulation for TLC.                                  *)
(***************************************************************************)
EXTENDS Simulation, FiniteSetsExt

Lanes == 0..(Tile - 1)

\* All calm, all burning, and the two halves of a checkerboard.
MCNoiseWords ==
  {[k \in TileCols \X Rows |-> {}], [k \in TileCols \X Rows |-> Lanes]}
    \cup {[k \in TileCols \X Rows |-> {l \in Lanes : (l + k[2]) % 2 = i}] : i \in 0..1}

\* A handful of grains of any kind in an otherwise empty world, and every
\* world of sand and water whose rows are uniform in each half.
Grains(n, kinds) ==
  UNION {{[p \in Interior |-> IF p \in S THEN f[p] ELSE Empty] : f \in [S -> kinds]} :
           S \in kSubset(n, Interior)}

HalfRows == {[p \in Interior |-> f[<<p[1] \div (W \div 2), p[2]>>]] :
               f \in [(0..1) \X (1..(H - 2)) -> {Empty, Sand, Water}]}

MCPictures == Grains(1, Cells) \cup Grains(2, Cells) \cup Grains(3, {Sand, Water})
                \cup HalfRows
NoPictures == {}

\* The interior of a 4 x 4 grid and one cell of its border.
MCTargets == Interior \cup {<<0, 1>>}
MCSeedFills == [Interior \ Ledges -> {Empty, Sand, Water}]
MCRadii    == {-1, 1}
=============================================================================
