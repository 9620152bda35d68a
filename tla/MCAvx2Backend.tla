---------------------------- MODULE MCAvx2Backend ----------------------------
EXTENDS Avx2Backend

MCNoiseWords ==
  {[k \in TileCols \X Rows |-> {l \in Lanes : (l + k[2]) % 2 = 0}]}
MCSeedFills == [Interior \ Ledges -> {Empty, Sand, Water}]
MCTargets   == {<<W - 1, 1>>}   \* a cell of the border: it can be opened
=============================================================================
