---------------------------- MODULE MCCudaBackend ----------------------------
EXTENDS CudaBackend

MCNoiseWords ==
  {[k \in TileCols \X Rows |-> {l \in 0..(Tile - 1) : (l + k[2]) % 2 = 0}]}
MCSeedFills == [Interior \ Ledges -> {Empty, Sand, Water}]
MCTargets   == {<<1, 1>>}
=============================================================================
