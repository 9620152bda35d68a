---------------------------- MODULE MCCudaKernel ----------------------------
EXTENDS CudaKernel

\* Two grids in which every kind of pair, vertical and horizontal, occurs.
MCInputs == {[p \in Coords |-> (p[1] * p[1] + k * p[2] + p[1] * p[2]) % 5] : k \in {1, 3}}

MCWords == {[k \in TileCols \X Rows |-> {l \in 0..(Tile - 1) : (l + k[2]) % 2 = 0}]}
=============================================================================
