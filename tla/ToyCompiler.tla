----------------------------- MODULE ToyCompiler -----------------------------
(***************************************************************************)
(* backends/toy_isa/compiler.cpp: the vertical pass lowered to TSA-32 for  *)
(* one geometry and one parity.  The rows of a tile are unrolled, and the  *)
(* loop over tiles is emitted once per boundary case: tiles with nothing   *)
(* above, interior tiles, tiles with nothing below.                        *)
(***************************************************************************)
EXTENDS Passes, ToyIsa

GridBytes     == tilesX * tilesY * kTileBytes
TileRowStride == tilesX * kTileBytes

\* The fixed register allocation.
SR == [T |-> 0, END |-> 1, TSTR |-> 2, DISP |-> 3, SRC |-> 4, ABOVE |-> 5,
      BELOW |-> 6, DST |-> 7, COND |-> 8]
VR == [A |-> 0, B |-> 1, T0 |-> 2, T1 |-> 3, MASK |-> 4, WALL_CMP |-> 5,
      LUT |-> 6, WALL |-> 7]

\* Three-operand, immediate and memory forms.
Ins(op, rd, rs1, rs2)      == Emit(op, rd, rs1, rs2, 0, 0)
InsImm(op, rd, rs1, imm)   == Emit(op, rd, rs1, 0, 0, imm)

\* The row at base/off of src holds one half of each pair; what it becomes is
\* stored at outOff of dst.
emitPairRow(baseA, offA, baseB, offB, outOff, writingUpperRow) ==
  << InsImm(Op.VLD, VR.A, baseA, offA),
     InsImm(Op.VLD, VR.B, baseB, offB),
     Ins(Op.VSHUF,  VR.T0, VR.LUT, VR.A),
     Ins(Op.VSHUF,  VR.T1, VR.LUT, VR.B),
     Ins(Op.VCMPGT, VR.MASK, VR.T0, VR.T1),
     Ins(Op.VCMPEQ, VR.WALL_CMP, VR.A, VR.WALL),
     Ins(Op.VANDN,  VR.MASK, VR.WALL_CMP, VR.MASK),
     IF writingUpperRow THEN Emit(Op.VBLEND, VR.T0, VR.A, VR.B, VR.MASK, 0)
                        ELSE Emit(Op.VBLEND, VR.T0, VR.B, VR.A, VR.MASK, 0),
     InsImm(Op.VST, VR.T0, SR.DST, outOff) >>

emitCopyRow(off) == << InsImm(Op.VLD, VR.A, SR.SRC, off),
                       InsImm(Op.VST, VR.A, SR.DST, off) >>

UpperRow(ly, hasBelow) ==
  LET off  == ly * Tile
      last == ly = Tile - 1
  IN  IF last /\ ~hasBelow
        THEN emitCopyRow(off)
        ELSE emitPairRow(SR.SRC, off,
                         IF last THEN SR.BELOW ELSE SR.SRC,
                         IF last THEN 0 ELSE off + Tile, off, TRUE)

LowerRow_WrongHalo(ly, hasAbove) ==
  LET off == ly * Tile
  IN  IF ly = 0 /\ ~hasAbove
        THEN emitCopyRow(off)
        ELSE emitPairRow(IF ly = 0 THEN SR.ABOVE ELSE SR.SRC,
                         IF ly = 0 THEN 0 ELSE off - Tile,
                         SR.SRC, off, off, FALSE)

LowerRow(ly, hasAbove) ==
  LET off == ly * Tile
  IN  IF ly = 0 /\ ~hasAbove
        THEN emitCopyRow(off)
        ELSE emitPairRow(IF ly = 0 THEN SR.ABOVE ELSE SR.SRC,
                         IF ly = 0 THEN (Tile - 1) * Tile ELSE off - Tile,
                         SR.SRC, off, off, FALSE)

emitRow(parity, ly, hasAbove, hasBelow) ==
  IF ly % 2 = parity THEN UpperRow(ly, hasBelow) ELSE LowerRow(ly, hasAbove)

emitTileBody(parity, hasAbove, hasBelow) ==
  LET \* What the first n turns of the loop over the rows emit.
      rows[n \in 0..Tile] ==
        IF n = 0 THEN << >>
        ELSE rows[n - 1] \o emitRow(parity, n - 1, hasAbove, hasBelow)
  IN  rows[Tile]

Group(first, end, hasAbove, hasBelow) ==
  [start |-> first, end |-> end, hasAbove |-> hasAbove, hasBelow |-> hasBelow]

groups_LastHasBelow ==
  IF tilesY = 1
    THEN << Group(0, tilesX, FALSE, FALSE) >>
    ELSE << Group(0, tilesX, FALSE, TRUE), Group(tilesX, tilesX * tilesY, TRUE, TRUE) >>

groups ==
  IF tilesY = 1
    THEN << Group(0, tilesX, FALSE, FALSE) >>
    ELSE << Group(0, tilesX, FALSE, TRUE) >>
           \o (IF tilesY > 2 THEN << Group(tilesX, tilesX * (tilesY - 1), TRUE, TRUE) >>
                             ELSE << >>)
           \o << Group(tilesX * (tilesY - 1), tilesX * tilesY, TRUE, FALSE) >>

\* The do-while loop over the tiles of one group; `before` instructions are
\* already emitted, so its head is the instruction with index before + 2.
GroupCode(parity, g, before) ==
  << InsImm(Op.LI, SR.T, 0, g.start),
     InsImm(Op.LI, SR.END, 0, g.end),
     Ins(Op.MUL, SR.SRC, SR.T, SR.TSTR),
     Ins(Op.ADD, SR.DST, SR.SRC, SR.DISP),
     InsImm(Op.ADDI, SR.ABOVE, SR.SRC, -TileRowStride),
     InsImm(Op.ADDI, SR.BELOW, SR.SRC, TileRowStride) >>
  \o emitTileBody(parity, g.hasAbove, g.hasBelow)
  \o << InsImm(Op.ADDI, SR.T, SR.T, 1),
        Ins(Op.CMPLT, SR.COND, SR.T, SR.END),
        InsImm(Op.BNZ, 0, SR.COND, before + 2) >>

Prologue == << InsImm(Op.LI, SR.TSTR, 0, kTileBytes),
               InsImm(Op.LI, SR.DISP, 0, GridBytes),
               Ins(Op.VDENS, VR.LUT, 0, 0),
               InsImm(Op.VBCASTB, VR.WALL, 0, Wall) >>

compileVerticalPass(parity) ==
  LET \* The program when the first n groups are emitted.
      code[n \in 0..Len(groups)] ==
        IF n = 0 THEN Prologue
        ELSE code[n - 1] \o GroupCode(parity, groups[n], Len(code[n - 1]))
  IN  code[Len(groups)] \o << Ins(Op.HALT, 0, 0, 0) >>

\* The two programs the backend keeps, by name, and the parity of each.
Kernels == [parity0 |-> compileVerticalPass(0), parity1 |-> compileVerticalPass(1)]
KernelFor(parity) == IF parity = 0 THEN "parity0" ELSE "parity1"
=============================================================================
