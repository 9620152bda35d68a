----------------------------- MODULE MCToyKernel -----------------------------
(***************************************************************************)
(* The kernels of one geometry, and the short programs of                  *)
(* tests/test_toy_isa.cpp with a few more of the same kind, so that every  *)
(* instruction and every fault occurs.                                     *)
(***************************************************************************)
EXTENDS ToyKernel, TLC

I(op, rd, rs1, rs2, imm) == Emit(op, rd, rs1, rs2, 0, imm)
End == I(Op.HALT, 0, 0, 0, 0)

TestPrograms == [
  store_src   |-> << I(Op.LI, 0, 0, 0, 0), I(Op.VBCASTB, 0, 0, 0, 1),
                     I(Op.VST, 0, 0, 0, 0), End >>,
  misaligned  |-> << I(Op.LI, 0, 0, 0, MemSize + 1), I(Op.VST, 0, 0, 0, 0), End >>,
  load_past   |-> << I(Op.LI, 0, 0, 0, 2 * MemSize), I(Op.VLD, 0, 0, 0, 0), End >>,
  store_past  |-> << I(Op.LI, 0, 0, 0, 2 * MemSize), I(Op.VST, 0, 0, 0, 0), End >>,
  load_below  |-> << I(Op.LI, 1, 0, 0, 0), I(Op.VLD, 0, 1, 0, -VecBytes), End >>,
  store_below |-> << I(Op.LI, 1, 0, 0, 0), I(Op.VST, 0, 1, 0, -VecBytes), End >>,
  two_below   |-> << I(Op.LI, 1, 0, 0, 0), I(Op.VST, 0, 1, 0, -2 * VecBytes), End >>,
  wild_jump   |-> << I(Op.JMP, 0, 0, 0, 9999), End >>,
  illegal     |-> << I(238, 0, 0, 0, 0), End >>,
  runaway     |-> << I(Op.JMP, 0, 0, 0, 0) >>,
  falls_off   |-> << I(Op.NOP, 0, 0, 0, 0) >>,
  load_use    |-> << I(Op.LI, 0, 0, 0, 0), I(Op.VLD, 0, 0, 0, 0),
                     I(Op.VSHUF, 1, 0, 0, 0), End >>,
  shuffle_own |-> << I(Op.LI, 0, 0, 0, Tile), I(Op.VLD, 0, 0, 0, 0), I(Op.VDENS, 1, 0, 0, 0),
                     I(Op.VSHUF, 1, 1, 0, 0), End >>,
  count_to_5  |-> << I(Op.LI, 0, 0, 0, 0), I(Op.LI, 1, 0, 0, 5),
                     I(Op.ADDI, 0, 0, 0, 1), I(Op.CMPLT, 2, 0, 1, 0),
                     I(Op.BNZ, 0, 2, 0, 2), End >>,
  alu         |-> << I(Op.LI, 1, 0, 0, -6), I(Op.LI, 2, 0, 0, 12), I(Op.SUB, 3, 2, 1, 0),
                     I(Op.SHLI, 3, 3, 0, 3), I(Op.ANDI, 4, 3, 0, 40), I(Op.CMPEQ, 5, 3, 4, 0),
                     I(Op.BZ, 0, 5, 0, 8), End, I(Op.VBCASTB, 1, 0, 0, 129),
                     I(Op.VDENS, 2, 0, 0, 0), I(Op.VAND, 3, 1, 2, 0), I(Op.VOR, 4, 1, 2, 0),
                     I(Op.VXOR, 5, 3, 4, 0), I(Op.VMOV, 0, 5, 0, 0), End >> ]

\* Neighbouring rows hold cells k apart: the five images show every pair of
\* kinds, and no row of stale cells in DST equals a row of the result.
MCImages ==
  {[a \in 0..(2 * MemSize - 1) |->
      IF a >= MemSize THEN 9
      ELSE ((a % Tile) + k * ((a \div Tile) % 2)) % 5] : k \in 0..4}

\* One row, of no value an image has.
MCJunk == {[i \in Lanes |-> 200]}

MCPrograms == Kernels @@ TestPrograms
=============================================================================
