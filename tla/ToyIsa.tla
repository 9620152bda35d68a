-------------------------------- MODULE ToyIsa --------------------------------
(***************************************************************************)
(* The instruction words of TSA-32, the toy accelerator: opcodes, latency  *)
(* and the 64-bit encoding, here sixteen hexadecimal digits, most          *)
(* significant first: opcode 2, rd, rs1, rs2, rs3, imm32 8, reserved 2.    *)
(***************************************************************************)
EXTENDS Integers, Sequences

Op == [HALT  |->  0, NOP   |->  1,
       LI    |-> 16, ADD   |-> 17, ADDI   |-> 18, SUB    |-> 19,
       SHLI  |-> 20, ANDI  |-> 21, MUL    |-> 22,
       CMPLT |-> 32, CMPEQ |-> 33, BNZ    |-> 34, BZ     |-> 35, JMP |-> 36,
       VLD   |-> 48, VST   |-> 49, VSHUF  |-> 50, VCMPGT |-> 51, VCMPEQ |-> 52,
       VAND  |-> 53, VANDN |-> 54, VOR    |-> 55, VXOR   |-> 56, VBLEND |-> 57,
       VBCASTB |-> 58, VMOV |-> 59, VDENS |-> 60]

latencyOf(op) == CASE op = Op.VLD -> 4
                   [] op = Op.MUL -> 3
                   [] op \in {Op.VSHUF, Op.VBLEND} -> 2
                   [] OTHER -> 1

Digit(x, k) == (x \div 16^k) % 16

\* imm is a signed 32-bit number; \div and % round down, so its digits are
\* those of the two's complement.
encode(in) ==
  <<Digit(in.op, 1), Digit(in.op, 0)>>
    \o <<in.rd % 16, in.rs1 % 16, in.rs2 % 16, in.rs3 % 16>>
    \o [i \in 1..8 |-> Digit(in.imm, 8 - i)] \o <<0, 0>>

SignedDigit(d) == IF d < 8 THEN d ELSE d - 16

decode(w) ==
  LET imm[i \in 7..14] == IF i = 7 THEN SignedDigit(w[7]) ELSE imm[i - 1] * 16 + w[i]
  IN  [op  |-> w[1] * 16 + w[2],
       rd  |-> w[3], rs1 |-> w[4], rs2 |-> w[5], rs3 |-> w[6],
       imm |-> imm[14]]

\* Program::emit appends encode() of the given fields.
Emit(op, rd, rs1, rs2, rs3, imm) ==
  encode([op |-> op, rd |-> rd, rs1 |-> rs1, rs2 |-> rs2, rs3 |-> rs3, imm |-> imm])
=============================================================================
