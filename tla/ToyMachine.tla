----------------------------- MODULE ToyMachine -----------------------------
(***************************************************************************)
(* backends/toy_isa/interpreter.cpp: the TSA-32 machine.  One action is    *)
(* one turn of the loop of execute(): fetch, scoreboard, execute, account. *)
(* The memory image is flat: [0, size) is SRC, [size, 2 * size) is DST.    *)
(***************************************************************************)
EXTENDS ToyIsa, FiniteSetsExt

CONSTANTS VecBytes,        \* lanes of a vector register, 32 in the code
          MemSize,         \* bytes of one region
          WordBits,        \* width of a scalar register, 32 in the code
          AddrMod,         \* addresses are computed modulo this, 2^64 in the code
          Programs,        \* the programs the machine may be given, by name
          Images,          \* the memory images a run may start from
          Junk,            \* what a load from outside of the image may bring
          Budgets          \* values of maxInstructions, 2^34 by default

MemAddrs == 0..(2 * MemSize - 1)
Bytes    == 0..255
Lanes    == 0..(VecBytes - 1)

\* Two to the power k.
Pow2[k \in Nat] == IF k = 0 THEN 1 ELSE 2 * Pow2[k - 1]

WordMod  == Pow2[WordBits]
Words    == 0..(WordMod - 1)

ASSUME MachineAssumption ==
  /\ VecBytes \in Nat \ {0} /\ MemSize \in Nat \ {0} /\ WordBits \in Nat \ {0}
  /\ Images \subseteq [MemAddrs -> Bytes]
  /\ Junk # {} /\ Junk \subseteq [Lanes -> Bytes]
  /\ Budgets \subseteq Nat

ASSUME AddressAssumption ==
  AddrMod \in Nat /\ AddrMod % VecBytes = 0 /\ AddrMod > WordMod /\ AddrMod > 2 * MemSize

\* A program is a list of instruction words of sixteen hexadecimal digits.
ASSUME ProgramsAssumption ==
  \A name \in DOMAIN Programs : Programs[name] \in Seq([1..16 -> 0..15])

VARIABLES mem,          \* the memory image
          program, budget,
          sregs, vregs, \* scalar and vector registers
          sReady, vReady, \* cycle from which each may be read
          pc, now,
          res,          \* the counters of RunResult
          fault,
          status        \* "running" until the loop of execute() ends

registers == <<sregs, vregs, sReady, vReady>>
mvars == <<mem, program, budget, registers, pc, now, res, fault, status>>

Sregs == 0..15
Vregs == 0..7

kDensityRom == [i \in 0..15 |-> IF i < 4 THEN <<129, 131, 130, 128>>[i + 1] ELSE 127]

-----------------------------------------------------------------------------
(* Words and bytes.                                                        *)

Signed(x, mod) == IF x < mod \div 2 THEN x ELSE x - mod

BitOf(x, k) == (x \div Pow2[k]) % 2

\* The number whose bit k is bits[k].
FromBits(width, bits) ==
  LET sum[k \in 0..width] == IF k = 0 THEN 0 ELSE sum[k - 1] + bits[k - 1] * Pow2[k - 1]
  IN  sum[width]

BitAnd(w, x, y) == FromBits(w, [k \in 0..(w - 1) |-> BitOf(x, k) * BitOf(y, k)])
BitOr(w, x, y)  == FromBits(w, [k \in 0..(w - 1) |-> 1 - (1 - BitOf(x, k)) * (1 - BitOf(y, k))])
BitXor(w, x, y) == FromBits(w, [k \in 0..(w - 1) |-> (BitOf(x, k) + BitOf(y, k)) % 2])

Mask(b) == IF b THEN 255 ELSE 0

-----------------------------------------------------------------------------
(* Memory.                                                                 *)

\* u32 base plus sign-extended immediate, in unsigned 64-bit arithmetic: a sum
\* below zero is an address at the upper end.
Address(in) == (sregs[in.rs1] + in.imm) % AddrMod

checkAccess_NoStoreProtection(addr, store) ==
  IF addr % VecBytes # 0 THEN "Alignment"
  ELSE IF (addr + VecBytes) % AddrMod > 2 * MemSize THEN "OutOfRange"
  ELSE "None"

\* The fault of an access, tested in this order.  The end of the access is
\* computed in 64 bits too.
checkAccess(addr, store) ==
  IF addr % VecBytes # 0 THEN "Alignment"
  ELSE IF (addr + VecBytes) % AddrMod > 2 * MemSize THEN "OutOfRange"
  ELSE IF store /\ addr < MemSize THEN "StoreProtection"
  ELSE "None"

\* The end wraps to 0, which no test of checkAccess refuses: an aligned access to
\* the last row of the address space.
EndWraps(addr) == addr + VecBytes >= AddrMod

Row(addr) == [i \in Lanes |-> mem[addr + i]]

Stored(addr, bytes) ==
  [a \in MemAddrs |-> IF a - addr \in Lanes THEN bytes[a - addr] ELSE mem[a]]

\* For an end that wraps, readPtr and writePtr point below DST by the size of a
\* region and a row more.  What is there the code does not say: SRC, an allocation
\* of its own, may begin anywhere in that distance or elsewhere.
Astray(place, bytes) ==
  [a \in MemAddrs |->
     IF a < MemSize /\ a - place \in Lanes THEN bytes[a - place] ELSE mem[a]]

RowsAt(addr) == IF EndWraps(addr) THEN Junk ELSE {Row(addr)}

MemAfter(addr, bytes) ==
  IF EndWraps(addr) THEN \E place \in (-VecBytes)..MemSize : mem' = Astray(place, bytes)
  ELSE mem' = Stored(addr, bytes)

-----------------------------------------------------------------------------
(* The scoreboard.                                                         *)

ScalarSources(in) ==
  CASE in.op \in {Op.ADD, Op.SUB, Op.MUL, Op.CMPLT, Op.CMPEQ} -> {in.rs1, in.rs2}
    [] in.op \in {Op.ADDI, Op.SHLI, Op.ANDI, Op.BNZ, Op.BZ, Op.VLD, Op.VST} -> {in.rs1}
    [] OTHER -> {}

VectorSources(in) ==
  CASE in.op \in {Op.VSHUF, Op.VCMPGT, Op.VCMPEQ, Op.VAND, Op.VANDN, Op.VOR, Op.VXOR}
         -> {in.rs1 % 8, in.rs2 % 8}
    [] in.op = Op.VBLEND -> {in.rs1 % 8, in.rs2 % 8, in.rs3 % 8}
    [] in.op = Op.VMOV   -> {in.rs1 % 8}
    [] in.op = Op.VST    -> {in.rd % 8}
    [] OTHER -> {}

IssueAt_FromZero(in) ==
  Max({0} \cup {sReady[r] : r \in ScalarSources(in)}
          \cup {vReady[r] : r \in VectorSources(in)})

IssueAt(in) == Max({now} \cup {sReady[r] : r \in ScalarSources(in)}
                         \cup {vReady[r] : r \in VectorSources(in)})

ReadyAt(in) == IssueAt(in) + latencyOf(in.op)

-----------------------------------------------------------------------------
(* What the arithmetic instructions compute.                               *)

ScalarOps == {Op.LI, Op.ADD, Op.ADDI, Op.SUB, Op.SHLI, Op.ANDI, Op.MUL, Op.CMPLT, Op.CMPEQ}

ScalarResult(in) ==
  LET x == sregs[in.rs1]
      y == sregs[in.rs2]
  IN  CASE in.op = Op.LI    -> in.imm % WordMod
        [] in.op = Op.ADD   -> (x + y) % WordMod
        [] in.op = Op.ADDI  -> (x + in.imm) % WordMod
        [] in.op = Op.SUB   -> (x - y) % WordMod
        [] in.op = Op.SHLI  -> (x * Pow2[in.imm % WordBits]) % WordMod
        [] in.op = Op.ANDI  -> BitAnd(WordBits, x, in.imm % WordMod)
        [] in.op = Op.MUL   -> (x * y) % WordMod
        [] in.op = Op.CMPLT -> IF Signed(x, WordMod) < Signed(y, WordMod) THEN 1 ELSE 0
        [] in.op = Op.CMPEQ -> IF x = y THEN 1 ELSE 0

VectorOps == {Op.VSHUF, Op.VCMPGT, Op.VCMPEQ, Op.VAND, Op.VANDN, Op.VOR, Op.VXOR,
              Op.VBLEND, Op.VBCASTB, Op.VMOV, Op.VDENS}

\* VSHUF writes lane after lane into its destination; where that is the table too,
\* a lane may look up what an earlier one has left there.
Shuffled(in) ==
  LET old   == vregs[in.rd % 8]
      y     == vregs[in.rs2 % 8]
      \* The destination register after the first i lanes.
      after[i \in 0..VecBytes] ==
        IF i = 0 THEN old
        ELSE LET table == IF in.rd % 8 = in.rs1 % 8 THEN after[i - 1] ELSE vregs[in.rs1 % 8]
             IN  [after[i - 1] EXCEPT ![i - 1] = table[y[i - 1] % 16]]
  IN  after[VecBytes]

\* One lane of the other instructions, which look no further than their own lane.
VectorLane(in, i) ==
  LET x == vregs[in.rs1 % 8]
      y == vregs[in.rs2 % 8]
      z == vregs[in.rs3 % 8]
  IN  CASE in.op = Op.VCMPGT  -> Mask(Signed(x[i], 256) > Signed(y[i], 256))
        [] in.op = Op.VCMPEQ  -> Mask(x[i] = y[i])
        [] in.op = Op.VAND    -> BitAnd(8, x[i], y[i])
        [] in.op = Op.VANDN   -> BitAnd(8, 255 - x[i], y[i])
        [] in.op = Op.VOR     -> BitOr(8, x[i], y[i])
        [] in.op = Op.VXOR    -> BitXor(8, x[i], y[i])
        [] in.op = Op.VBLEND  -> IF z[i] >= 128 THEN y[i] ELSE x[i]
        [] in.op = Op.VBCASTB -> in.imm % 256
        [] in.op = Op.VMOV    -> x[i]
        [] in.op = Op.VDENS   -> kDensityRom[i % 16]

VectorResult(in) ==
  IF in.op = Op.VSHUF THEN Shuffled(in) ELSE [i \in Lanes |-> VectorLane(in, i)]

-----------------------------------------------------------------------------
NoCounts == [instructions |-> 0, stallCycles |-> 0, scalarOps |-> 0,
             vectorAluOps |-> 0, vectorMemOps |-> 0, branches |-> 0]

NoScalars == [r \in Sregs |-> 0]
NoVectors == [r \in Vregs |-> [i \in Lanes |-> 0]]
AllReady(regs) == [r \in regs |-> 0]

\* The Machine execute() constructs, and the variables of its loop: as a state,
\* and as the result of the action that calls it.
Reset ==
  /\ sregs = NoScalars /\ sReady = AllReady(Sregs)
  /\ vregs = NoVectors /\ vReady = AllReady(Vregs)
  /\ pc = 0 /\ now = 0 /\ res = NoCounts /\ fault = "None"

Call ==
  /\ sregs' = NoScalars /\ sReady' = AllReady(Sregs)
  /\ vregs' = NoVectors /\ vReady' = AllReady(Vregs)
  /\ pc' = 0 /\ now' = 0 /\ res' = NoCounts /\ fault' = "None"
  /\ status' = "running"

MachineInit ==
  /\ mem \in Images
  /\ program \in DOMAIN Programs
  /\ budget \in Budgets
  /\ Reset
  /\ status = "running"

Length == Len(Programs[program])
Fetched == decode(Programs[program][pc + 1])

\* The tests at the head of the loop let the next instruction through.
Fetchable == status = "running" /\ pc < Length /\ res.instructions < budget

\* What the code after the switch and the counter of the case do together.
Retired(in, counter) ==
  [res EXCEPT !.instructions = @ + 1,
              !.stallCycles  = @ + (IssueAt(in) - now),
              ![counter]     = @ + 1]

RetiredFaulty_Uncounted(in) ==
  [res EXCEPT !.stallCycles  = @ + (IssueAt(in) - now)]

\* A faulting access or opcode is retired but counted in no class.
RetiredFaulty(in) ==
  [res EXCEPT !.instructions = @ + 1,
              !.stallCycles  = @ + (IssueAt(in) - now)]

NextSlot_StallsForgotten(in) == pc' = pc + 1 /\ now' = now + 1

NextSlot(in) == pc' = pc + 1 /\ now' = IssueAt(in) + 1   \* single issue

StopWith(f) == fault' = f /\ status' = "stopped"

CarryOn == UNCHANGED <<fault, status>>

Fixed == UNCHANGED <<program, budget>>

Stop_NoEndTest ==
  /\ status = "running"
  /\ pc < Length /\ res.instructions >= budget /\ StopWith("InstructionLimit")
  /\ UNCHANGED <<mem, registers, pc, now, res>> /\ Fixed

\* The loop head finds the program counter outside the program, or the budget
\* spent.
Stop ==
  /\ status = "running"
  /\ \/ pc >= Length /\ StopWith("BadBranch")
     \/ pc < Length /\ res.instructions >= budget /\ StopWith("InstructionLimit")
  /\ UNCHANGED <<mem, registers, pc, now, res>> /\ Fixed

Halt ==
  /\ Fetchable
  /\ LET in == Fetched
     IN  /\ in.op = Op.HALT
         /\ NextSlot(in)
         /\ res' = Retired(in, "scalarOps")
  /\ StopWith("None")
  /\ UNCHANGED <<mem, registers>> /\ Fixed

Nop ==
  /\ Fetchable
  /\ LET in == Fetched
     IN  /\ in.op = Op.NOP
         /\ NextSlot(in)
         /\ res' = Retired(in, "scalarOps")
  /\ UNCHANGED <<mem, registers>> /\ CarryOn /\ Fixed

Scalar ==
  /\ Fetchable
  /\ LET in == Fetched
     IN  /\ in.op \in ScalarOps
         /\ sregs' = [sregs EXCEPT ![in.rd] = ScalarResult(in)]
         /\ sReady' = [sReady EXCEPT ![in.rd] = ReadyAt(in)]
         /\ NextSlot(in)
         /\ res' = Retired(in, "scalarOps")
  /\ UNCHANGED <<mem, vregs, vReady>> /\ CarryOn /\ Fixed

Taken(in) == CASE in.op = Op.JMP -> TRUE
               [] in.op = Op.BNZ -> sregs[in.rs1] # 0
               [] in.op = Op.BZ  -> sregs[in.rs1] = 0

Branch ==
  /\ Fetchable
  /\ LET in == Fetched
         bad == in.imm \notin 0..(Length - 1)
     IN  /\ in.op \in {Op.BNZ, Op.BZ, Op.JMP}
         /\ pc' = IF Taken(in) /\ ~bad THEN in.imm ELSE pc + 1
         /\ now' = IssueAt(in) + 1 + (IF Taken(in) /\ ~bad THEN 2 ELSE 0)
         /\ res' = Retired(in, "branches")
         /\ IF Taken(in) /\ bad THEN StopWith("BadBranch") ELSE CarryOn
  /\ UNCHANGED <<mem, registers>> /\ Fixed

Load ==
  /\ Fetchable
  /\ LET in == Fetched
         vd == in.rd % 8
     IN  /\ in.op = Op.VLD
         /\ checkAccess(Address(in), FALSE) = "None"
         /\ \E row \in RowsAt(Address(in)) : vregs' = [vregs EXCEPT ![vd] = row]
         /\ vReady' = [vReady EXCEPT ![vd] = ReadyAt(in)]
         /\ NextSlot(in)
         /\ res' = Retired(in, "vectorMemOps")
  /\ UNCHANGED <<mem, sregs, sReady>> /\ CarryOn /\ Fixed

Store ==
  /\ Fetchable
  /\ LET in == Fetched
     IN  /\ in.op = Op.VST
         /\ checkAccess(Address(in), TRUE) = "None"
         /\ MemAfter(Address(in), vregs[in.rd % 8])
         /\ NextSlot(in)
         /\ res' = Retired(in, "vectorMemOps")
  /\ UNCHANGED registers /\ CarryOn /\ Fixed

AccessFault ==
  /\ Fetchable
  /\ LET in == Fetched
         f  == checkAccess(Address(in), in.op = Op.VST)
     IN  /\ in.op \in {Op.VLD, Op.VST}
         /\ f # "None" /\ StopWith(f)
         /\ NextSlot(in)
         /\ res' = RetiredFaulty(in)
  /\ UNCHANGED <<mem, registers>> /\ Fixed

Vector ==
  /\ Fetchable
  /\ LET in == Fetched
         vd == in.rd % 8
     IN  /\ in.op \in VectorOps
         /\ vregs' = [vregs EXCEPT ![vd] = VectorResult(in)]
         /\ vReady' = [vReady EXCEPT ![vd] = ReadyAt(in)]
         /\ NextSlot(in)
         /\ res' = Retired(in, "vectorAluOps")
  /\ UNCHANGED <<mem, sregs, sReady>> /\ CarryOn /\ Fixed

Illegal ==
  /\ Fetchable
  /\ LET in == Fetched
     IN  /\ \A name \in DOMAIN Op : Op[name] # in.op
         /\ NextSlot(in)
         /\ res' = RetiredFaulty(in)
  /\ StopWith("IllegalOpcode")
  /\ UNCHANGED <<mem, registers>> /\ Fixed

Execute == \/ Stop \/ Halt \/ Nop \/ Scalar \/ Branch \/ Load \/ Store
           \/ AccessFault \/ Vector \/ Illegal

MachineSpec == MachineInit /\ [][Execute]_mvars

\* execute() runs on the thread of its caller until its loop ends.
FairMachineSpec == MachineSpec /\ WF_mvars(Execute)

-----------------------------------------------------------------------------
\* Among the types: no subtraction of unsigned counters goes below zero.
TypeOK ==
  /\ mem \in [MemAddrs -> Bytes]
  /\ program \in DOMAIN Programs /\ budget \in Budgets
  /\ sregs \in [Sregs -> Words] /\ sReady \in [Sregs -> Nat]
  /\ vregs \in [Vregs -> [Lanes -> Bytes]] /\ vReady \in [Vregs -> Nat]
  /\ pc \in Nat /\ now \in Nat
  /\ res \in [DOMAIN NoCounts -> Nat]
  /\ fault \in {"None", "IllegalOpcode", "Alignment", "OutOfRange",
                "StoreProtection", "InstructionLimit", "BadBranch"}
  /\ status \in {"running", "stopped"}

\* The cycle count explains itself: one cycle per instruction, the stalls, and
\* at most two bubbles per branch; no instruction stalls for longer than the
\* longest latency allows.  Hence the reported ipc() never exceeds 1.
CyclesAccounted ==
  /\ now >= res.instructions + res.stallCycles
  /\ now <= res.instructions + res.stallCycles + 2 * res.branches
  /\ res.stallCycles <= 3 * res.instructions

\* Every retired instruction is counted in exactly one class, except the one
\* that faulted in the memory unit or the decoder.
ClassesAddUp ==
  res.instructions = res.scalarOps + res.vectorAluOps + res.vectorMemOps + res.branches
    + (IF fault \in {"IllegalOpcode", "Alignment", "OutOfRange", "StoreProtection"}
         THEN 1 ELSE 0)

\* No store into SRC passes checkAccess, whatever program runs, with one exception:
\* the store whose 64-bit end wraps to 0, which raises no fault and may land there.
\* So the front buffer is safe from every program without such a store.
SrcUntouched ==
  [][(\E a \in 0..(MemSize - 1) : mem'[a] # mem[a])
       => Fetchable /\ Fetched.op = Op.VST /\ EndWraps(Address(Fetched))]_mvars

\* execute() returns for every program: it halts, faults, or spends its budget.
RunEnds == <>(status = "stopped")
=============================================================================
