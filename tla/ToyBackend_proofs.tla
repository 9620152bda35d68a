-------------------------- MODULE ToyBackend_proofs -------------------------
(***************************************************************************)
(* The TSA-32 machine of backends/toy_isa/interpreter.cpp, the kernels     *)
(* backends/toy_isa/compiler.cpp compiles for it, and the backend of       *)
(* backends/toy_isa/toy_backend.cpp that runs them.                        *)
(*                                                                         *)
(* First the machine, which runs any program whatever its registers and    *)
(* memory hold: its registers keep their widths, its cycle count explains  *)
(* itself, and no store reaches SRC, but for one whose end wraps.          *)
(*                                                                         *)
(* Then the kernels.  A word decodes to what it was encoded from; a kernel *)
(* is a prologue, one loop for each group of tiles and a HALT, and the     *)
(* body of a loop has one part for each row of a tile.  Hence a kernel     *)
(* that runs is at one of a few kinds of place, named after the group, the *)
(* tile and the row, and KernelInv says what holds at each.  It is         *)
(* inductive, and once the machine has halted it gives KernelIsGravity.    *)
(*                                                                         *)
(* Last the backend, which implements the atomic simulation whatever       *)
(* budgets its kernels get, and wherever they stop.                        *)
(***************************************************************************)
EXTENDS ToyBackend, Grid_proofs, SequenceTheorems

-----------------------------------------------------------------------------
(* Powers of two and sums of bits.                                         *)

LEMMA PowersOfTwo ==
  /\ Pow2[0] = 1
  /\ \A n \in Nat : Pow2[n] \in Nat \ {0} /\ Pow2[n + 1] = 2 * Pow2[n]
<1> DEFINE S    == Nat \ {0}
           step == [p \in Nat \X S |-> 2 * p[2]]
<1>1. step \in [Nat \X S -> S]
  OBVIOUS
<1>2. PICK f \in [Nat -> S] : Iterates(f, 1, step)
  <2>1. 1 \in S
    OBVIOUS
  <2> HIDE DEF S, step
  <2> QED BY <1>1, <2>1, NatRecursion, Zenon
<1>3. f[0] = 1 /\ \A n \in Nat : f[n + 1] = 2 * f[n]
  BY <1>2 DEF Iterates
<1>4. f = [k \in Nat |-> IF k = 0 THEN 1 ELSE 2 * f[k - 1]]
  <2>1. ASSUME NEW k \in Nat PROVE f[k] = IF k = 0 THEN 1 ELSE 2 * f[k - 1]
    <3>1. CASE k = 0
      BY <3>1, <1>3
    <3>2. CASE k # 0
      <4>1. k - 1 \in Nat /\ (k - 1) + 1 = k
        BY <3>2
      <4> QED BY <1>3, <3>2, <4>1
    <3> QED BY <3>1, <3>2
  <2> QED BY <2>1, <1>2
<1>5. Pow2 = [k \in Nat |-> IF k = 0 THEN 1 ELSE 2 * Pow2[k - 1]]
  BY <1>4 DEF Pow2
<1>6. Pow2[0] = 1 /\ \A n \in Nat : Pow2[n + 1] = 2 * Pow2[n]
  <2>1. Pow2[0] = 1
    BY <1>5
  <2>2. ASSUME NEW n \in Nat PROVE Pow2[n + 1] = 2 * Pow2[n]
    <3>1. n + 1 \in Nat /\ n + 1 # 0 /\ (n + 1) - 1 = n
      OBVIOUS
    <3> QED BY <1>5, <3>1
  <2> QED BY <2>1, <2>2
<1>7. \A n \in Nat : Pow2[n] \in Nat \ {0}
  <2> DEFINE T == {n \in Nat : Pow2[n] \in Nat \ {0}}
  <2>1. 0 \in T
    BY <1>6
  <2>2. \A n \in T : n + 1 \in T
    BY <1>6
  <2> HIDE DEF T
  <2>3. T \in SUBSET Nat
    BY DEF T
  <2>4. T = Nat
    BY <2>1, <2>2, <2>3, SetInduction
  <2> QED BY <2>4 DEF T
<1> QED BY <1>6, <1>7

LEMMA DivModInt ==
  ASSUME NEW n \in Int, NEW b \in Nat \ {0}
  PROVE  /\ n % b \in 0..(b - 1) /\ n \div b \in Int
         /\ n = b * (n \div b) + (n % b)
BY SMT

LEMMA SmallRemainder ==
  ASSUME NEW n \in Nat, NEW b \in Nat, n < b
  PROVE  n % b = n
BY SMT

LEMMA WordModType == WordMod \in Nat \ {0}
BY PowersOfTwo, MachineAssumption DEF WordMod

LEMMA Pow8 == Pow2[8] = 256
<1>1. Pow2[1] = 2 /\ Pow2[2] = 4
  <2>1. Pow2[0 + 1] = 2 * Pow2[0] /\ Pow2[1 + 1] = 2 * Pow2[1]
    BY PowersOfTwo
  <2> QED BY <2>1, PowersOfTwo
<1>2. Pow2[3] = 8 /\ Pow2[4] = 16
  <2>1. Pow2[2 + 1] = 2 * Pow2[2] /\ Pow2[3 + 1] = 2 * Pow2[3]
    BY PowersOfTwo
  <2> QED BY <2>1, <1>1
<1>3. Pow2[5] = 32 /\ Pow2[6] = 64
  <2>1. Pow2[4 + 1] = 2 * Pow2[4] /\ Pow2[5 + 1] = 2 * Pow2[5]
    BY PowersOfTwo
  <2> QED BY <2>1, <1>2
<1>4. Pow2[7] = 128 /\ Pow2[8] = 256
  <2>1. Pow2[6 + 1] = 2 * Pow2[6] /\ Pow2[7 + 1] = 2 * Pow2[7]
    BY PowersOfTwo
  <2> QED BY <2>1, <1>3
<1> QED BY <1>4

LEMMA AddBit ==
  ASSUME NEW p \in Nat \ {0}, NEW sum \in 0..(p - 1), NEW d, d = 0 \/ d = p
  PROVE  sum + d \in 0..(2 * p - 1)
OBVIOUS

\* The number with the given bits: there is one, and it fits its width.
LEMMA SumOfBits ==
  ASSUME NEW n \in Nat, NEW c \in [0..(n - 1) -> {0, 1}]
  PROVE  /\ \E s : s = [k \in 0..n |-> IF k = 0 THEN 0 ELSE s[k - 1] + c[k - 1] * Pow2[k - 1]]
         /\ \A s : s = [k \in 0..n |-> IF k = 0 THEN 0 ELSE s[k - 1] + c[k - 1] * Pow2[k - 1]]
                     => s[n] \in 0..(Pow2[n] - 1)
<1>1. \A k \in Nat : Pow2[k] \in Nat \ {0} /\ Pow2[k + 1] = 2 * Pow2[k]
  BY PowersOfTwo
<1> DEFINE bit(k) == IF k < n THEN c[k] ELSE 0
           step   == [p \in Nat \X Nat |-> p[2] + bit(p[1]) * Pow2[p[1]]]
<1>2. \A k \in Nat : bit(k) \in {0, 1} /\ bit(k) * Pow2[k] \in Nat
  <2> SUFFICES ASSUME NEW k \in Nat PROVE bit(k) \in {0, 1} /\ bit(k) * Pow2[k] \in Nat
    OBVIOUS
  <2>1. bit(k) \in {0, 1}
    <3>1. k < n => k \in 0..(n - 1)
      OBVIOUS
    <3> QED BY <3>1
  <2> HIDE DEF bit
  <2>2. CASE bit(k) = 0
    <3>1. Pow2[k] \in Nat
      BY <1>1
    <3> QED BY <2>2, <3>1
  <2>3. CASE bit(k) = 1
    <3>1. Pow2[k] \in Nat
      BY <1>1
    <3> QED BY <2>3, <3>1
  <2> QED BY <2>1, <2>2, <2>3
<1> HIDE DEF bit
<1>3. step \in [Nat \X Nat -> Nat]
  BY <1>2
<1>4. PICK f \in [Nat -> Nat] : Iterates(f, 0, step)
  <2>1. 0 \in Nat
    OBVIOUS
  <2> HIDE DEF step
  <2> QED BY <1>3, <2>1, NatRecursion, Zenon
<1>5. ASSUME NEW k \in 0..(n - 1) PROVE f[k + 1] = f[k] + c[k] * Pow2[k]
  <2>1. k \in Nat /\ k < n /\ bit(k) = c[k]
    BY DEF bit
  <2>2. f[k + 1] = step[<<k, f[k]>>]
    BY <1>4, <2>1 DEF Iterates
  <2> QED BY <1>4, <2>1, <2>2
<1> DEFINE g == [k \in 0..n |-> f[k]]
<1>6. g = [k \in 0..n |-> IF k = 0 THEN 0 ELSE g[k - 1] + c[k - 1] * Pow2[k - 1]]
  <2>1. ASSUME NEW k \in 0..n
        PROVE  g[k] = IF k = 0 THEN 0 ELSE g[k - 1] + c[k - 1] * Pow2[k - 1]
    <3>1. CASE k = 0
      BY <3>1, <1>4 DEF Iterates
    <3>2. CASE k # 0
      <4>1. k - 1 \in 0..(n - 1) /\ k - 1 \in 0..n /\ (k - 1) + 1 = k
        BY <3>2
      <4> QED BY <1>5, <3>2, <4>1
    <3> QED BY <3>1, <3>2
  <2> QED BY <2>1
<1>7. ASSUME NEW s,
             s = [k \in 0..n |-> IF k = 0 THEN 0 ELSE s[k - 1] + c[k - 1] * Pow2[k - 1]]
      PROVE  s[n] \in 0..(Pow2[n] - 1)
  <2> DEFINE T == {k \in Nat : k <= n => s[k] \in 0..(Pow2[k] - 1)}
  <2> HIDE DEF T
  <2>1. 0 \in T
    <3>1. 0 \in 0..n
      OBVIOUS
    <3>2. s[0] = 0
      BY <1>7, <3>1
    <3>3. s[0] \in 0..(Pow2[0] - 1)
      BY <3>2, PowersOfTwo
    <3> QED BY <3>3 DEF T
  <2>2. ASSUME NEW k \in T PROVE k + 1 \in T
    <3>1. k \in Nat /\ (k <= n => s[k] \in 0..(Pow2[k] - 1))
      BY DEF T
    <3>2. CASE k + 1 <= n
      <4>1. k + 1 \in 0..n /\ k \in 0..(n - 1) /\ (k + 1) - 1 = k /\ k + 1 # 0
        BY <3>1, <3>2
      <4>2. s[k + 1] = s[k] + c[k] * Pow2[k]
        BY <1>7, <4>1
      <4> DEFINE p == Pow2[k]
      <4>3. p \in Nat \ {0} /\ Pow2[k + 1] = 2 * p /\ s[k] \in 0..(p - 1)
        BY <1>1, <3>1, <3>2
      <4> HIDE DEF p
      <4>4. c[k] * p = 0 \/ c[k] * p = p
        <5>1. CASE c[k] = 0
          BY <5>1, <4>3
        <5>2. CASE c[k] = 1
          BY <5>2, <4>3
        <5> QED BY <4>1, <5>1, <5>2
      <4>5. s[k + 1] = s[k] + c[k] * p
        BY <4>2 DEF p
      <4>6. s[k + 1] \in 0..(Pow2[k + 1] - 1)
        BY <4>3, <4>4, <4>5, AddBit
      <4> QED BY <3>1, <4>6 DEF T
    <3>3. CASE ~(k + 1 <= n)
      BY <3>1, <3>3 DEF T
    <3> QED BY <3>2, <3>3
  <2>3. T \in SUBSET Nat
    BY DEF T
  <2>4. T = Nat
    BY <2>1, <2>2, <2>3, SetInduction
  <2> QED BY <2>4 DEF T
<1> HIDE DEF g
<1> QED BY <1>6, <1>7

LEMMA BitType == \A x \in Nat, k \in Nat : BitOf(x, k) \in {0, 1}
<1> SUFFICES ASSUME NEW x \in Nat, NEW k \in Nat PROVE BitOf(x, k) \in {0, 1}
  OBVIOUS
<1>1. Pow2[k] \in Nat \ {0}
  BY PowersOfTwo
<1>2. x \div Pow2[k] \in Nat
  BY <1>1, DivMod
<1>3. (x \div Pow2[k]) % 2 \in 0..(2 - 1)
  BY <1>2, DivMod
<1> QED BY <1>3 DEF BitOf

LEMMA FromBitsType ==
  ASSUME NEW w \in Nat, NEW c \in [0..(w - 1) -> {0, 1}]
  PROVE  FromBits(w, c) \in 0..(Pow2[w] - 1)
<1> DEFINE s == CHOOSE s : s = [k \in 0..w |-> IF k = 0 THEN 0
                                                ELSE s[k - 1] + c[k - 1] * Pow2[k - 1]]
<1>1. FromBits(w, c) = s[w]
  BY DEF FromBits
<1>2. s = [k \in 0..w |-> IF k = 0 THEN 0 ELSE s[k - 1] + c[k - 1] * Pow2[k - 1]]
  BY SumOfBits
<1> HIDE DEF s
<1>3. s[w] \in 0..(Pow2[w] - 1)
  BY <1>2, SumOfBits
<1> QED BY <1>1, <1>3

\* The bitwise operators stay within the width.
LEMMA BitwiseType ==
  ASSUME NEW w \in Nat, NEW x \in Nat, NEW y \in Nat
  PROVE  /\ BitAnd(w, x, y) \in 0..(Pow2[w] - 1)
         /\ BitOr(w, x, y) \in 0..(Pow2[w] - 1)
         /\ BitXor(w, x, y) \in 0..(Pow2[w] - 1)
<1>1. \A k \in 0..(w - 1) : BitOf(x, k) \in {0, 1} /\ BitOf(y, k) \in {0, 1}
  BY BitType
<1>2. [k \in 0..(w - 1) |-> BitOf(x, k) * BitOf(y, k)] \in [0..(w - 1) -> {0, 1}]
  BY <1>1
<1>3. [k \in 0..(w - 1) |-> 1 - (1 - BitOf(x, k)) * (1 - BitOf(y, k))]
        \in [0..(w - 1) -> {0, 1}]
  BY <1>1
<1>4. [k \in 0..(w - 1) |-> (BitOf(x, k) + BitOf(y, k)) % 2] \in [0..(w - 1) -> {0, 1}]
  BY <1>1
<1>5. BitAnd(w, x, y) \in 0..(Pow2[w] - 1)
  BY <1>2, FromBitsType DEF BitAnd
<1>6. BitOr(w, x, y) \in 0..(Pow2[w] - 1)
  BY <1>3, FromBitsType DEF BitOr
<1>7. BitXor(w, x, y) \in 0..(Pow2[w] - 1)
  BY <1>4, FromBitsType DEF BitXor
<1> QED BY <1>5, <1>6, <1>7

-----------------------------------------------------------------------------
(* Fetching and issuing.                                                   *)

\* Every instruction word decodes to fields of the widths isa.hpp gives them.
LEMMA DecodeType ==
  ASSUME NEW w \in [1..16 -> 0..15]
  PROVE  LET in == decode(w)
         IN  /\ in.op \in 0..255 /\ in.imm \in Int
             /\ in.rd \in 0..15 /\ in.rs1 \in 0..15 /\ in.rs2 \in 0..15 /\ in.rs3 \in 0..15
<1> DEFINE imm == CHOOSE imm : imm = [i \in 7..14 |-> IF i = 7 THEN SignedDigit(w[7])
                                                      ELSE imm[i - 1] * 16 + w[i]]
<1>1. \A i \in 1..16 : w[i] \in 0..15
  OBVIOUS
<1>2. decode(w).imm = imm[14]
  BY DEF decode
<1>3. PICK d7 \in Int : d7 = SignedDigit(w[7])
  BY <1>1 DEF SignedDigit
<1>4. PICK d8 \in Int, d9 \in Int : d8 = d7 * 16 + w[8] /\ d9 = d8 * 16 + w[9]
  BY <1>1
<1>5. PICK d10 \in Int, d11 \in Int : d10 = d9 * 16 + w[10] /\ d11 = d10 * 16 + w[11]
  BY <1>1
<1>6. PICK d12 \in Int, d13 \in Int : d12 = d11 * 16 + w[12] /\ d13 = d12 * 16 + w[13]
  BY <1>1
<1>7. PICK d14 \in Int : d14 = d13 * 16 + w[14]
  BY <1>1
<1> DEFINE g == [i \in 7..14 |-> CASE i = 7 -> d7 [] i = 8 -> d8 [] i = 9 -> d9
                                   [] i = 10 -> d10 [] i = 11 -> d11 [] i = 12 -> d12
                                   [] i = 13 -> d13 [] i = 14 -> d14]
<1>8. /\ g[7] = d7 /\ g[8] = d8 /\ g[9] = d9 /\ g[10] = d10 /\ g[11] = d11
      /\ g[12] = d12 /\ g[13] = d13 /\ g[14] = d14
  OBVIOUS
<1>9. g = [i \in 7..14 |-> IF i = 7 THEN SignedDigit(w[7]) ELSE g[i - 1] * 16 + w[i]]
  <2>1. ASSUME NEW i \in 7..14
        PROVE  g[i] = IF i = 7 THEN SignedDigit(w[7]) ELSE g[i - 1] * 16 + w[i]
    <3>1. i \in {7, 8, 9, 10, 11, 12, 13, 14}
      OBVIOUS
    <3> HIDE DEF g
    <3> QED BY <1>3, <1>4, <1>5, <1>6, <1>7, <1>8, <3>1
  <2>2. DOMAIN g = 7..14 /\ g = [i \in 7..14 |-> g[i]]
    OBVIOUS
  <2> HIDE DEF g
  <2> QED BY <2>1, <2>2
<1> HIDE DEF g
<1>10. imm = [i \in 7..14 |-> IF i = 7 THEN SignedDigit(w[7]) ELSE imm[i - 1] * 16 + w[i]]
  BY <1>9
<1> HIDE DEF imm
<1>11. imm[14] \in Int
  <2>1. imm[7] \in Int
    BY <1>3, <1>10
  <2>2. \A i \in 8..14 : imm[i - 1] \in Int => imm[i] \in Int
    BY <1>1, <1>10
  <2>3. imm[8] \in Int
    BY <2>1, <2>2
  <2>4. imm[9] \in Int
    BY <2>2, <2>3
  <2>5. imm[10] \in Int
    BY <2>2, <2>4
  <2>6. imm[11] \in Int
    BY <2>2, <2>5
  <2>7. imm[12] \in Int
    BY <2>2, <2>6
  <2>8. imm[13] \in Int
    BY <2>2, <2>7
  <2> QED BY <2>2, <2>8
<1>12. decode(w).op \in 0..255
  BY <1>1 DEF decode
<1> QED BY <1>1, <1>2, <1>11, <1>12 DEF decode

LEMMA LatencyType == \A op : latencyOf(op) \in 1..4
BY DEF latencyOf

\* A nonempty set of natural numbers below a bound has a largest member.
LEMMA MaxOfBounded ==
  ASSUME NEW bound \in Nat, NEW S, S # {}, \A x \in S : x \in 0..bound
  PROVE  Max(S) \in S /\ \A x \in S : x <= Max(S)
<1> DEFINE Small(n) == {X \in SUBSET Nat : X # {} /\ \A x \in X : x <= n}
           T == {n \in Nat : \A X \in Small(n) : \E m \in X : \A x \in X : x <= m}
<1>1. 0 \in T
  <2> SUFFICES ASSUME NEW X \in Small(0) PROVE \E m \in X : \A x \in X : x <= m
    OBVIOUS
  <2>1. PICK m : m \in X
    OBVIOUS
  <2> QED BY <2>1
<1>2. ASSUME NEW n \in T PROVE n + 1 \in T
  <2> SUFFICES ASSUME NEW X \in Small(n + 1) PROVE \E m \in X : \A x \in X : x <= m
    OBVIOUS
  <2>1. CASE n + 1 \in X
    BY <2>1
  <2>2. CASE n + 1 \notin X
    <3>1. X \in Small(n)
      BY <2>2
    <3> QED BY <3>1
  <2> QED BY <2>1, <2>2
<1> HIDE DEF T
<1>3. T \in SUBSET Nat
  BY DEF T
<1>4. T = Nat
  BY <1>1, <1>2, <1>3, SetInduction
<1>5. S \in Small(bound)
  OBVIOUS
<1>6. \E m \in S : \A x \in S : x <= m
  BY <1>4, <1>5 DEF T
<1>7. \E m \in S : \A x \in S : m >= x
  BY <1>6
<1> DEFINE m == CHOOSE x \in S : \A y \in S : x >= y
<1>8. m \in S /\ \A y \in S : m >= y
  BY <1>7
<1>9. Max(S) = m
  BY DEF Max
<1> HIDE DEF m
<1> QED BY <1>8, <1>9

-----------------------------------------------------------------------------
(* The invariant.                                                          *)

\* What TypeOK says of all variables but the contents of memory and of the vector
\* registers.
Typed ==
  /\ program \in DOMAIN Programs /\ budget \in Budgets
  /\ sregs \in [Sregs -> Words] /\ sReady \in [Sregs -> Nat]
  /\ vReady \in [Vregs -> Nat]
  /\ pc \in Nat /\ now \in Nat
  /\ res \in [DOMAIN NoCounts -> Nat]
  /\ fault \in {"None", "IllegalOpcode", "Alignment", "OutOfRange",
                "StoreProtection", "InstructionLimit", "BadBranch"}
  /\ status \in {"running", "stopped"}

\* No register is ready more than the three cycles later that the longest latency
\* leaves after the next issue; and a fault ends the run.
MachineInv ==
  /\ Typed
  /\ \A r \in Sregs : sReady[r] <= now + 3
  /\ \A v \in Vregs : vReady[v] <= now + 3
  /\ CyclesAccounted
  /\ ClassesAddUp
  /\ status = "running" => fault = "None"

\* The fields of the instruction the loop fetches.
LEMMA FetchedType ==
  ASSUME Typed, Fetchable
  PROVE  /\ Fetched.op \in 0..255 /\ Fetched.imm \in Int
         /\ Fetched.rd \in Sregs /\ Fetched.rs1 \in Sregs
         /\ Fetched.rs2 \in Sregs /\ Fetched.rs3 \in Sregs
<1>1. program \in DOMAIN Programs /\ pc \in Nat /\ pc < Len(Programs[program])
  BY DEF Typed, Fetchable, Length
<1> DEFINE text == Programs[program]
<1>2. text \in Seq([1..16 -> 0..15])
  BY <1>1, ProgramsAssumption
<1> HIDE DEF text
<1>3. pc + 1 \in 1..Len(text)
  BY <1>1, <1>2 DEF text
<1>4. pc + 1 \in DOMAIN text /\ text[pc + 1] \in [1..16 -> 0..15]
  BY <1>2, <1>3
<1>5. Fetched = decode(text[pc + 1])
  BY DEF Fetched, text
<1> QED BY <1>4, <1>5, DecodeType DEF Sregs

\* The address space, and an end that does not wrap: it is what checkAccess tests.
LEMMA AddressType ==
  ASSUME Typed, Fetchable
  PROVE  /\ Address(Fetched) \in Nat /\ Address(Fetched) < AddrMod
         /\ ~EndWraps(Address(Fetched)) =>
              (Address(Fetched) + VecBytes) % AddrMod = Address(Fetched) + VecBytes
<1>1. AddrMod \in Nat \ {0} /\ VecBytes \in Nat
  BY AddressAssumption, MachineAssumption, WordModType
<1>2. Fetched.imm \in Int /\ sregs[Fetched.rs1] \in Nat
  BY FetchedType, WordModType DEF Typed, Words
<1> DEFINE sum == sregs[Fetched.rs1] + Fetched.imm
           addr == Address(Fetched)
<1>3. sum \in Int
  BY <1>2
<1>4. addr = sum % AddrMod
  BY DEF Address
<1> HIDE DEF sum, addr
<1>5. addr \in 0..(AddrMod - 1)
  BY <1>1, <1>3, <1>4, DivModInt
<1>6. addr \in Nat /\ addr < AddrMod
  BY <1>1, <1>5
<1>7. ASSUME ~EndWraps(addr) PROVE (addr + VecBytes) % AddrMod = addr + VecBytes
  <2>1. addr + VecBytes \in Nat /\ addr + VecBytes < AddrMod
    BY <1>1, <1>6, <1>7 DEF EndWraps
  <2> QED BY <1>1, <2>1, SmallRemainder
<1> QED BY <1>6, <1>7 DEF addr

\* What lies inside of the image does not wrap.
LEMMA AddressInImage ==
  ASSUME NEW addr \in Nat, addr + VecBytes <= 2 * MemSize
  PROVE  /\ addr % AddrMod = addr /\ (addr + VecBytes) % AddrMod = addr + VecBytes
         /\ ~EndWraps(addr)
<1>1. AddrMod \in Nat /\ VecBytes \in Nat /\ MemSize \in Nat /\ AddrMod > 2 * MemSize
  BY AddressAssumption, MachineAssumption
<1>2. addr + VecBytes \in Nat /\ addr + VecBytes < AddrMod /\ addr < AddrMod
  BY <1>1
<1>3. addr % AddrMod = addr /\ (addr + VecBytes) % AddrMod = addr + VecBytes
  BY <1>1, <1>2, SmallRemainder
<1> QED BY <1>1, <1>2, <1>3 DEF EndWraps

LEMMA SourcesType ==
  ASSUME NEW in, in.rs1 \in Sregs, in.rs2 \in Sregs, in.rs3 \in Sregs, in.rd \in Sregs
  PROVE  ScalarSources(in) \subseteq Sregs /\ VectorSources(in) \subseteq Vregs
<1>1. ScalarSources(in) \subseteq Sregs
  BY DEF ScalarSources
<1>2. in.rs1 % 8 \in Vregs /\ in.rs2 % 8 \in Vregs /\ in.rs3 % 8 \in Vregs /\ in.rd % 8 \in Vregs
  BY DEF Sregs, Vregs
<1>3. VectorSources(in) \subseteq Vregs
  BY <1>2 DEF VectorSources
<1> QED BY <1>1, <1>3

\* The scoreboard delays an issue by three cycles at most, and a result is ready
\* at most three cycles after the next instruction may issue.
LEMMA IssueBounds ==
  ASSUME MachineInv, Fetchable
  PROVE  /\ IssueAt(Fetched) \in Nat /\ now <= IssueAt(Fetched) /\ IssueAt(Fetched) <= now + 3
         /\ ReadyAt(Fetched) \in Nat /\ ReadyAt(Fetched) <= (IssueAt(Fetched) + 1) + 3
<1> DEFINE in == Fetched
           S  == {now} \cup {sReady[r] : r \in ScalarSources(in)}
                       \cup {vReady[r] : r \in VectorSources(in)}
<1>1. ScalarSources(in) \subseteq Sregs /\ VectorSources(in) \subseteq Vregs
  BY FetchedType, SourcesType DEF MachineInv
<1>2. /\ now \in Nat
      /\ \A r \in Sregs : sReady[r] \in 0..(now + 3)
      /\ \A v \in Vregs : vReady[v] \in 0..(now + 3)
  BY DEF MachineInv, Typed
<1>3. S # {} /\ now \in S /\ \A x \in S : x \in 0..(now + 3)
  BY <1>1, <1>2
<1>4. IssueAt(in) = Max(S)
  BY DEF IssueAt
<1> HIDE DEF S
<1>5. now + 3 \in Nat
  BY <1>2
<1>6. Max(S) \in S /\ \A x \in S : x <= Max(S)
  BY <1>3, <1>5, MaxOfBounded
<1>7. IssueAt(in) \in Nat /\ now <= IssueAt(in) /\ IssueAt(in) <= now + 3
  <2>1. Max(S) \in 0..(now + 3) /\ now <= Max(S)
    BY <1>3, <1>6
  <2> DEFINE m == Max(S)
  <2> HIDE DEF m, in
  <2>2. m \in Nat /\ now <= m /\ m <= now + 3
    BY <1>2, <2>1 DEF m
  <2> QED BY <1>4, <2>2 DEF m
<1>8. ReadyAt(in) = IssueAt(in) + latencyOf(in.op)
  BY DEF ReadyAt
<1> HIDE DEF in
<1> QED BY <1>7, <1>8, LatencyType DEF in

\* The counters after an instruction is retired into a class.
LEMMA RetiredCounts ==
  ASSUME MachineInv, Fetchable,
         NEW counter \in {"scalarOps", "vectorAluOps", "vectorMemOps", "branches"},
         res' = Retired(Fetched, counter),
         now' \in Nat, IssueAt(Fetched) + 1 <= now',
         now' <= IssueAt(Fetched) + 1 + (IF counter = "branches" THEN 2 ELSE 0),
         fault' \in {"None", "BadBranch"}
  PROVE  res' \in [DOMAIN NoCounts -> Nat] /\ CyclesAccounted' /\ ClassesAddUp'
<1> DEFINE stalls == IssueAt(Fetched) - now
           Fields == {"instructions", "stallCycles", "scalarOps", "vectorAluOps",
                      "vectorMemOps", "branches"}
<1>1. now \in Nat /\ stalls \in 0..3 /\ IssueAt(Fetched) = now + stalls
  BY IssueBounds DEF MachineInv, Typed
<1>2. DOMAIN NoCounts = Fields
  BY DEF NoCounts
<1>3. res \in [Fields -> Nat]
  BY <1>2 DEF MachineInv, Typed
<1>4. fault = "None"
  BY DEF MachineInv, Fetchable
<1>5. res' = [res EXCEPT !.instructions = @ + 1, !.stallCycles = @ + stalls, ![counter] = @ + 1]
  BY DEF Retired
<1> HIDE DEF stalls
<1>6. /\ res' \in [Fields -> Nat]
      /\ res'.instructions = res.instructions + 1
      /\ res'.stallCycles = res.stallCycles + stalls
      /\ \A c \in {"scalarOps", "vectorAluOps", "vectorMemOps", "branches"} :
           res'[c] = IF c = counter THEN res[c] + 1 ELSE res[c]
  <2>1. \A c \in Fields : res[c] \in Nat
    BY <1>3
  <2>2. DOMAIN res = Fields /\ DOMAIN res' = Fields /\ res' = [c \in Fields |-> res'[c]]
    BY <1>3, <1>5
  <2>3. /\ res'.instructions = res.instructions + 1
        /\ res'.stallCycles = res.stallCycles + stalls
    BY <1>3, <1>5
  <2>4. ASSUME NEW c \in {"scalarOps", "vectorAluOps", "vectorMemOps", "branches"}
        PROVE  res'[c] = IF c = counter THEN res[c] + 1 ELSE res[c]
    BY <1>3, <1>5
  <2>5. \A c \in Fields : res'[c] \in Nat
    BY <1>1, <2>1, <2>3, <2>4
  <2> QED BY <2>2, <2>3, <2>4, <2>5
<1>7. /\ now >= res.instructions + res.stallCycles
      /\ now <= res.instructions + res.stallCycles + 2 * res.branches
      /\ res.stallCycles <= 3 * res.instructions
      /\ res.instructions = res.scalarOps + res.vectorAluOps + res.vectorMemOps + res.branches
  BY <1>3, <1>4 DEF MachineInv, CyclesAccounted, ClassesAddUp
<1>8. CyclesAccounted'
  <2>1. res'.branches = IF counter = "branches" THEN res.branches + 1 ELSE res.branches
    BY <1>6
  <2>2. CASE counter = "branches"
    BY <1>1, <1>3, <1>6, <1>7, <2>1, <2>2 DEF CyclesAccounted
  <2>3. CASE counter # "branches"
    BY <1>1, <1>3, <1>6, <1>7, <2>1, <2>3 DEF CyclesAccounted
  <2> QED BY <2>2, <2>3
<1>9. ClassesAddUp'
  <2>1. res'.instructions = res'.scalarOps + res'.vectorAluOps + res'.vectorMemOps + res'.branches
    <3>1. CASE counter = "scalarOps"
      BY <1>3, <1>6, <1>7, <3>1
    <3>2. CASE counter = "vectorAluOps"
      BY <1>3, <1>6, <1>7, <3>2
    <3>3. CASE counter = "vectorMemOps"
      BY <1>3, <1>6, <1>7, <3>3
    <3>4. CASE counter = "branches"
      BY <1>3, <1>6, <1>7, <3>4
    <3> QED BY <3>1, <3>2, <3>3, <3>4
  <2>2. fault' \notin {"IllegalOpcode", "Alignment", "OutOfRange", "StoreProtection"}
    OBVIOUS
  <2> QED BY <1>6, <2>1, <2>2 DEF ClassesAddUp
<1> QED BY <1>2, <1>6, <1>8, <1>9

\* The counters after an instruction that faulted.
LEMMA FaultyCounts ==
  ASSUME MachineInv, Fetchable,
         res' = RetiredFaulty(Fetched),
         now' = IssueAt(Fetched) + 1,
         fault' \in {"IllegalOpcode", "Alignment", "OutOfRange", "StoreProtection"}
  PROVE  res' \in [DOMAIN NoCounts -> Nat] /\ CyclesAccounted' /\ ClassesAddUp'
<1> DEFINE stalls == IssueAt(Fetched) - now
           Fields == {"instructions", "stallCycles", "scalarOps", "vectorAluOps",
                      "vectorMemOps", "branches"}
<1>1. now \in Nat /\ stalls \in 0..3 /\ IssueAt(Fetched) = now + stalls
  BY IssueBounds DEF MachineInv, Typed
<1>2. DOMAIN NoCounts = Fields
  BY DEF NoCounts
<1>3. res \in [Fields -> Nat]
  BY <1>2 DEF MachineInv, Typed
<1>4. fault = "None"
  BY DEF MachineInv, Fetchable
<1>5. res' = [res EXCEPT !.instructions = @ + 1, !.stallCycles = @ + stalls]
  BY DEF RetiredFaulty
<1> HIDE DEF stalls
<1>6. /\ res' \in [Fields -> Nat]
      /\ res'.instructions = res.instructions + 1
      /\ res'.stallCycles = res.stallCycles + stalls
      /\ \A c \in {"scalarOps", "vectorAluOps", "vectorMemOps", "branches"} : res'[c] = res[c]
  <2>1. \A c \in Fields : res[c] \in Nat
    BY <1>3
  <2>2. DOMAIN res = Fields /\ DOMAIN res' = Fields /\ res' = [c \in Fields |-> res'[c]]
    BY <1>3, <1>5
  <2>3. /\ res'.instructions = res.instructions + 1
        /\ res'.stallCycles = res.stallCycles + stalls
    BY <1>3, <1>5
  <2>4. ASSUME NEW c \in {"scalarOps", "vectorAluOps", "vectorMemOps", "branches"}
        PROVE  res'[c] = res[c]
    BY <1>3, <1>5
  <2>5. \A c \in Fields : res'[c] \in Nat
    BY <1>1, <2>1, <2>3, <2>4
  <2> QED BY <2>2, <2>3, <2>4, <2>5
<1>7. /\ now >= res.instructions + res.stallCycles
      /\ now <= res.instructions + res.stallCycles + 2 * res.branches
      /\ res.stallCycles <= 3 * res.instructions
      /\ res.instructions = res.scalarOps + res.vectorAluOps + res.vectorMemOps + res.branches
  BY <1>3, <1>4 DEF MachineInv, CyclesAccounted, ClassesAddUp
<1>8. CyclesAccounted'
  BY <1>1, <1>3, <1>6, <1>7 DEF CyclesAccounted
<1>9. ClassesAddUp'
  BY <1>3, <1>6, <1>7 DEF ClassesAddUp
<1> QED BY <1>2, <1>6, <1>8, <1>9

-----------------------------------------------------------------------------
(* The instructions.                                                       *)

\* The arithmetic instructions keep the width of a scalar register.
LEMMA ScalarResultType ==
  ASSUME Typed, NEW in, in.op \in ScalarOps, in.imm \in Int,
         in.rs1 \in Sregs, in.rs2 \in Sregs
  PROVE  ScalarResult(in) \in Words
<1> DEFINE x == sregs[in.rs1]
           y == sregs[in.rs2]
<1>1. x \in Words /\ y \in Words /\ x \in Nat /\ y \in Nat
  BY WordModType DEF Typed, Words
<1>2. WordMod \in Nat \ {0} /\ WordMod = Pow2[WordBits] /\ WordBits \in Nat \ {0}
  BY WordModType, MachineAssumption DEF WordMod
<1>3. \A n \in Int : n % WordMod \in Words
  BY <1>2 DEF Words
<1>4. 0 \in Words
  BY <1>2 DEF Words
<1>5. WordMod >= 2
  <2>1. (WordBits - 1) \in Nat /\ (WordBits - 1) + 1 = WordBits
    BY <1>2
  <2>2. Pow2[WordBits - 1] \in Nat \ {0} /\ Pow2[WordBits] = 2 * Pow2[WordBits - 1]
    BY <2>1, PowersOfTwo
  <2> QED BY <1>2, <2>2
<1>6. 1 \in Words
  BY <1>2, <1>5 DEF Words
<1>7. (x + y) \in Int /\ (x + in.imm) \in Int /\ (x - y) \in Int /\ (x * y) \in Int
  BY <1>1
<1>8. x * Pow2[in.imm % WordBits] \in Int
  <2>1. in.imm % WordBits \in Nat
    BY <1>2
  <2>2. Pow2[in.imm % WordBits] \in Nat
    BY <2>1, PowersOfTwo
  <2> DEFINE p == Pow2[in.imm % WordBits]
  <2> HIDE DEF p
  <2>3. x * p \in Int
    BY <1>1, <2>2 DEF p
  <2> QED BY <2>3 DEF p
<1>9. BitAnd(WordBits, x, in.imm % WordMod) \in Words
  <2>1. in.imm % WordMod \in Nat
    BY <1>2
  <2> QED BY <1>1, <1>2, <2>1, BitwiseType DEF Words
<1> HIDE DEF x, y
<1>10. ScalarResult(in) \in
         {in.imm % WordMod, (x + y) % WordMod, (x + in.imm) % WordMod, (x - y) % WordMod,
          (x * Pow2[in.imm % WordBits]) % WordMod, BitAnd(WordBits, x, in.imm % WordMod),
          (x * y) % WordMod, 0, 1}
  BY DEF ScalarResult, ScalarOps, x, y
<1> QED BY <1>3, <1>4, <1>6, <1>7, <1>8, <1>9, <1>10

\* A register that is written is ready when the scoreboard says, the others stay.
LEMMA Advance ==
  ASSUME MachineInv, Fetchable, Fixed,
         res' \in [DOMAIN NoCounts -> Nat], CyclesAccounted', ClassesAddUp',
         now' \in Nat, IssueAt(Fetched) + 1 <= now', pc' \in Nat,
         fault' \in {"None", "IllegalOpcode", "Alignment", "OutOfRange",
                    "StoreProtection", "InstructionLimit", "BadBranch"},
         status' \in {"running", "stopped"}, status' = "running" => fault' = "None",
         sregs' \in [Sregs -> Words],
         \/ sReady' = sReady
         \/ \E r \in Sregs : sReady' = [sReady EXCEPT ![r] = ReadyAt(Fetched)],
         \/ vReady' = vReady
         \/ \E v \in Vregs : vReady' = [vReady EXCEPT ![v] = ReadyAt(Fetched)]
  PROVE  MachineInv'
<1>1. /\ now \in Nat /\ IssueAt(Fetched) \in Nat /\ now <= IssueAt(Fetched)
      /\ ReadyAt(Fetched) \in Nat /\ ReadyAt(Fetched) <= (IssueAt(Fetched) + 1) + 3
  BY IssueBounds DEF MachineInv, Typed
<1>2. now + 3 <= now' + 3 /\ ReadyAt(Fetched) <= now' + 3
  BY <1>1
<1>3. /\ sReady \in [Sregs -> Nat] /\ \A r \in Sregs : sReady[r] <= now + 3
      /\ vReady \in [Vregs -> Nat] /\ \A v \in Vregs : vReady[v] <= now + 3
  BY DEF MachineInv, Typed
<1> DEFINE ready == ReadyAt(Fetched)
<1> HIDE DEF ready
<1>4. sReady' \in [Sregs -> Nat] /\ \A r \in Sregs : sReady'[r] = sReady[r] \/ sReady'[r] = ready
  BY <1>1, <1>3 DEF ready
<1>5. vReady' \in [Vregs -> Nat] /\ \A v \in Vregs : vReady'[v] = vReady[v] \/ vReady'[v] = ready
  BY <1>1, <1>3 DEF ready
<1>6. ready <= now' + 3 /\ ready \in Nat
  BY <1>1, <1>2 DEF ready
<1>7. \A r \in Sregs : sReady'[r] <= now' + 3
  BY <1>1, <1>2, <1>3, <1>4, <1>6
<1>8. \A v \in Vregs : vReady'[v] <= now' + 3
  BY <1>1, <1>2, <1>3, <1>5, <1>6
<1>9. Typed'
  BY <1>4, <1>5 DEF MachineInv, Typed, Fixed
<1> QED BY <1>7, <1>8, <1>9 DEF MachineInv

\* The next slot after an instruction that issues on its own.
LEMMA NextSlotType ==
  ASSUME MachineInv, Fetchable, NextSlot(Fetched)
  PROVE  /\ pc' \in Nat /\ now' \in Nat /\ now' = IssueAt(Fetched) + 1
         /\ IssueAt(Fetched) + 1 <= now'
<1>1. pc \in Nat /\ IssueAt(Fetched) \in Nat
  BY IssueBounds DEF MachineInv, Typed
<1> QED BY <1>1 DEF NextSlot

\* An instruction that is retired into a class and goes on with the next slot.
LEMMA StraightLine ==
  ASSUME MachineInv, Fetchable, NextSlot(Fetched),
         NEW counter \in {"scalarOps", "vectorAluOps", "vectorMemOps"},
         res' = Retired(Fetched, counter), fault' = "None"
  PROVE  /\ pc' \in Nat /\ now' \in Nat /\ IssueAt(Fetched) + 1 <= now'
         /\ res' \in [DOMAIN NoCounts -> Nat] /\ CyclesAccounted' /\ ClassesAddUp'
<1>1. /\ pc' \in Nat /\ now' \in Nat /\ now' = IssueAt(Fetched) + 1
      /\ IssueAt(Fetched) + 1 <= now'
  BY NextSlotType
<1>2. now' <= IssueAt(Fetched) + 1 + (IF counter = "branches" THEN 2 ELSE 0)
  BY <1>1
<1> QED BY <1>1, <1>2, RetiredCounts

LEMMA StopKeeps == ASSUME MachineInv, Stop PROVE MachineInv'
<1>1. /\ UNCHANGED <<mem, registers, pc, now, res, program, budget>>
      /\ status' = "stopped" /\ fault' \in {"BadBranch", "InstructionLimit"}
  BY DEF Stop, StopWith, Fixed
<1>2. fault = "None"
  BY DEF MachineInv, Stop
<1>3. Typed'
  BY <1>1 DEF MachineInv, Typed, registers
<1>4. CyclesAccounted' /\ ClassesAddUp'
  BY <1>1, <1>2 DEF MachineInv, CyclesAccounted, ClassesAddUp
<1> QED BY <1>1, <1>3, <1>4 DEF MachineInv, registers

LEMMA HaltNopKeep == ASSUME MachineInv, Halt \/ Nop PROVE MachineInv'
<1>1. /\ Fetchable /\ NextSlot(Fetched) /\ res' = Retired(Fetched, "scalarOps")
      /\ UNCHANGED registers /\ Fixed
  BY DEF Halt, Nop
<1>2. fault' = "None" /\ status' \in {"running", "stopped"}
  BY DEF Halt, Nop, StopWith, CarryOn, MachineInv, Fetchable
<1>3. /\ pc' \in Nat /\ now' \in Nat /\ IssueAt(Fetched) + 1 <= now'
      /\ res' \in [DOMAIN NoCounts -> Nat] /\ CyclesAccounted' /\ ClassesAddUp'
  BY <1>1, <1>2, StraightLine
<1>4. sregs' \in [Sregs -> Words] /\ sReady' = sReady /\ vReady' = vReady
  BY <1>1 DEF registers, MachineInv, Typed
<1> QED BY <1>1, <1>2, <1>3, <1>4, Advance

LEMMA ScalarKeeps == ASSUME MachineInv, Scalar PROVE MachineInv'
<1>1. /\ Fetchable /\ NextSlot(Fetched) /\ res' = Retired(Fetched, "scalarOps") /\ Fixed
      /\ Fetched.op \in ScalarOps
      /\ sregs' = [sregs EXCEPT ![Fetched.rd] = ScalarResult(Fetched)]
      /\ sReady' = [sReady EXCEPT ![Fetched.rd] = ReadyAt(Fetched)]
      /\ vReady' = vReady
  BY DEF Scalar
<1>2. fault' = "None" /\ status' \in {"running", "stopped"}
  BY DEF Scalar, CarryOn, MachineInv, Fetchable
<1>3. /\ pc' \in Nat /\ now' \in Nat /\ IssueAt(Fetched) + 1 <= now'
      /\ res' \in [DOMAIN NoCounts -> Nat] /\ CyclesAccounted' /\ ClassesAddUp'
  BY <1>1, <1>2, StraightLine
<1>4. Fetched.imm \in Int /\ Fetched.rd \in Sregs /\ Fetched.rs1 \in Sregs /\ Fetched.rs2 \in Sregs
  BY <1>1, FetchedType DEF MachineInv
<1>5. ScalarResult(Fetched) \in Words
  BY <1>1, <1>4, ScalarResultType DEF MachineInv
<1>6. sregs' \in [Sregs -> Words]
  BY <1>1, <1>4, <1>5 DEF MachineInv, Typed
<1> QED BY <1>1, <1>2, <1>3, <1>4, <1>6, Advance

LEMMA BranchKeeps == ASSUME MachineInv, Branch PROVE MachineInv'
<1> DEFINE bad == Fetched.imm \notin 0..(Length - 1)
           jumps == Taken(Fetched) /\ ~bad
<1>1. /\ Fetchable /\ res' = Retired(Fetched, "branches") /\ UNCHANGED registers /\ Fixed
      /\ pc' = IF jumps THEN Fetched.imm ELSE pc + 1
      /\ now' = IssueAt(Fetched) + 1 + (IF jumps THEN 2 ELSE 0)
      /\ IF Taken(Fetched) /\ bad THEN StopWith("BadBranch") ELSE CarryOn
  BY DEF Branch
<1>2. /\ fault' \in {"None", "BadBranch"} /\ status' \in {"running", "stopped"}
      /\ status' = "running" => fault' = "None"
  BY <1>1 DEF StopWith, CarryOn, MachineInv, Fetchable
<1>3. pc \in Nat /\ IssueAt(Fetched) \in Nat
  BY <1>1, IssueBounds DEF MachineInv, Typed
<1>4. pc' \in Nat
  BY <1>1, <1>3
<1>5. /\ now' \in Nat /\ IssueAt(Fetched) + 1 <= now'
      /\ now' <= IssueAt(Fetched) + 1 + 2
  BY <1>1, <1>3
<1>6. res' \in [DOMAIN NoCounts -> Nat] /\ CyclesAccounted' /\ ClassesAddUp'
  BY <1>1, <1>2, <1>5, RetiredCounts
<1>7. sregs' \in [Sregs -> Words] /\ sReady' = sReady /\ vReady' = vReady
  BY <1>1 DEF registers, MachineInv, Typed
<1> QED BY <1>1, <1>2, <1>4, <1>5, <1>6, <1>7, Advance

LEMMA LoadVectorKeep == ASSUME MachineInv, Load \/ Vector PROVE MachineInv'
<1>1. /\ Fetchable /\ NextSlot(Fetched) /\ Fixed
      /\ res' = Retired(Fetched, IF Load THEN "vectorMemOps" ELSE "vectorAluOps")
      /\ vReady' = [vReady EXCEPT ![Fetched.rd % 8] = ReadyAt(Fetched)]
      /\ UNCHANGED <<sregs, sReady>> /\ CarryOn
  BY DEF Load, Vector
<1>2. fault' = "None" /\ status' \in {"running", "stopped"}
  BY <1>1 DEF CarryOn, MachineInv, Fetchable
<1> DEFINE counter == IF Load THEN "vectorMemOps" ELSE "vectorAluOps"
<1>3. /\ pc' \in Nat /\ now' \in Nat /\ IssueAt(Fetched) + 1 <= now'
      /\ res' \in [DOMAIN NoCounts -> Nat] /\ CyclesAccounted' /\ ClassesAddUp'
  <2>1. counter \in {"scalarOps", "vectorAluOps", "vectorMemOps"} /\ res' = Retired(Fetched, counter)
    BY <1>1
  <2> HIDE DEF counter
  <2> QED BY <1>1, <1>2, <2>1, StraightLine
<1>4. Fetched.rd % 8 \in Vregs
  BY <1>1, FetchedType DEF MachineInv, Sregs, Vregs
<1>5. sregs' \in [Sregs -> Words] /\ sReady' = sReady
  BY <1>1 DEF MachineInv, Typed
<1> QED BY <1>1, <1>2, <1>3, <1>4, <1>5, Advance

LEMMA StoreKeeps == ASSUME MachineInv, Store PROVE MachineInv'
<1>1. /\ Fetchable /\ NextSlot(Fetched) /\ Fixed /\ res' = Retired(Fetched, "vectorMemOps")
      /\ UNCHANGED registers /\ CarryOn
  BY DEF Store
<1>2. fault' = "None" /\ status' \in {"running", "stopped"}
  BY <1>1 DEF CarryOn, MachineInv, Fetchable
<1>3. /\ pc' \in Nat /\ now' \in Nat /\ IssueAt(Fetched) + 1 <= now'
      /\ res' \in [DOMAIN NoCounts -> Nat] /\ CyclesAccounted' /\ ClassesAddUp'
  BY <1>1, <1>2, StraightLine
<1>4. sregs' \in [Sregs -> Words] /\ sReady' = sReady /\ vReady' = vReady
  BY <1>1 DEF registers, MachineInv, Typed
<1> QED BY <1>1, <1>2, <1>3, <1>4, Advance

LEMMA FaultKeeps == ASSUME MachineInv, AccessFault \/ Illegal PROVE MachineInv'
<1>1. /\ Fetchable /\ NextSlot(Fetched) /\ Fixed /\ res' = RetiredFaulty(Fetched)
      /\ UNCHANGED registers /\ status' = "stopped"
      /\ fault' \in {"IllegalOpcode", "Alignment", "OutOfRange", "StoreProtection"}
  BY DEF AccessFault, Illegal, StopWith, checkAccess
<1>2. /\ pc' \in Nat /\ now' \in Nat /\ now' = IssueAt(Fetched) + 1
      /\ IssueAt(Fetched) + 1 <= now'
  BY <1>1, NextSlotType
<1>3. res' \in [DOMAIN NoCounts -> Nat] /\ CyclesAccounted' /\ ClassesAddUp'
  BY <1>1, <1>2, FaultyCounts
<1>4. sregs' \in [Sregs -> Words] /\ sReady' = sReady /\ vReady' = vReady
  BY <1>1 DEF registers, MachineInv, Typed
<1> QED BY <1>1, <1>2, <1>3, <1>4, Advance

\* A machine that has just been constructed, with a program and a budget.
Fresh ==
  /\ program \in DOMAIN Programs /\ budget \in Budgets
  /\ Reset /\ status = "running"

LEMMA FreshMachine == Fresh => MachineInv
<1> SUFFICES ASSUME Fresh PROVE MachineInv
  OBVIOUS
<1>1. 0 \in Words
  BY WordModType DEF Words
<1>2. Typed
  BY <1>1 DEF Fresh, Reset, Typed, NoScalars, AllReady, NoCounts
<1>3. CyclesAccounted /\ ClassesAddUp
  BY DEF Fresh, Reset, CyclesAccounted, ClassesAddUp, NoCounts
<1> QED BY <1>2, <1>3 DEF MachineInv, Fresh, Reset, AllReady

LEMMA InitMachine == MachineInit => MachineInv
BY FreshMachine DEF MachineInit, Fresh

LEMMA MachineStep == ASSUME MachineInv, [Execute]_mvars PROVE MachineInv'
<1>1. CASE Execute
  BY <1>1, StopKeeps, HaltNopKeep, ScalarKeeps, BranchKeeps, LoadVectorKeep, StoreKeeps,
     FaultKeeps DEF Execute
<1>2. CASE UNCHANGED mvars
  BY <1>2 DEF mvars, registers, MachineInv, Typed, CyclesAccounted, ClassesAddUp
<1> QED BY <1>1, <1>2

LEMMA MachineInvariant == MachineSpec => []MachineInv
<1>1. MachineInv /\ [Execute]_mvars => MachineInv'
  BY MachineStep
<1> QED BY InitMachine, <1>1, PTL DEF MachineSpec

\* A store that passes checkAccess leaves SRC alone, unless its end wraps.
LEMMA SourceStep ==
  ASSUME MachineInv, [Execute]_mvars, NEW a \in 0..(MemSize - 1), mem'[a] # mem[a]
  PROVE  Fetchable /\ Fetched.op = Op.VST /\ EndWraps(Address(Fetched))
<1>1. Store
  <2>1. ASSUME ~Store PROVE FALSE
    <3>1. mem' = mem
      BY <2>1 DEF Execute, Stop, Halt, Nop, Scalar, Branch, Load, AccessFault, Vector,
         Illegal, mvars
    <3> QED BY <3>1
  <2> QED BY <2>1
<1>2. Fetchable /\ Fetched.op = Op.VST
  BY <1>1 DEF Store
<1> DEFINE addr == Address(Fetched)
           row == vregs[Fetched.rd % 8]
<1>3. addr \in Nat
  BY <1>2, AddressType DEF MachineInv
<1>4. checkAccess(addr, TRUE) = "None" /\ MemAfter(addr, row)
  BY <1>1 DEF Store
<1> HIDE DEF addr, row
<1>5. ASSUME ~EndWraps(addr) PROVE FALSE
  <2>1. mem' = Stored(addr, row)
    BY <1>4, <1>5 DEF MemAfter
  <2>2. MemSize \in Nat \ {0} /\ VecBytes \in Nat
    BY MachineAssumption
  <2>3. addr >= MemSize
    BY <1>3, <1>4, <2>2 DEF checkAccess
  <2>4. a \in MemAddrs
    BY <2>2 DEF MemAddrs
  <2>5. a - addr < 0
    BY <1>3, <2>2, <2>3
  <2>6. a - addr \notin Lanes
    BY <2>2, <2>5 DEF Lanes
  <2> QED BY <2>1, <2>4, <2>6 DEF Stored
<1> QED BY <1>2, <1>5 DEF addr

-----------------------------------------------------------------------------
(* The contents of memory and of the vector registers.                     *)

ContentsTyped ==
  mem \in [MemAddrs -> Bytes] /\ vregs \in [Vregs -> [Lanes -> Bytes]]

\* a[i] is what the loop of VSHUF leaves in its destination vd, old before it, after
\* i lanes; x is the register vs, y holds the indices.
ShuffleRun(a, vd, vs, old, x, y) ==
  a = [i \in 0..VecBytes |->
         IF i = 0 THEN old
         ELSE [a[i - 1] EXCEPT ![i - 1] = (IF vd = vs THEN a[i - 1] ELSE x)[y[i - 1] % 16]]]

\* The first k lanes of a register are the lookup of the indices y in x.
LookedUp(r, k, x, y) == \A i \in 0..(k - 1) : r[i] = x[y[i] % 16]

\* What the loop looks up is of the set V, which the destination holds too.
LooksUp(V, vd, vs, x, y) ==
  /\ \A i \in Lanes : x[y[i] % 16] \in V
  /\ vd = vs => \A r \in [Lanes -> V] : \A i \in Lanes : r[y[i] % 16] \in V

\* Unless the destination is the table, the first k lanes are looked up in it.
LEMMA ShuffleLoop ==
  ASSUME NEW V, NEW old \in [Lanes -> V], NEW x, NEW y, NEW vd, NEW vs,
         LooksUp(V, vd, vs, x, y)
  PROVE  /\ \E a : ShuffleRun(a, vd, vs, old, x, y)
         /\ \A a : ShuffleRun(a, vd, vs, old, x, y) => \A k \in 0..VecBytes :
              /\ a[k] \in [Lanes -> V]
              /\ vd # vs => LookedUp(a[k], k, x, y)
<1> DEFINE R == [Lanes -> V]
           write(r, i) == [r EXCEPT ![i] = (IF vd = vs THEN r ELSE x)[y[i] % 16]]
           Loop(a) == a = [i \in 0..VecBytes |-> IF i = 0 THEN old ELSE write(a[i - 1], i - 1)]
           step == [p \in Nat \X R |-> IF p[1] < VecBytes THEN write(p[2], p[1]) ELSE p[2]]
<1>1. VecBytes \in Nat \ {0}
  BY MachineAssumption
<1>2. ASSUME NEW r \in R, NEW i \in Lanes
      PROVE  /\ write(r, i) \in R
             /\ write(r, i)[i] = (IF vd = vs THEN r ELSE x)[y[i] % 16]
             /\ \A j \in Lanes : j # i => write(r, i)[j] = r[j]
  <2>1. (IF vd = vs THEN r ELSE x)[y[i] % 16] \in V
    BY DEF LooksUp
  <2> QED BY <2>1
<1>3. step \in [Nat \X R -> R]
  <2> HIDE DEF write
  <2>1. ASSUME NEW p \in Nat \X R PROVE (IF p[1] < VecBytes THEN write(p[2], p[1]) ELSE p[2]) \in R
    <3>1. p[1] \in Nat /\ p[2] \in R
      OBVIOUS
    <3>2. p[1] < VecBytes => p[1] \in Lanes
      BY <1>1, <3>1 DEF Lanes
    <3> QED BY <1>2, <3>1, <3>2
  <2> QED BY <2>1
<1>4. PICK f \in [Nat -> R] : Iterates(f, old, step)
  <2> HIDE DEF step
  <2> QED BY <1>3, NatRecursion, Zenon
<1>5. f[0] = old /\ \A n \in 0..(VecBytes - 1) : f[n + 1] = write(f[n], n)
  <2> HIDE DEF write
  <2>1. f[0] = old
    BY <1>4 DEF Iterates
  <2>2. ASSUME NEW n \in 0..(VecBytes - 1) PROVE f[n + 1] = write(f[n], n)
    <3>1. n \in Nat /\ n < VecBytes
      BY <1>1
    <3>2. f[n + 1] = step[<<n, f[n]>>]
      BY <1>4, <3>1 DEF Iterates
    <3>3. <<n, f[n]>> \in Nat \X R
      BY <1>4, <3>1
    <3> QED BY <3>1, <3>2, <3>3
  <2> QED BY <2>1, <2>2
<1> DEFINE g == [k \in 0..VecBytes |-> f[k]]
<1>6. Loop(g)
  <2> HIDE DEF write
  <2>1. ASSUME NEW k \in 0..VecBytes
        PROVE  g[k] = IF k = 0 THEN old ELSE write(g[k - 1], k - 1)
    <3>1. CASE k = 0
      BY <3>1, <1>5
    <3>2. CASE k # 0
      <4>1. k - 1 \in 0..(VecBytes - 1) /\ k - 1 \in 0..VecBytes /\ (k - 1) + 1 = k
        BY <1>1, <3>2
      <4> QED BY <1>5, <3>2, <4>1
    <3> QED BY <3>1, <3>2
  <2> QED BY <2>1
<1>7. ASSUME NEW a, Loop(a)
      PROVE  \A k \in 0..VecBytes :
               /\ a[k] \in R
               /\ vd # vs => LookedUp(a[k], k, x, y)
  <2> DEFINE Good(k) == /\ a[k] \in R
                        /\ vd # vs => LookedUp(a[k], k, x, y)
             T == {k \in Nat : k <= VecBytes => Good(k)}
  <2> HIDE DEF T
  <2>1. 0 \in T
    <3>1. a[0] = old
      BY <1>1, <1>7
    <3> QED BY <3>1 DEF T, LookedUp
  <2>2. ASSUME NEW k \in T PROVE k + 1 \in T
    <3>1. k \in Nat /\ (k <= VecBytes => Good(k))
      BY DEF T
    <3>2. CASE k + 1 <= VecBytes
      <4>1. /\ k + 1 \in 0..VecBytes /\ k + 1 # 0 /\ (k + 1) - 1 = k
            /\ k \in Lanes /\ Good(k)
        BY <1>1, <3>1, <3>2 DEF Lanes
      <4>2. a[k + 1] = write(a[k], k)
        <5> HIDE DEF write
        <5> QED BY <1>7, <4>1
      <4>3. /\ a[k + 1] \in R
            /\ a[k + 1][k] = (IF vd = vs THEN a[k] ELSE x)[y[k] % 16]
            /\ \A j \in Lanes : j # k => a[k + 1][j] = a[k][j]
        <5>1. a[k] \in R /\ k \in Lanes
          BY <4>1
        <5> HIDE DEF write, Good
        <5>2. /\ write(a[k], k) \in R
              /\ write(a[k], k)[k] = (IF vd = vs THEN a[k] ELSE x)[y[k] % 16]
              /\ \A j \in Lanes : j # k => write(a[k], k)[j] = a[k][j]
          BY <1>2, <5>1, Zenon
        <5> QED BY <4>2, <5>2, Zenon
      <4>4. ASSUME vd # vs, NEW i \in 0..k PROVE a[k + 1][i] = x[y[i] % 16]
        <5>1. CASE i = k
          BY <4>3, <4>4, <5>1
        <5>2. CASE i # k
          <6>1. i \in 0..(k - 1) /\ i \in Lanes
            BY <3>1, <3>2, <1>1, <5>2 DEF Lanes
          <6> QED BY <4>1, <4>3, <4>4, <5>2, <6>1 DEF LookedUp
        <5> QED BY <5>1, <5>2
      <4>5. Good(k + 1)
        BY <3>1, <4>1, <4>3, <4>4 DEF LookedUp
      <4> QED BY <3>1, <4>5 DEF T
    <3>3. CASE ~(k + 1 <= VecBytes)
      BY <3>1, <3>3 DEF T
    <3> QED BY <3>2, <3>3
  <2>3. T \in SUBSET Nat
    BY DEF T
  <2>4. T = Nat
    BY <2>1, <2>2, <2>3, SetInduction
  <2> QED BY <1>1, <2>4 DEF T
<1> HIDE DEF g
<1> QED BY <1>6, <1>7 DEF ShuffleRun

LEMMA RegisterOf == \A r \in Sregs : r % 8 \in Vregs
BY DEF Sregs, Vregs

\* Unless its destination is its table, VSHUF is the lookup of isa_spec.md.
LEMMA ShuffledIn ==
  ASSUME NEW V, NEW in, vregs[in.rd % 8] \in [Lanes -> V],
         LooksUp(V, in.rd % 8, in.rs1 % 8, vregs[in.rs1 % 8], vregs[in.rs2 % 8])
  PROVE  /\ Shuffled(in) \in [Lanes -> V]
         /\ in.rd % 8 # in.rs1 % 8 =>
              \A i \in Lanes : Shuffled(in)[i] = vregs[in.rs1 % 8][vregs[in.rs2 % 8][i] % 16]
<1> DEFINE old == vregs[in.rd % 8]
           x   == vregs[in.rs1 % 8]
           y   == vregs[in.rs2 % 8]
           vd  == in.rd % 8
           vs  == in.rs1 % 8
           Loop(a) == ShuffleRun(a, vd, vs, old, x, y)
           after == CHOOSE a : Loop(a)
<1>1. old \in [Lanes -> V] /\ LooksUp(V, vd, vs, x, y)
  OBVIOUS
<1>2. Shuffled(in) = after[VecBytes]
  BY DEF Shuffled, ShuffleRun
<1>3. /\ \E a : Loop(a)
      /\ \A a : Loop(a) => \A k \in 0..VecBytes :
           /\ a[k] \in [Lanes -> V]
           /\ vd # vs => LookedUp(a[k], k, x, y)
  <2> HIDE DEF old, x, y, vd, vs
  <2> QED BY <1>1, ShuffleLoop
<1> HIDE DEF Loop
<1>4. Loop(after)
  BY <1>3
<1>5. VecBytes \in 0..VecBytes
  BY MachineAssumption
<1> HIDE DEF after
<1>6. /\ after[VecBytes] \in [Lanes -> V]
      /\ vd # vs => LookedUp(after[VecBytes], VecBytes, x, y)
  BY <1>3, <1>4, <1>5
<1> QED BY <1>2, <1>6 DEF Lanes, LookedUp

\* With sixteen lanes or more every lookup finds a byte.
LEMMA ShuffledLanes ==
  ASSUME VecBytes >= 16, ContentsTyped,
         NEW in, in.rd \in Sregs, in.rs1 \in Sregs, in.rs2 \in Sregs
  PROVE  /\ Shuffled(in) \in [Lanes -> Bytes]
         /\ in.rd % 8 # in.rs1 % 8 =>
              \A i \in Lanes : Shuffled(in)[i] = vregs[in.rs1 % 8][vregs[in.rs2 % 8][i] % 16]
<1> DEFINE x == vregs[in.rs1 % 8]
           y == vregs[in.rs2 % 8]
<1>1. /\ vregs[in.rd % 8] \in [Lanes -> Bytes]
      /\ x \in [Lanes -> Bytes] /\ y \in [Lanes -> Bytes]
  BY RegisterOf DEF ContentsTyped
<1>2. \A i \in Lanes : y[i] % 16 \in Lanes
  <2> SUFFICES ASSUME NEW i \in Lanes PROVE y[i] % 16 \in Lanes
    OBVIOUS
  <2>1. y[i] \in Nat
    BY <1>1 DEF Bytes
  <2>2. y[i] % 16 \in 0..15
    BY <2>1
  <2> QED BY <2>2, MachineAssumption DEF Lanes
<1>3. LooksUp(Bytes, in.rd % 8, in.rs1 % 8, x, y)
  <2> HIDE DEF x, y
  <2> QED BY <1>1, <1>2 DEF LooksUp
<1> QED BY <1>1, <1>3, ShuffledIn

LEMMA VectorLaneType ==
  ASSUME VecBytes >= 16, ContentsTyped, NEW in, in.op \in VectorOps, in.op # Op.VSHUF,
         in.imm \in Int, in.rs1 \in Sregs, in.rs2 \in Sregs, in.rs3 \in Sregs, NEW i \in Lanes
  PROVE  VectorLane(in, i) \in Bytes
<1> DEFINE x == vregs[in.rs1 % 8][i]
           y == vregs[in.rs2 % 8][i]
           z == vregs[in.rs3 % 8][i]
<1>1. x \in Bytes /\ y \in Bytes /\ z \in Bytes
  BY RegisterOf DEF ContentsTyped
<1>2. x \in Nat /\ y \in Nat /\ 255 - x \in Nat
  BY <1>1 DEF Bytes
<1>3. \A n : n \in 0..(Pow2[8] - 1) => n \in Bytes
  BY Pow8 DEF Bytes
<1> HIDE DEF x, y, z
<1>4. /\ BitAnd(8, x, y) \in Bytes /\ BitAnd(8, 255 - x, y) \in Bytes
      /\ BitOr(8, x, y) \in Bytes /\ BitXor(8, x, y) \in Bytes
  BY <1>2, <1>3, BitwiseType
<1>5. \A b \in BOOLEAN : Mask(b) \in Bytes
  BY DEF Mask, Bytes
<1>6. in.imm % 256 \in Bytes
  BY DEF Bytes
<1>7. kDensityRom[i % 16] \in Bytes
  <2>1. i % 16 \in 0..15
    BY MachineAssumption DEF Lanes
  <2>2. \A k \in 0..15 : kDensityRom[k] \in Bytes
    BY DEF kDensityRom, Bytes
  <2> QED BY <2>1, <2>2
<1>8. VectorLane(in, i) \in
        {Mask(Signed(x, 256) > Signed(y, 256)), Mask(x = y), BitAnd(8, x, y),
         BitAnd(8, 255 - x, y), BitOr(8, x, y), BitXor(8, x, y), x, y, in.imm % 256,
         kDensityRom[i % 16]}
  BY DEF VectorLane, VectorOps, Op, x, y, z
<1>9. Mask(Signed(x, 256) > Signed(y, 256)) \in Bytes /\ Mask(x = y) \in Bytes
  BY DEF Mask, Bytes
<1> QED BY <1>1, <1>4, <1>6, <1>7, <1>8, <1>9

LEMMA LoadContents ==
  ASSUME MachineInv, ContentsTyped, Load PROVE ContentsTyped'
<1> DEFINE addr == Address(Fetched)
<1>1. /\ Fetchable /\ Fetched.op = Op.VLD /\ mem' = mem
      /\ checkAccess(addr, FALSE) = "None"
      /\ \E row \in RowsAt(addr) : vregs' = [vregs EXCEPT ![Fetched.rd % 8] = row]
  BY DEF Load
<1>2. PICK row \in RowsAt(addr) : vregs' = [vregs EXCEPT ![Fetched.rd % 8] = row]
  BY <1>1
<1>3. Fetched.rd \in Sregs
  BY <1>1, FetchedType DEF MachineInv
<1>4. addr \in Nat /\ (~EndWraps(addr) => (addr + VecBytes) % AddrMod = addr + VecBytes)
  BY <1>1, AddressType DEF MachineInv
<1> HIDE DEF addr
<1>5. row \in [Lanes -> Bytes]
  <2>1. CASE EndWraps(addr)
    BY <1>2, <2>1, MachineAssumption DEF RowsAt
  <2>2. CASE ~EndWraps(addr)
    <3>1. addr + VecBytes <= 2 * MemSize
      BY <1>1, <1>4, <2>2, MachineAssumption DEF checkAccess
    <3>2. \A i \in Lanes : addr + i \in MemAddrs
      BY <1>4, <3>1, MachineAssumption DEF Lanes, MemAddrs
    <3>3. Row(addr) \in [Lanes -> Bytes]
      BY <3>2 DEF Row, ContentsTyped
    <3> QED BY <1>2, <2>2, <3>3 DEF RowsAt
  <2> QED BY <2>1, <2>2
<1> QED BY <1>1, <1>2, <1>3, <1>5, RegisterOf DEF ContentsTyped

LEMMA VectorContents ==
  ASSUME VecBytes >= 16, MachineInv, ContentsTyped, Vector PROVE ContentsTyped'
<1>1. /\ Fetchable /\ Fetched.op \in VectorOps /\ mem' = mem
      /\ vregs' = [vregs EXCEPT ![Fetched.rd % 8] = VectorResult(Fetched)]
  BY DEF Vector
<1>2. /\ Fetched.imm \in Int /\ Fetched.rd \in Sregs /\ Fetched.rs1 \in Sregs
      /\ Fetched.rs2 \in Sregs /\ Fetched.rs3 \in Sregs
  BY <1>1, FetchedType DEF MachineInv
<1>3. VectorResult(Fetched) \in [Lanes -> Bytes]
  <2>1. CASE Fetched.op = Op.VSHUF
    BY <1>2, <2>1, ShuffledLanes DEF VectorResult
  <2>2. CASE Fetched.op # Op.VSHUF
    <3>1. \A i \in Lanes : VectorLane(Fetched, i) \in Bytes
      BY <1>1, <1>2, <2>2, VectorLaneType
    <3> QED BY <2>2, <3>1 DEF VectorResult
  <2> QED BY <2>1, <2>2
<1> QED BY <1>1, <1>2, <1>3, RegisterOf DEF ContentsTyped

LEMMA StoreContents ==
  ASSUME MachineInv, ContentsTyped, Store PROVE ContentsTyped'
<1> DEFINE row == vregs[Fetched.rd % 8]
<1>1. /\ Fetchable /\ vregs' = vregs
      /\ MemAfter(Address(Fetched), row)
  BY DEF Store, registers
<1>2. row \in [Lanes -> Bytes]
  BY <1>1, FetchedType, RegisterOf DEF MachineInv, ContentsTyped
<1> HIDE DEF row
<1>3. mem' \in [MemAddrs -> Bytes]
  <2>1. CASE EndWraps(Address(Fetched))
    <3>1. PICK place \in (-VecBytes)..MemSize : mem' = Astray(place, row)
      BY <1>1, <2>1 DEF MemAfter
    <3> QED BY <1>2, <3>1 DEF Astray, ContentsTyped
  <2>2. CASE ~EndWraps(Address(Fetched))
    <3>1. mem' = Stored(Address(Fetched), row)
      BY <1>1, <2>2 DEF MemAfter
    <3> QED BY <1>2, <3>1 DEF Stored, ContentsTyped
  <2> QED BY <2>1, <2>2
<1> QED BY <1>1, <1>3 DEF ContentsTyped

-----------------------------------------------------------------------------
(* The theorems.                                                           *)

\* interpreter.cpp, execute(): one cycle per instruction, the stalls and two per
\* branch taken make up the cycle count, and no instruction stalls for more than
\* three, for any program, memory and budget.
THEOREM CyclesAreAccounted == MachineSpec => []CyclesAccounted
<1>1. MachineInv => CyclesAccounted
  BY DEF MachineInv
<1> QED BY <1>1, MachineInvariant, PTL

\* The counters of RunResult: every retired instruction is in one class, except the
\* one whose fault ended the run.
THEOREM ClassesPartition == MachineSpec => []ClassesAddUp
<1>1. MachineInv => ClassesAddUp
  BY DEF MachineInv
<1> QED BY <1>1, MachineInvariant, PTL

\* The store protection of checkAccess holds for every program, register contents
\* and memory, but for one kind of store: a step that changes a byte of the SRC region
\* executes a VST whose 64-bit end wraps to 0.
THEOREM SourceIsSafe == MachineSpec => SrcUntouched
<1>1. MachineInv /\ [Execute]_mvars =>
        [(\E a \in 0..(MemSize - 1) : mem'[a] # mem[a])
           => Fetchable /\ Fetched.op = Op.VST /\ EndWraps(Address(Fetched))]_mvars
  BY SourceStep
<1>2. MachineSpec => [][Execute]_mvars
  BY DEF MachineSpec
<1> QED BY <1>1, <1>2, MachineInvariant, PTL DEF SrcUntouched

\* Registers and memory keep their widths: every instruction leaves bytes in the
\* vector registers and in memory and words in the scalar ones, for vector registers
\* of at least sixteen lanes (kVecBytes is 32), which VSHUF takes for granted.
THEOREM MachineTypeOK == ASSUME VecBytes >= 16 PROVE MachineSpec => []TypeOK
<1>1. MachineInit => ContentsTyped
  BY MachineAssumption DEF MachineInit, Reset, NoVectors, ContentsTyped, Bytes
<1>2. MachineInv /\ ContentsTyped /\ [Execute]_mvars => ContentsTyped'
  <2> SUFFICES ASSUME MachineInv, ContentsTyped, [Execute]_mvars PROVE ContentsTyped'
    OBVIOUS
  <2>1. CASE Load
    BY <2>1, LoadContents
  <2>2. CASE Store
    BY <2>2, StoreContents
  <2>3. CASE Vector
    BY <2>3, VectorContents
  <2>4. CASE ~(Load \/ Store \/ Vector)
    <3>1. mem' = mem /\ vregs' = vregs
      BY <2>4 DEF Execute, Stop, Halt, Nop, Scalar, Branch, AccessFault, Illegal,
         mvars, registers
    <3> QED BY <3>1 DEF ContentsTyped
  <2> QED BY <2>1, <2>2, <2>3, <2>4
<1>3. MachineInv /\ ContentsTyped => TypeOK
  BY DEF MachineInv, Typed, ContentsTyped, TypeOK
<1> QED BY <1>1, <1>2, <1>3, MachineInvariant, PTL DEF MachineSpec

\* isa_spec.md of VSHUF, "vd[i] = vs1[ vs2[i] & 15 ]": so it is in every run, provided
\* the destination is not the table.  The interpreter writes it while it reads.
THEOREM ShuffleIsLookup ==
  ASSUME VecBytes >= 16, TypeOK, Vector, Fetched.op = Op.VSHUF,
         Fetched.rd % 8 # Fetched.rs1 % 8
  PROVE  \A i \in Lanes : vregs'[Fetched.rd % 8][i]
                            = vregs[Fetched.rs1 % 8][vregs[Fetched.rs2 % 8][i] % 16]
<1>1. Typed /\ ContentsTyped
  BY DEF TypeOK, Typed, ContentsTyped
<1>2. /\ Fetchable
      /\ vregs' = [vregs EXCEPT ![Fetched.rd % 8] = Shuffled(Fetched)]
  BY DEF Vector, VectorResult
<1>3. Fetched.rd \in Sregs /\ Fetched.rs1 \in Sregs /\ Fetched.rs2 \in Sregs
  BY <1>1, <1>2, FetchedType
<1>4. \A i \in Lanes : Shuffled(Fetched)[i]
                         = vregs[Fetched.rs1 % 8][vregs[Fetched.rs2 % 8][i] % 16]
  BY <1>1, <1>3, ShuffledLanes
<1> QED BY <1>1, <1>2, <1>3, <1>4, RegisterOf DEF ContentsTyped

-----------------------------------------------------------------------------
(* Instruction words: decode() is the inverse of encode().                 *)

\* The immediates of 32 bits, signed.
Immediates == {n \in Int : n \div 16^7 \in -8..7}

\* Dropping k digits and then one more drops k + 1.
LEMMA DigitsOf ==
  ASSUME NEW n \in Int
  PROVE  LET q(k) == n \div 16^k
         IN  /\ \A k \in 0..7 : q(k) \in Int
             /\ q(0) = n
             /\ \A k \in 0..6 : q(k) = 16 * q(k + 1) + Digit(n, k)
<1>1. 16^0 = 1 /\ 16^1 = 16 /\ 16^2 = 256 /\ 16^3 = 16 * 256
  BY SMT
<1>2. 16^4 = 256 * 256 /\ 16^5 = 16 * 256 * 256 /\ 16^6 = 256 * 256 * 256
      /\ 16^7 = 16 * 256 * 256 * 256
  BY SMT
<1> DEFINE q(k) == n \div 16^k
<1>3. q(0) = n
  BY <1>1, SMT
<1>4. /\ q(1) = q(0) \div 16 /\ q(2) = q(1) \div 16 /\ q(3) = q(2) \div 16
      /\ q(4) = q(3) \div 16 /\ q(5) = q(4) \div 16 /\ q(6) = q(5) \div 16
      /\ q(7) = q(6) \div 16
  BY <1>1, <1>2, SMT
<1>5. /\ q(0) \in Int /\ q(1) \in Int /\ q(2) \in Int /\ q(3) \in Int
      /\ q(4) \in Int /\ q(5) \in Int /\ q(6) \in Int /\ q(7) \in Int
  BY <1>1, <1>2, SMT
<1>6. \A m \in Int : m = 16 * (m \div 16) + (m % 16)
  <2>1. 16 \in Nat \ {0}
    BY SMT
  <2> QED BY <2>1, DivModInt, Zenon
<1> HIDE DEF q
<1>7. \A k \in 0..6 : q(k + 1) = q(k) \div 16 /\ q(k) \in Int
  <2>1. \A k \in 0..6 : k \in {0, 1, 2, 3, 4, 5, 6}
    BY SMT
  <2> QED BY <1>4, <1>5, <2>1, SMT
<1>8. \A k \in 0..7 : q(k) \in Int
  <2>1. \A k \in 0..7 : k \in {0, 1, 2, 3, 4, 5, 6, 7}
    BY SMT
  <2> QED BY <1>5, <2>1, SMT
<1>9. \A k \in 0..6 : Digit(n, k) = q(k) % 16
  BY DEF Digit, q
<1>10. \A k \in 0..6 : q(k) = 16 * q(k + 1) + Digit(n, k)
  <2> SUFFICES ASSUME NEW k \in 0..6 PROVE q(k) = 16 * q(k + 1) + Digit(n, k)
    OBVIOUS
  <2>1. q(k) \in Int /\ q(k + 1) = q(k) \div 16 /\ Digit(n, k) = q(k) % 16
    BY <1>7, <1>9, Zenon
  <2>2. q(k) = 16 * (q(k) \div 16) + (q(k) % 16)
    BY <1>6, <2>1, Zenon
  <2> QED BY <2>1, <2>2, Zenon
<1> QED BY <1>3, <1>8, <1>10, Zenon DEF q

\* The fields of an instruction word that emit() is given.
Encodable(in) ==
  /\ in.op \in 0..255
  /\ in.rd \in 0..15 /\ in.rs1 \in 0..15 /\ in.rs2 \in 0..15 /\ in.rs3 \in 0..15
  /\ in.imm \in Immediates

LEMMA EncodedDigits ==
  ASSUME NEW in, Encodable(in)
  PROVE  /\ encode(in) \in [1..16 -> 0..15]
         /\ encode(in)[1] = Digit(in.op, 1) /\ encode(in)[2] = Digit(in.op, 0)
         /\ encode(in)[3] = in.rd /\ encode(in)[4] = in.rs1
         /\ encode(in)[5] = in.rs2 /\ encode(in)[6] = in.rs3
         /\ \A i \in 7..14 : encode(in)[i] = Digit(in.imm, 14 - i)
<1> DEFINE w == encode(in)
           d(i) == Digit(in.imm, 8 - i)
<1>1. \A n \in Int, k \in 0..7 : Digit(n, k) \in 0..15
  <2>1. \A n \in Int, k \in 0..7 : n \div 16^k \in Int
    BY DigitsOf
  <2>2. \A m \in Int : m % 16 \in 0..15
    BY SMT
  <2> QED BY <2>1, <2>2, Zenon DEF Digit
<1>2. in.op \in Int /\ in.imm \in Int
  BY DEF Encodable, Immediates
<1>3. /\ Digit(in.op, 1) \in 0..15 /\ Digit(in.op, 0) \in 0..15
      /\ \A i \in 1..8 : d(i) \in 0..15
  BY <1>1, <1>2, SMT
<1>4. in.rd % 16 = in.rd /\ in.rs1 % 16 = in.rs1 /\ in.rs2 % 16 = in.rs2 /\ in.rs3 % 16 = in.rs3
  BY DEF Encodable
<1>5. w = <<Digit(in.op, 1), Digit(in.op, 0)>> \o <<in.rd, in.rs1, in.rs2, in.rs3>>
            \o [i \in 1..8 |-> d(i)] \o <<0, 0>>
  BY <1>4 DEF encode
<1> HIDE DEF w, d
<1>6. [i \in 1..8 |-> d(i)] = <<d(1), d(2), d(3), d(4), d(5), d(6), d(7), d(8)>>
  BY SMT
<1>7. w = <<Digit(in.op, 1), Digit(in.op, 0), in.rd, in.rs1, in.rs2, in.rs3,
            d(1), d(2), d(3), d(4), d(5), d(6), d(7), d(8), 0, 0>>
  BY <1>5, <1>6, SMT
<1>8. /\ w[1] = Digit(in.op, 1) /\ w[2] = Digit(in.op, 0)
      /\ w[3] = in.rd /\ w[4] = in.rs1 /\ w[5] = in.rs2 /\ w[6] = in.rs3
  BY <1>7, SMT
<1>9. \A i \in 7..14 : w[i] = Digit(in.imm, 14 - i)
  <2>1. /\ w[7] = d(1) /\ w[8] = d(2) /\ w[9] = d(3) /\ w[10] = d(4)
        /\ w[11] = d(5) /\ w[12] = d(6) /\ w[13] = d(7) /\ w[14] = d(8)
    BY <1>7, SMT
  <2>2. ASSUME NEW i \in 7..14 PROVE w[i] = d(i - 6) /\ 8 - (i - 6) = 14 - i
    <3>1. i \in {7, 8, 9, 10, 11, 12, 13, 14}
      BY SMT
    <3> QED BY <2>1, <3>1, SMT
  <2> QED BY <2>2, Zenon DEF d
<1>10. w \in [1..16 -> 0..15]
  <2>1. /\ d(1) \in 0..15 /\ d(2) \in 0..15 /\ d(3) \in 0..15 /\ d(4) \in 0..15
        /\ d(5) \in 0..15 /\ d(6) \in 0..15 /\ d(7) \in 0..15 /\ d(8) \in 0..15
    BY <1>3, SMT
  <2>2. 0 \in 0..15
    BY SMT
  <2> DEFINE S == 0..15
  <2>3. /\ in.rd \in S /\ in.rs1 \in S /\ in.rs2 \in S /\ in.rs3 \in S
        /\ Digit(in.op, 1) \in S /\ Digit(in.op, 0) \in S
    BY <1>3 DEF Encodable
  <2> HIDE DEF S
  <2> QED BY <1>7, <2>1, <2>2, <2>3, SMT DEF S
<1> QED BY <1>8, <1>9, <1>10 DEF w

\* decode() gives back every field encode() was given, the sign of the immediate
\* included.
THEOREM DecodeEncode ==
  ASSUME NEW in, Encodable(in)
  PROVE  LET out == decode(encode(in))
         IN  /\ out.op = in.op /\ out.imm = in.imm
             /\ out.rd = in.rd /\ out.rs1 = in.rs1 /\ out.rs2 = in.rs2 /\ out.rs3 = in.rs3
<1> DEFINE w == encode(in)
           n == in.imm
           q(k) == n \div 16^k
           imm == CHOOSE imm : imm = [i \in 7..14 |-> IF i = 7 THEN SignedDigit(w[7])
                                                      ELSE imm[i - 1] * 16 + w[i]]
<1>1. n \in Int /\ q(7) \in -8..7
  BY DEF Encodable, Immediates
<1>2. /\ \A k \in 0..7 : q(k) \in Int
      /\ q(0) = n
      /\ \A k \in 0..6 : q(k) = 16 * q(k + 1) + Digit(n, k)
  BY <1>1, DigitsOf, Zenon
<1>3. /\ w[1] = Digit(in.op, 1) /\ w[2] = Digit(in.op, 0)
      /\ w[3] = in.rd /\ w[4] = in.rs1 /\ w[5] = in.rs2 /\ w[6] = in.rs3
      /\ \A i \in 7..14 : w[i] = Digit(n, 14 - i)
  BY EncodedDigits, Zenon
<1>4. Digit(n, 7) = q(7) % 16
  BY DEF Digit
<1>5. decode(w).imm = imm[14]
  BY DEF decode
<1>6. /\ decode(w).op = w[1] * 16 + w[2] /\ decode(w).rd = w[3] /\ decode(w).rs1 = w[4]
      /\ decode(w).rs2 = w[5] /\ decode(w).rs3 = w[6]
  BY DEF decode
<1> HIDE DEF q, w, n
<1>7. SignedDigit(w[7]) = q(7)
  <2>1. w[7] = q(7) % 16
    BY <1>3, <1>4, SMT
  <2> QED BY <1>1, <2>1, SMT DEF SignedDigit
<1> DEFINE g == [i \in 7..14 |-> q(14 - i)]
<1>8. \A i \in 8..14 : q(14 - i) = q(14 - (i - 1)) * 16 + w[i]
  <2> SUFFICES ASSUME NEW i \in 8..14 PROVE q(14 - i) = q(14 - (i - 1)) * 16 + w[i]
    OBVIOUS
  <2>1. 14 - i \in 0..6 /\ 14 - (i - 1) = (14 - i) + 1 /\ (14 - i) + 1 \in 0..7 /\ i \in 7..14
    BY SMT
  <2>2. q(14 - i) = 16 * q((14 - i) + 1) + Digit(n, 14 - i) /\ w[i] = Digit(n, 14 - i)
    BY <1>2, <1>3, <2>1, Zenon
  <2>3. q((14 - i) + 1) \in Int
    BY <1>2, <2>1, Zenon
  <2> DEFINE x == q((14 - i) + 1)
  <2>4. 16 * x = x * 16
    BY <2>3, SMT
  <2> QED BY <2>1, <2>2, <2>4, Zenon
<1>9. g = [i \in 7..14 |-> IF i = 7 THEN SignedDigit(w[7]) ELSE g[i - 1] * 16 + w[i]]
  <2>1. ASSUME NEW i \in 7..14
        PROVE  g[i] = IF i = 7 THEN SignedDigit(w[7]) ELSE g[i - 1] * 16 + w[i]
    <3>1. CASE i = 7
      <4>1. 14 - 7 = 7 /\ 7 \in 7..14
        BY SMT
      <4> QED BY <1>7, <3>1, <4>1, Zenon
    <3>2. CASE i # 7
      <4>1. i \in 8..14 /\ i - 1 \in 7..14
        BY <3>2, SMT
      <4> QED BY <1>8, <3>2, <4>1, Zenon
    <3> QED BY <3>1, <3>2
  <2> QED BY <2>1, Zenon
<1> HIDE DEF g
<1>10. imm = [i \in 7..14 |-> IF i = 7 THEN SignedDigit(w[7]) ELSE imm[i - 1] * 16 + w[i]]
  BY <1>9, Zenon
<1> HIDE DEF imm
<1>11. imm[14] = q(14 - 14)
  <2>1. imm[7] = q(14 - 7)
    BY <1>7, <1>10, SMT
  <2>2. \A i \in 8..14 : imm[i - 1] = q(14 - (i - 1)) => imm[i] = q(14 - i)
    BY <1>8, <1>10, SMT
  <2>3. imm[8] = q(14 - 8)
    BY <2>1, <2>2, SMT
  <2>4. imm[9] = q(14 - 9)
    BY <2>2, <2>3, SMT
  <2>5. imm[10] = q(14 - 10)
    BY <2>2, <2>4, SMT
  <2>6. imm[11] = q(14 - 11)
    BY <2>2, <2>5, SMT
  <2>7. imm[12] = q(14 - 12)
    BY <2>2, <2>6, SMT
  <2>8. imm[13] = q(14 - 13)
    BY <2>2, <2>7, SMT
  <2> QED BY <2>2, <2>8, SMT
<1>12. q(14 - 14) = q(0)
  BY SMT
<1>13. w[1] * 16 + w[2] = in.op
  <2>1. in.op \in 0..255
    BY DEF Encodable
  <2>2. 16^0 = 1 /\ 16^1 = 16
    BY SMT
  <2>3. Digit(in.op, 1) = (in.op \div 16) % 16 /\ Digit(in.op, 0) = (in.op \div 1) % 16
    BY <2>2 DEF Digit
  <2> QED BY <1>3, <2>1, <2>3, SMT
<1> QED BY <1>2, <1>3, <1>5, <1>6, <1>11, <1>12, <1>13, Zenon DEF w, n

\* The word w decodes to these fields.
Codes(w, op, rd, rs1, rs2, rs3, imm) ==
  LET in == decode(w)
  IN  /\ in.op = op /\ in.rd = rd /\ in.rs1 = rs1 /\ in.rs2 = rs2 /\ in.rs3 = rs3
      /\ in.imm = imm

Word16 == [1..16 -> 0..15]
Opcode == 0..255
Field  == 0..15

LEMMA EmitCodes ==
  ASSUME NEW op \in Opcode, NEW rd \in Field, NEW rs1 \in Field, NEW rs2 \in Field,
         NEW rs3 \in Field, NEW imm \in Immediates
  PROVE  /\ Emit(op, rd, rs1, rs2, rs3, imm) \in Word16
         /\ Codes(Emit(op, rd, rs1, rs2, rs3, imm), op, rd, rs1, rs2, rs3, imm)
<1> DEFINE in == [op |-> op, rd |-> rd, rs1 |-> rs1, rs2 |-> rs2, rs3 |-> rs3, imm |-> imm]
<1>1. Encodable(in)
  BY DEF Encodable, Opcode, Field
<1>2. Emit(op, rd, rs1, rs2, rs3, imm) = encode(in)
  BY DEF Emit
<1>3. /\ in.op = op /\ in.rd = rd /\ in.rs1 = rs1 /\ in.rs2 = rs2 /\ in.rs3 = rs3
      /\ in.imm = imm
  OBVIOUS
<1> HIDE DEF in
<1>4. encode(in) \in Word16
  BY <1>1, EncodedDigits, Zenon DEF Word16
<1>5. LET out == decode(encode(in))
      IN  /\ out.op = in.op /\ out.imm = in.imm
          /\ out.rd = in.rd /\ out.rs1 = in.rs1 /\ out.rs2 = in.rs2 /\ out.rs3 = in.rs3
  BY <1>1, DecodeEncode, Zenon
<1>6. Codes(encode(in), op, rd, rs1, rs2, rs3, imm)
  BY <1>3, <1>5, Zenon DEF Codes
<1> QED BY <1>2, <1>4, <1>6, Zenon

-----------------------------------------------------------------------------
(* The sizes of the kernels.                                               *)

\* How many tiles there are.
N == tilesX * tilesY

LEMMA Sizes ==
  /\ Tile \in Nat /\ Tile >= 5 /\ VecBytes = Tile /\ Lanes = Edge
  /\ tilesX \in Nat \ {0} /\ tilesY \in Nat \ {0} /\ N \in Nat \ {0} /\ Tiles = 0..(N - 1)
  /\ kTileBytes = Tile * Tile /\ kTileBytes \in Nat \ {0}
  /\ MemSize \in Nat \ {0} /\ MemSize = Size /\ MemSize = kTileBytes * N
  /\ GridBytes = MemSize
<1>1. /\ Tile \in Nat \ {0} /\ tilesX \in Nat \ {0} /\ tilesY \in Nat \ {0}
      /\ kTileBytes \in Nat \ {0} /\ kTileBytes = Tile * Tile
      /\ tilesX * tilesY \in Nat \ {0} /\ Size = kTileBytes * (tilesX * tilesY)
  BY Shape
<1>2. VecBytes = Tile /\ MemSize = W * H /\ Tile > 4
  BY KernelAssumption DEF Wall
<1>3. MemSize = Size
  BY <1>2 DEF Size
<1>4. GridBytes = MemSize
  <2>1. GridBytes = (tilesX * tilesY) * kTileBytes
    BY DEF GridBytes
  <2> QED BY <1>1, <1>3, <2>1
<1>5. MemSize \in Nat \ {0}
  BY MachineAssumption
<1> QED BY <1>1, <1>2, <1>3, <1>4, <1>5 DEF N, Tiles, Lanes, Edge

\* Every number the compiler puts into an instruction fits 32 bits.
LEMMA ImmediatesFit ==
  /\ \A n \in 0..MemSize : n \in Immediates /\ -n \in Immediates
  /\ \A n \in 0..(27 * Tile + 32) : n \in Immediates
  /\ TileRowStride \in 0..MemSize /\ kTileBytes \in 0..MemSize
  /\ \A n \in 0..255 : n \in Immediates
<1> DEFINE M == 16^7
<1>1. M = 268435456
  BY SMT
<1>2. MemSize \in Nat /\ MemSize \div M < 8
  BY KernelAssumption, Sizes
<1> HIDE DEF M
<1>3. MemSize < 2147483648
  BY <1>1, <1>2, SMT
<1>4. \A n \in Int : n < 2147483648 /\ n > -2147483648 => n \div M \in -8..7
  BY <1>1, SMT
<1>5. \A n \in Int : n < 2147483648 /\ n > -2147483648 => n \in Immediates
  BY <1>4, SMT DEF Immediates, M
<1>6. \A n \in 0..MemSize : n \in Immediates /\ -n \in Immediates
  BY <1>2, <1>3, <1>5, SMT
<1>7. kTileBytes \in 0..MemSize
  <2>1. kTileBytes * (N - 1) \in Nat
    BY Sizes
  <2>2. kTileBytes * N = kTileBytes * (N - 1) + kTileBytes
    BY Sizes
  <2> QED BY <2>1, <2>2, Sizes
<1>8. TileRowStride \in 0..MemSize
  <2>1. tilesX * (tilesY - 1) \in Nat /\ N = tilesX * (tilesY - 1) + tilesX
    BY Sizes DEF N
  <2>2. PICK d \in Nat : N = d + tilesX
    BY <2>1
  <2>3. kTileBytes * N = kTileBytes * d + kTileBytes * tilesX /\ kTileBytes * d \in Nat
    BY <2>2, Sizes
  <2>4. kTileBytes * tilesX = tilesX * kTileBytes /\ tilesX * kTileBytes \in Nat
    BY Sizes
  <2> QED BY <2>3, <2>4, Sizes DEF TileRowStride
<1>9. Tile < 65536
  <2>1. kTileBytes < 2147483648
    BY <1>3, <1>7, Sizes, SMT
  <2> SUFFICES ASSUME Tile >= 65536 PROVE FALSE
    BY Sizes
  <2>2. Tile * Tile >= 65536 * 65536
    BY Sizes, SMT
  <2> QED BY <2>1, <2>2, Sizes, SMT
<1>10. \A n \in 0..(27 * Tile + 32) : n \in Immediates
  BY <1>5, <1>9, Sizes, SMT
<1>11. \A n \in 0..255 : n \in Immediates
  BY <1>5, SMT
<1> QED BY <1>6, <1>7, <1>8, <1>10, <1>11, Zenon

-----------------------------------------------------------------------------
(* The text of a row.                                                      *)

LEMMA OpCodes ==
  /\ Op.HALT = 0 /\ Op.LI = 16 /\ Op.ADD = 17 /\ Op.ADDI = 18 /\ Op.MUL = 22
  /\ Op.CMPLT = 32 /\ Op.BNZ = 34 /\ Op.VLD = 48 /\ Op.VST = 49 /\ Op.VSHUF = 50
  /\ Op.VCMPGT = 51 /\ Op.VCMPEQ = 52 /\ Op.VANDN = 54 /\ Op.VBLEND = 57
  /\ Op.VBCASTB = 58 /\ Op.VDENS = 60
BY DEF Op

LEMMA OpcodesFit ==
  /\ Op.HALT \in Opcode /\ Op.LI \in Opcode /\ Op.ADD \in Opcode /\ Op.ADDI \in Opcode
  /\ Op.MUL \in Opcode /\ Op.CMPLT \in Opcode /\ Op.BNZ \in Opcode /\ Op.VLD \in Opcode
  /\ Op.VST \in Opcode /\ Op.VSHUF \in Opcode /\ Op.VCMPGT \in Opcode
  /\ Op.VCMPEQ \in Opcode /\ Op.VANDN \in Opcode /\ Op.VBLEND \in Opcode
  /\ Op.VBCASTB \in Opcode /\ Op.VDENS \in Opcode
BY OpCodes DEF Opcode

LEMMA Registers ==
  /\ SR.T = 0 /\ SR.END = 1 /\ SR.TSTR = 2 /\ SR.DISP = 3 /\ SR.SRC = 4 /\ SR.ABOVE = 5
  /\ SR.BELOW = 6 /\ SR.DST = 7 /\ SR.COND = 8
  /\ VR.A = 0 /\ VR.B = 1 /\ VR.T0 = 2 /\ VR.T1 = 3 /\ VR.MASK = 4 /\ VR.WALL_CMP = 5
  /\ VR.LUT = 6 /\ VR.WALL = 7
BY DEF SR, VR

LEMMA RegistersFit ==
  /\ SR.T \in Field /\ SR.END \in Field /\ SR.TSTR \in Field /\ SR.DISP \in Field
  /\ SR.SRC \in Field /\ SR.ABOVE \in Field /\ SR.BELOW \in Field /\ SR.DST \in Field
  /\ SR.COND \in Field
  /\ VR.A \in Field /\ VR.B \in Field /\ VR.T0 \in Field /\ VR.T1 \in Field
  /\ VR.MASK \in Field /\ VR.WALL_CMP \in Field /\ VR.LUT \in Field /\ VR.WALL \in Field
  /\ 0 \in Field /\ 0 \in Immediates
BY Registers, ImmediatesFit DEF Field

\* A row with no partner is copied: there is nothing below the last row of a tile, or
\* nothing above the first.
IsCopied(parity, ly, hasAbove, hasBelow) ==
  IF ly % 2 = parity THEN ly = Tile - 1 /\ ~hasBelow ELSE ly = 0 /\ ~hasAbove

\* The operands of the two rows of a pair: the upper one in A, the lower one in B.
BaseA(parity, ly) == IF ly % 2 # parity /\ ly = 0 THEN SR.ABOVE ELSE SR.SRC
BaseB(parity, ly) == IF ly % 2 = parity /\ ly = Tile - 1 THEN SR.BELOW ELSE SR.SRC

OffA(parity, ly) ==
  IF ly % 2 = parity THEN ly * Tile
  ELSE IF ly = 0 THEN (Tile - 1) * Tile ELSE ly * Tile - Tile

OffB(parity, ly) ==
  IF ly % 2 # parity THEN ly * Tile
  ELSE IF ly = Tile - 1 THEN 0 ELSE ly * Tile + Tile

LEMMA Offsets ==
  ASSUME NEW parity, NEW ly \in Edge
  PROVE  /\ ly * Tile \in 0..(kTileBytes - Tile)
         /\ OffA(parity, ly) \in 0..(kTileBytes - Tile)
         /\ OffB(parity, ly) \in 0..(kTileBytes - Tile)
<1>1. Tile \in Nat /\ Tile >= 5 /\ kTileBytes = Tile * Tile /\ ly \in 0..(Tile - 1)
  BY Sizes DEF Edge
<1>2. \A n \in 0..(Tile - 1) : n * Tile \in 0..(kTileBytes - Tile)
  <2> SUFFICES ASSUME NEW n \in 0..(Tile - 1) PROVE n * Tile \in 0..(kTileBytes - Tile)
    OBVIOUS
  <2>1. n \in Nat /\ (Tile - 1) - n \in Nat
    BY <1>1
  <2>2. n * Tile \in Nat /\ ((Tile - 1) - n) * Tile \in Nat
    BY <1>1, <2>1
  <2>3. ((Tile - 1) - n) * Tile = kTileBytes - Tile - n * Tile
    BY <1>1, <2>1
  <2>4. kTileBytes \in Nat
    BY <1>1
  <2> QED BY <1>1, <2>2, <2>3, <2>4
<1>3. (Tile - 1) \in 0..(Tile - 1) /\ 0 \in 0..(Tile - 1) /\ 0 * Tile = 0
  BY <1>1
<1>4. ly # 0 => ly - 1 \in 0..(Tile - 1) /\ (ly - 1) * Tile = ly * Tile - Tile
  BY <1>1
<1>5. ly # Tile - 1 => ly + 1 \in 0..(Tile - 1) /\ (ly + 1) * Tile = ly * Tile + Tile
  BY <1>1
<1>6. OffA(parity, ly) \in 0..(kTileBytes - Tile)
  BY <1>1, <1>2, <1>3, <1>4 DEF OffA
<1>7. OffB(parity, ly) \in 0..(kTileBytes - Tile)
  BY <1>1, <1>2, <1>3, <1>5 DEF OffB
<1> QED BY <1>1, <1>2, <1>6, <1>7

LEMMA OffsetFits == \A n \in 0..(kTileBytes - Tile) : n \in Immediates
<1>1. kTileBytes \in 0..MemSize /\ MemSize \in Nat /\ Tile \in Nat
  <2>1. kTileBytes \in 0..MemSize
    BY ImmediatesFit, Zenon
  <2> QED BY <2>1, Sizes
<1>2. \A n \in 0..(kTileBytes - Tile) : n \in 0..MemSize
  BY <1>1
<1> QED BY <1>2, ImmediatesFit, Zenon

LEMMA CopiedRow ==
  ASSUME NEW parity, NEW ly \in Edge, NEW hasAbove, NEW hasBelow,
         IsCopied(parity, ly, hasAbove, hasBelow)
  PROVE  LET row == emitRow(parity, ly, hasAbove, hasBelow)
         IN  /\ row \in Seq(Word16) /\ Len(row) = 2
             /\ Codes(row[1], Op.VLD, VR.A, SR.SRC, 0, 0, ly * Tile)
             /\ Codes(row[2], Op.VST, VR.A, SR.DST, 0, 0, ly * Tile)
<1> DEFINE off == ly * Tile
           w1  == Emit(Op.VLD, VR.A, SR.SRC, 0, 0, off)
           w2  == Emit(Op.VST, VR.A, SR.DST, 0, 0, off)
<1>1. emitRow(parity, ly, hasAbove, hasBelow) = << w1, w2 >>
  BY DEF IsCopied, emitRow, UpperRow, LowerRow, emitCopyRow, InsImm
<1>2. off \in Immediates
  <2>1. off \in 0..(kTileBytes - Tile)
    BY Offsets, Zenon
  <2> QED BY <2>1, OffsetFits, Zenon
<1> HIDE DEF off
<1>3. /\ w1 \in Word16 /\ Codes(w1, Op.VLD, VR.A, SR.SRC, 0, 0, off)
      /\ w2 \in Word16 /\ Codes(w2, Op.VST, VR.A, SR.DST, 0, 0, off)
  BY <1>2, EmitCodes, OpcodesFit, RegistersFit, Zenon
<1> HIDE DEF w1, w2
<1>4. << w1, w2 >> \in Seq(Word16) /\ Len(<< w1, w2 >>) = 2
  BY <1>3
<1> QED BY <1>1, <1>3, <1>4 DEF off

LEMMA PairedRow ==
  ASSUME NEW parity, NEW ly \in Edge, NEW hasAbove, NEW hasBelow,
         ~IsCopied(parity, ly, hasAbove, hasBelow)
  PROVE  LET row == emitRow(parity, ly, hasAbove, hasBelow)
             up  == ly % 2 = parity
         IN  /\ row \in Seq(Word16) /\ Len(row) = 9
             /\ Codes(row[1], Op.VLD, VR.A, BaseA(parity, ly), 0, 0, OffA(parity, ly))
             /\ Codes(row[2], Op.VLD, VR.B, BaseB(parity, ly), 0, 0, OffB(parity, ly))
             /\ Codes(row[3], Op.VSHUF, VR.T0, VR.LUT, VR.A, 0, 0)
             /\ Codes(row[4], Op.VSHUF, VR.T1, VR.LUT, VR.B, 0, 0)
             /\ Codes(row[5], Op.VCMPGT, VR.MASK, VR.T0, VR.T1, 0, 0)
             /\ Codes(row[6], Op.VCMPEQ, VR.WALL_CMP, VR.A, VR.WALL, 0, 0)
             /\ Codes(row[7], Op.VANDN, VR.MASK, VR.WALL_CMP, VR.MASK, 0, 0)
             /\ up => Codes(row[8], Op.VBLEND, VR.T0, VR.A, VR.B, VR.MASK, 0)
             /\ ~up => Codes(row[8], Op.VBLEND, VR.T0, VR.B, VR.A, VR.MASK, 0)
             /\ Codes(row[9], Op.VST, VR.T0, SR.DST, 0, 0, ly * Tile)
<1> DEFINE off == ly * Tile
           up  == ly % 2 = parity
           bA  == BaseA(parity, ly)
           oA  == OffA(parity, ly)
           bB  == BaseB(parity, ly)
           oB  == OffB(parity, ly)
           w1  == Emit(Op.VLD, VR.A, bA, 0, 0, oA)
           w2  == Emit(Op.VLD, VR.B, bB, 0, 0, oB)
           w3  == Emit(Op.VSHUF, VR.T0, VR.LUT, VR.A, 0, 0)
           w4  == Emit(Op.VSHUF, VR.T1, VR.LUT, VR.B, 0, 0)
           w5  == Emit(Op.VCMPGT, VR.MASK, VR.T0, VR.T1, 0, 0)
           w6  == Emit(Op.VCMPEQ, VR.WALL_CMP, VR.A, VR.WALL, 0, 0)
           w7  == Emit(Op.VANDN, VR.MASK, VR.WALL_CMP, VR.MASK, 0, 0)
           w8  == IF up THEN Emit(Op.VBLEND, VR.T0, VR.A, VR.B, VR.MASK, 0)
                        ELSE Emit(Op.VBLEND, VR.T0, VR.B, VR.A, VR.MASK, 0)
           w9  == Emit(Op.VST, VR.T0, SR.DST, 0, 0, off)
           row == << w1, w2, w3, w4, w5, w6, w7, w8, w9 >>
<1>1. emitRow(parity, ly, hasAbove, hasBelow) = emitPairRow(bA, oA, bB, oB, off, up)
  BY DEF IsCopied, emitRow, UpperRow, LowerRow, BaseA, BaseB, OffA, OffB
<1>2. emitPairRow(bA, oA, bB, oB, off, up) = row
  <2> HIDE DEF bA, oA, bB, oB, off, up
  <2> QED BY DEF emitPairRow, Ins, InsImm
<1>3. /\ off \in Immediates /\ oA \in Immediates /\ oB \in Immediates
      /\ bA \in Field /\ bB \in Field
  <2>1. /\ off \in 0..(kTileBytes - Tile) /\ oA \in 0..(kTileBytes - Tile)
        /\ oB \in 0..(kTileBytes - Tile)
    BY Offsets, Zenon
  <2>2. bA \in Field /\ bB \in Field
    BY RegistersFit DEF BaseA, BaseB
  <2> QED BY <2>1, <2>2, OffsetFits, Zenon
<1> HIDE DEF off, bA, oA, bB, oB, up
<1>4. /\ w1 \in Word16 /\ Codes(w1, Op.VLD, VR.A, bA, 0, 0, oA)
      /\ w2 \in Word16 /\ Codes(w2, Op.VLD, VR.B, bB, 0, 0, oB)
      /\ w9 \in Word16 /\ Codes(w9, Op.VST, VR.T0, SR.DST, 0, 0, off)
  BY <1>3, EmitCodes, OpcodesFit, RegistersFit, Zenon
<1>5. /\ w3 \in Word16 /\ Codes(w3, Op.VSHUF, VR.T0, VR.LUT, VR.A, 0, 0)
      /\ w4 \in Word16 /\ Codes(w4, Op.VSHUF, VR.T1, VR.LUT, VR.B, 0, 0)
      /\ w5 \in Word16 /\ Codes(w5, Op.VCMPGT, VR.MASK, VR.T0, VR.T1, 0, 0)
  BY <1>3, EmitCodes, OpcodesFit, RegistersFit, Zenon
<1>6. /\ w6 \in Word16 /\ Codes(w6, Op.VCMPEQ, VR.WALL_CMP, VR.A, VR.WALL, 0, 0)
      /\ w7 \in Word16 /\ Codes(w7, Op.VANDN, VR.MASK, VR.WALL_CMP, VR.MASK, 0, 0)
  BY <1>3, EmitCodes, OpcodesFit, RegistersFit, Zenon
<1>7. /\ w8 \in Word16
      /\ up => Codes(w8, Op.VBLEND, VR.T0, VR.A, VR.B, VR.MASK, 0)
      /\ ~up => Codes(w8, Op.VBLEND, VR.T0, VR.B, VR.A, VR.MASK, 0)
  BY <1>3, EmitCodes, OpcodesFit, RegistersFit, Zenon
<1> HIDE DEF w1, w2, w3, w4, w5, w6, w7, w8, w9
<1>8. row \in Seq(Word16) /\ Len(row) = 9
  BY <1>4, <1>5, <1>6, <1>7
<1>9. /\ row[1] = w1 /\ row[2] = w2 /\ row[3] = w3 /\ row[4] = w4 /\ row[5] = w5
      /\ row[6] = w6 /\ row[7] = w7 /\ row[8] = w8 /\ row[9] = w9
  OBVIOUS
<1> HIDE DEF row
<1> QED BY <1>1, <1>2, <1>4, <1>5, <1>6, <1>7, <1>8, <1>9 DEF off, bA, oA, bB, oB, up

-----------------------------------------------------------------------------
(* The text of a kernel.                                                   *)

LEMMA ConcatAt ==
  ASSUME NEW S, NEW s \in Seq(S), NEW t \in Seq(S)
  PROVE  /\ s \o t \in Seq(S) /\ Len(s \o t) = Len(s) + Len(t)
         /\ Len(s) \in Nat /\ Len(t) \in Nat
         /\ \A k \in 1..Len(s) : (s \o t)[k] = s[k]
         /\ \A k \in 1..Len(t) : (s \o t)[Len(s) + k] = t[k]
OBVIOUS

\* a[k] is the text after k parts, each of them put at its end.
Grows(S, n, a, part) ==
  /\ n \in Nat /\ a[0] \in Seq(S)
  /\ \A k \in 1..n : part[k] \in Seq(S) /\ a[k] = a[k - 1] \o part[k]

\* Each text is a prefix of the later ones.
KeepsPrefixes(S, n, a, part) ==
  /\ \A k \in 0..n : a[k] \in Seq(S) /\ Len(a[k]) \in Nat
  /\ \A k \in 1..n : Len(a[k]) = Len(a[k - 1]) + Len(part[k])
  /\ \A j, k \in 0..n : j <= k =>
       /\ Len(a[j]) <= Len(a[k])
       /\ \A m \in 1..Len(a[j]) : a[k][m] = a[j][m]

LEMMA Prefixes ==
  ASSUME NEW S, NEW n, NEW a, NEW part, Grows(S, n, a, part)
  PROVE  KeepsPrefixes(S, n, a, part)
<1> USE DEF Grows
<1>1. \A k \in 0..n : a[k] \in Seq(S)
  <2> DEFINE T == {k \in Nat : k <= n => a[k] \in Seq(S)}
  <2>1. 0 \in T
    OBVIOUS
  <2>2. ASSUME NEW k \in T PROVE k + 1 \in T
    <3>1. k \in Nat /\ (k <= n => a[k] \in Seq(S))
      OBVIOUS
    <3>2. CASE k + 1 <= n
      <4>1. k + 1 \in 1..n /\ (k + 1) - 1 = k /\ k <= n
        BY <3>1, <3>2
      <4>2. a[k + 1] = a[k] \o part[k + 1] /\ part[k + 1] \in Seq(S) /\ a[k] \in Seq(S)
        BY <3>1, <4>1
      <4>3. a[k + 1] \in Seq(S)
        BY <4>2, ConcatAt
      <4> QED BY <3>1, <4>3
    <3> QED BY <3>1, <3>2
  <2> HIDE DEF T
  <2>3. T \in SUBSET Nat
    BY DEF T
  <2>4. T = Nat
    BY <2>1, <2>2, <2>3, SetInduction
  <2> QED BY <2>4 DEF T
<1>2. ASSUME NEW k \in 1..n
      PROVE  /\ Len(a[k]) = Len(a[k - 1]) + Len(part[k])
             /\ Len(a[k - 1]) \in Nat /\ Len(part[k]) \in Nat
             /\ \A m \in 1..Len(a[k - 1]) : a[k][m] = a[k - 1][m]
  <2>1. k - 1 \in 0..n
    OBVIOUS
  <2>2. a[k] = a[k - 1] \o part[k] /\ part[k] \in Seq(S)
    BY Zenon
  <2>3. a[k - 1] \in Seq(S)
    BY <1>1, <2>1, Zenon
  <2> DEFINE s == a[k - 1]
             t == part[k]
  <2>4. s \in Seq(S) /\ t \in Seq(S) /\ a[k] = s \o t
    BY <2>2, <2>3, Zenon
  <2> HIDE DEF s, t
  <2>5. /\ Len(s \o t) = Len(s) + Len(t) /\ Len(s) \in Nat /\ Len(t) \in Nat
        /\ \A m \in 1..Len(s) : (s \o t)[m] = s[m]
    BY <2>4, ConcatAt, Zenon
  <2> QED BY <2>4, <2>5, Zenon DEF s, t
<1>3. \A k \in 0..n : Len(a[k]) \in Nat
  BY <1>1
<1>4. ASSUME NEW j \in 0..n, NEW k \in 0..n, j <= k
      PROVE  Len(a[j]) <= Len(a[k]) /\ \A m \in 1..Len(a[j]) : a[k][m] = a[j][m]
  <2> DEFINE Good(i) == Len(a[j]) <= Len(a[i]) /\ \A m \in 1..Len(a[j]) : a[i][m] = a[j][m]
             T == {i \in Nat : j <= i /\ i <= n => Good(i)}
  <2> HIDE DEF Good
  <2>1. Good(j)
    BY <1>3 DEF Good
  <2>2. 0 \in T
    <3>1. j <= 0 => j = 0
      OBVIOUS
    <3> QED BY <2>1, <3>1
  <2>3. ASSUME NEW i \in T PROVE i + 1 \in T
    <3>1. i \in Nat /\ (j <= i /\ i <= n => Good(i))
      OBVIOUS
    <3>2. CASE j <= i /\ i + 1 <= n
      <4>1. i + 1 \in 1..n /\ (i + 1) - 1 = i /\ i \in 0..n /\ i + 1 \in 0..n /\ Good(i)
        BY <3>1, <3>2
      <4>2. /\ Len(a[i + 1]) = Len(a[i]) + Len(part[i + 1])
            /\ Len(a[i]) \in Nat /\ Len(part[i + 1]) \in Nat
            /\ \A m \in 1..Len(a[i]) : a[i + 1][m] = a[i][m]
        BY <1>2, <4>1
      <4>3. Len(a[j]) \in Nat
        BY <1>3
      <4> DEFINE p == Len(a[j])
                 q == Len(a[i])
                 r == Len(a[i + 1])
                 d == Len(part[i + 1])
      <4>4. p \in Nat /\ q \in Nat /\ p <= q /\ r \in Nat /\ q <= r
        <5>1. p \in Nat /\ q \in Nat /\ p <= q /\ d \in Nat /\ r = q + d
          BY <4>1, <4>2, <4>3, Zenon DEF Good
        <5> HIDE DEF p, q, r, d
        <5> QED BY <5>1
      <4>5. p <= r /\ 1..p \subseteq 1..q
        <5> HIDE DEF p, q, r
        <5> QED BY <4>4
      <4>6. \A m \in 1..p : a[i + 1][m] = a[i][m] /\ a[i][m] = a[j][m]
        BY <4>1, <4>2, <4>5, Zenon DEF Good
      <4>7. Good(i + 1)
        BY <4>5, <4>6, Zenon DEF Good
      <4> QED BY <3>1, <4>7
    <3>3. CASE j = i + 1
      BY <2>1, <3>1, <3>3
    <3>4. CASE ~(j <= i /\ i + 1 <= n) /\ j # i + 1
      BY <3>1, <3>4
    <3> QED BY <3>2, <3>3, <3>4
  <2> HIDE DEF T
  <2>4. T \in SUBSET Nat
    BY DEF T
  <2>5. T = Nat
    BY <2>2, <2>3, <2>4, SetInduction
  <2>6. k \in T /\ k <= n
    BY <2>5
  <2>7. Good(k)
    BY <1>4, <2>6 DEF T
  <2> QED BY <2>7 DEF Good
<1> QED BY <1>1, <1>2, <1>3, <1>4 DEF KeepsPrefixes

\* What emitTileBody has emitted after n turns of its loop.
IsBody(rows, parity, hasAbove, hasBelow) ==
  rows = [n \in 0..Tile |->
            IF n = 0 THEN << >>
            ELSE rows[n - 1] \o emitRow(parity, n - 1, hasAbove, hasBelow)]

BodyRows(parity, hasAbove, hasBelow) == CHOOSE rows : IsBody(rows, parity, hasAbove, hasBelow)

RowOf(parity, g, ly) == emitRow(parity, ly, g.hasAbove, g.hasBelow)

LEMMA RowType ==
  ASSUME NEW parity, NEW ly \in Edge, NEW hasAbove, NEW hasBelow
  PROVE  LET row == emitRow(parity, ly, hasAbove, hasBelow)
         IN  row \in Seq(Word16) /\ Len(row) \in {2, 9}
BY CopiedRow, PairedRow

LEMMA BodyExists ==
  ASSUME NEW parity, NEW hasAbove, NEW hasBelow
  PROVE  IsBody(BodyRows(parity, hasAbove, hasBelow), parity, hasAbove, hasBelow)
<1> DEFINE S == Seq(Word16)
           row(n) == IF n \in Edge THEN emitRow(parity, n, hasAbove, hasBelow) ELSE << >>
           step == [p \in Nat \X S |-> p[2] \o row(p[1])]
<1>1. \A n \in Nat : row(n) \in S
  BY RowType
<1> HIDE DEF row
<1>2. step \in [Nat \X S -> S]
  BY <1>1
<1>3. PICK f \in [Nat -> S] : Iterates(f, << >>, step)
  <2>1. << >> \in S
    OBVIOUS
  <2> HIDE DEF step, S
  <2> QED BY <1>2, <2>1, NatRecursion, Zenon
<1>4. f[0] = << >> /\ \A n \in Nat : f[n + 1] = f[n] \o row(n)
  BY <1>3 DEF Iterates
<1> DEFINE g == [n \in 0..Tile |-> f[n]]
<1>5. IsBody(g, parity, hasAbove, hasBelow)
  <2>1. ASSUME NEW n \in 0..Tile
        PROVE  g[n] = IF n = 0 THEN << >>
                      ELSE g[n - 1] \o emitRow(parity, n - 1, hasAbove, hasBelow)
    <3>1. CASE n = 0
      BY <1>4, <3>1
    <3>2. CASE n # 0
      <4>1. n - 1 \in Nat /\ (n - 1) + 1 = n /\ n - 1 \in 0..Tile /\ n - 1 \in Edge
        BY <3>2, Sizes DEF Edge
      <4>2. row(n - 1) = emitRow(parity, n - 1, hasAbove, hasBelow)
        BY <4>1 DEF row
      <4>3. f[n] = f[n - 1] \o row(n - 1)
        BY <1>4, <4>1
      <4> QED BY <3>2, <4>1, <4>2, <4>3
    <3> QED BY <3>1, <3>2
  <2> QED BY <2>1 DEF IsBody
<1> HIDE DEF g
<1> QED BY <1>5 DEF BodyRows

LEMMA BodyText ==
  ASSUME NEW parity, NEW hasAbove, NEW hasBelow
  PROVE  LET rows   == BodyRows(parity, hasAbove, hasBelow)
             row(n) == emitRow(parity, n, hasAbove, hasBelow)
         IN  /\ emitTileBody(parity, hasAbove, hasBelow) = rows[Tile]
             /\ rows[Tile] \in Seq(Word16)
             /\ Len(rows[0]) = 0
             /\ \A n \in 0..Tile : Len(rows[n]) \in 0..(9 * n) /\ Len(rows[n]) <= Len(rows[Tile])
             /\ \A n \in Edge : /\ Len(rows[n + 1]) = Len(rows[n]) + Len(row(n))
                                /\ \A k \in 1..Len(row(n)) : rows[Tile][Len(rows[n]) + k] = row(n)[k]
<1> DEFINE rows   == BodyRows(parity, hasAbove, hasBelow)
           row(n) == emitRow(parity, n, hasAbove, hasBelow)
           part   == [k \in 1..Tile |-> row(k - 1)]
<1>1. emitTileBody(parity, hasAbove, hasBelow) = rows[Tile]
  BY DEF emitTileBody, BodyRows, IsBody
<1>2. rows = [n \in 0..Tile |-> IF n = 0 THEN << >> ELSE rows[n - 1] \o row(n - 1)]
  <2>1. IsBody(rows, parity, hasAbove, hasBelow)
    BY BodyExists, Zenon
  <2> HIDE DEF rows
  <2> QED BY <2>1, Zenon DEF IsBody
<1>3. \A n \in Edge : row(n) \in Seq(Word16) /\ Len(row(n)) \in {2, 9}
  BY RowType
<1> HIDE DEF rows, row
<1>4. Tile \in Nat /\ Edge = 0..(Tile - 1)
  BY Sizes DEF Edge
<1>5. /\ rows[0] = << >>
      /\ \A k \in 1..Tile : part[k] = row(k - 1) /\ rows[k] = rows[k - 1] \o part[k]
  <2>1. 0 \in 0..Tile /\ \A k \in 1..Tile : k \in 0..Tile /\ k # 0
    BY <1>4
  <2>2. rows[0] = << >>
    BY <1>2, <2>1, Zenon
  <2>3. ASSUME NEW k \in 1..Tile
        PROVE  part[k] = row(k - 1) /\ rows[k] = rows[k - 1] \o part[k]
    <3>1. part[k] = row(k - 1)
      BY Zenon
    <3>2. rows[k] = rows[k - 1] \o row(k - 1)
      BY <1>2, <2>1, Zenon
    <3> QED BY <3>1, <3>2, Zenon
  <2> QED BY <2>2, <2>3, Zenon
<1>6. rows[0] \in Seq(Word16) /\ Len(rows[0]) = 0
  BY <1>5
<1>7. \A k \in 1..Tile : part[k] \in Seq(Word16) /\ Len(part[k]) \in {2, 9}
  BY <1>3, <1>4, <1>5
<1> HIDE DEF part
<1>8. /\ \A k \in 0..Tile : rows[k] \in Seq(Word16) /\ Len(rows[k]) \in Nat
      /\ \A k \in 1..Tile : Len(rows[k]) = Len(rows[k - 1]) + Len(part[k])
      /\ \A j, k \in 0..Tile : j <= k =>
           /\ Len(rows[j]) <= Len(rows[k])
           /\ \A m \in 1..Len(rows[j]) : rows[k][m] = rows[j][m]
  <2>1. \A k \in 1..Tile : part[k] \in Seq(Word16) /\ rows[k] = rows[k - 1] \o part[k]
    BY <1>5, <1>7
  <2>2. Tile \in Nat /\ rows[0] \in Seq(Word16)
    BY <1>4, <1>6, Zenon
  <2>3. KeepsPrefixes(Word16, Tile, rows, part)
    BY <2>1, <2>2, Prefixes, Zenon DEF Grows
  <2> QED BY <2>3, Zenon DEF KeepsPrefixes
<1>9. \A n \in 0..Tile : Len(rows[n]) \in 0..(9 * n)
  <2> DEFINE T == {n \in Nat : n <= Tile => Len(rows[n]) \in 0..(9 * n)}
  <2>1. 0 \in T
    BY <1>6
  <2>2. ASSUME NEW n \in T PROVE n + 1 \in T
    <3>0. n \in Nat /\ (n <= Tile => Len(rows[n]) \in 0..(9 * n)) /\ n + 1 \in Nat
      OBVIOUS
    <3>1. ASSUME n + 1 <= Tile PROVE Len(rows[n + 1]) \in 0..(9 * (n + 1))
      <4> DEFINE p == Len(rows[n])
                 q == Len(part[n + 1])
      <4>1. n + 1 \in 1..Tile /\ (n + 1) - 1 = n /\ n <= Tile /\ n \in Nat
        BY <1>4, <3>0, <3>1
      <4>2. Len(rows[n + 1]) = p + q /\ q \in {2, 9}
        BY <1>7, <1>8, <4>1, Zenon
      <4>3. p \in 0..(9 * n)
        BY <3>0, <4>1, Zenon
      <4>4. p + q \in 0..(9 * (n + 1))
        <5>1. q \in {2, 9} /\ n \in Nat
          BY <4>1, <4>2, Zenon
        <5> HIDE DEF p, q
        <5> QED BY <4>3, <5>1
      <4> QED BY <4>2, <4>4, Zenon
    <3> QED BY <3>0, <3>1, Zenon
  <2> HIDE DEF T
  <2>3. T \in SUBSET Nat
    BY DEF T
  <2>4. T = Nat
    BY <2>1, <2>2, <2>3, SetInduction
  <2> QED BY <2>4 DEF T
<1>10. ASSUME NEW n \in Edge
       PROVE  /\ Len(rows[n + 1]) = Len(rows[n]) + Len(row(n))
              /\ \A k \in 1..Len(row(n)) : rows[Tile][Len(rows[n]) + k] = row(n)[k]
  <2>1. n + 1 \in 1..Tile /\ n + 1 \in 0..Tile /\ (n + 1) - 1 = n /\ n \in 0..Tile /\ Tile \in 0..Tile
    BY <1>4
  <2>2. part[n + 1] = row(n) /\ rows[n + 1] = rows[n] \o row(n)
    BY <1>5, <2>1
  <2>3. Len(rows[n + 1]) = Len(rows[n]) + Len(row(n))
    BY <1>8, <2>1, <2>2
  <2>4. rows[n] \in Seq(Word16) /\ row(n) \in Seq(Word16) /\ Len(rows[n]) \in Nat /\ Len(row(n)) \in Nat
    BY <1>3, <1>8, <2>1
  <2>5. ASSUME NEW k \in 1..Len(row(n)) PROVE rows[Tile][Len(rows[n]) + k] = row(n)[k]
    <3>1. rows[n + 1][Len(rows[n]) + k] = row(n)[k]
      BY <2>2, <2>4, ConcatAt
    <3>2. Len(rows[n]) + k \in 1..Len(rows[n + 1])
      BY <2>3, <2>4
    <3>3. rows[Tile][Len(rows[n]) + k] = rows[n + 1][Len(rows[n]) + k]
      BY <1>4, <1>8, <2>1, <3>2
    <3> QED BY <3>1, <3>3
  <2> QED BY <2>3, <2>5
<1>11. \A n \in 0..Tile : Len(rows[n]) <= Len(rows[Tile])
  BY <1>4, <1>8
<1>12. rows[Tile] \in Seq(Word16)
  BY <1>4, <1>8
<1> QED BY <1>1, <1>6, <1>9, <1>10, <1>11, <1>12 DEF rows, row

\* How many instructions the body of a tile has in the loop of group g.
BodyLen(parity, g) == Len(emitTileBody(parity, g.hasAbove, g.hasBelow))

\* The instructions around the body in the loop of a group.
LEMMA GroupText ==
  ASSUME NEW parity, NEW g, g.start \in 0..MemSize, g.end \in 0..MemSize,
         NEW before \in 0..(18 * Tile + 22)
  PROVE  LET text == GroupCode(parity, g, before)
             body == emitTileBody(parity, g.hasAbove, g.hasBelow)
             n    == BodyLen(parity, g)
         IN  /\ text \in Seq(Word16) /\ n \in 0..(9 * Tile) /\ Len(text) = 9 + n
             /\ Codes(text[1], Op.LI, SR.T, 0, 0, 0, g.start)
             /\ Codes(text[2], Op.LI, SR.END, 0, 0, 0, g.end)
             /\ Codes(text[3], Op.MUL, SR.SRC, SR.T, SR.TSTR, 0, 0)
             /\ Codes(text[4], Op.ADD, SR.DST, SR.SRC, SR.DISP, 0, 0)
             /\ Codes(text[5], Op.ADDI, SR.ABOVE, SR.SRC, 0, 0, -TileRowStride)
             /\ Codes(text[6], Op.ADDI, SR.BELOW, SR.SRC, 0, 0, TileRowStride)
             /\ \A k \in 1..n : text[6 + k] = body[k]
             /\ Codes(text[7 + n], Op.ADDI, SR.T, SR.T, 0, 0, 1)
             /\ Codes(text[8 + n], Op.CMPLT, SR.COND, SR.T, SR.END, 0, 0)
             /\ Codes(text[9 + n], Op.BNZ, 0, SR.COND, 0, 0, before + 2)
<1> DEFINE up   == -TileRowStride
           back == before + 2
           h1 == Emit(Op.LI, SR.T, 0, 0, 0, g.start)
           h2 == Emit(Op.LI, SR.END, 0, 0, 0, g.end)
           h3 == Emit(Op.MUL, SR.SRC, SR.T, SR.TSTR, 0, 0)
           h4 == Emit(Op.ADD, SR.DST, SR.SRC, SR.DISP, 0, 0)
           h5 == Emit(Op.ADDI, SR.ABOVE, SR.SRC, 0, 0, up)
           h6 == Emit(Op.ADDI, SR.BELOW, SR.SRC, 0, 0, TileRowStride)
           t1 == Emit(Op.ADDI, SR.T, SR.T, 0, 0, 1)
           t2 == Emit(Op.CMPLT, SR.COND, SR.T, SR.END, 0, 0)
           t3 == Emit(Op.BNZ, 0, SR.COND, 0, 0, back)
           head == << h1, h2, h3, h4, h5, h6 >>
           tail == << t1, t2, t3 >>
           body == emitTileBody(parity, g.hasAbove, g.hasBelow)
           n    == Len(body)
<1>1. GroupCode(parity, g, before) = (head \o body) \o tail
  <2> HIDE DEF body
  <2> QED BY DEF GroupCode, InsImm, Ins, body
<1>2. /\ g.start \in Immediates /\ g.end \in Immediates /\ up \in Immediates
      /\ TileRowStride \in Immediates /\ 1 \in Immediates /\ back \in Immediates
  <2>1. back \in 0..(27 * Tile + 32) /\ 1 \in 0..255
    BY Sizes
  <2>2. g.start \in Immediates /\ g.end \in Immediates /\ 1 \in Immediates /\ back \in Immediates
    BY <2>1, ImmediatesFit, Zenon
  <2>3. up \in Immediates /\ TileRowStride \in Immediates
    BY ImmediatesFit, Zenon
  <2> QED BY <2>2, <2>3, Zenon
<1> HIDE DEF up, back
<1>3. /\ h1 \in Word16 /\ Codes(h1, Op.LI, SR.T, 0, 0, 0, g.start)
      /\ h2 \in Word16 /\ Codes(h2, Op.LI, SR.END, 0, 0, 0, g.end)
      /\ h3 \in Word16 /\ Codes(h3, Op.MUL, SR.SRC, SR.T, SR.TSTR, 0, 0)
  BY <1>2, EmitCodes, OpcodesFit, RegistersFit, Zenon
<1>4. /\ h4 \in Word16 /\ Codes(h4, Op.ADD, SR.DST, SR.SRC, SR.DISP, 0, 0)
      /\ h5 \in Word16 /\ Codes(h5, Op.ADDI, SR.ABOVE, SR.SRC, 0, 0, up)
      /\ h6 \in Word16 /\ Codes(h6, Op.ADDI, SR.BELOW, SR.SRC, 0, 0, TileRowStride)
  BY <1>2, EmitCodes, OpcodesFit, RegistersFit, Zenon
<1>5. /\ t1 \in Word16 /\ Codes(t1, Op.ADDI, SR.T, SR.T, 0, 0, 1)
      /\ t2 \in Word16 /\ Codes(t2, Op.CMPLT, SR.COND, SR.T, SR.END, 0, 0)
      /\ t3 \in Word16 /\ Codes(t3, Op.BNZ, 0, SR.COND, 0, 0, back)
  BY <1>2, EmitCodes, OpcodesFit, RegistersFit, Zenon
<1> HIDE DEF h1, h2, h3, h4, h5, h6, t1, t2, t3
<1>6. /\ head \in Seq(Word16) /\ Len(head) = 6
      /\ head[1] = h1 /\ head[2] = h2 /\ head[3] = h3
      /\ head[4] = h4 /\ head[5] = h5 /\ head[6] = h6
  BY <1>3, <1>4
<1>7. tail \in Seq(Word16) /\ Len(tail) = 3 /\ tail[1] = t1 /\ tail[2] = t2 /\ tail[3] = t3
  BY <1>5
<1>8. body \in Seq(Word16) /\ n \in 0..(9 * Tile)
  <2> DEFINE rows == BodyRows(parity, g.hasAbove, g.hasBelow)
  <2>1. /\ body = rows[Tile] /\ rows[Tile] \in Seq(Word16)
        /\ \A k \in 0..Tile : Len(rows[k]) \in 0..(9 * k)
    BY BodyText
  <2>2. Tile \in 0..Tile
    BY Sizes
  <2> HIDE DEF rows, body
  <2>3. Len(rows[Tile]) \in 0..(9 * Tile)
    BY <2>1, <2>2, Zenon
  <2> QED BY <2>1, <2>3, Zenon
<1> HIDE DEF head, body, tail
<1> DEFINE front == head \o body
           text  == front \o tail
<1>9. /\ front \in Seq(Word16) /\ Len(front) = 6 + n /\ n \in Nat
      /\ \A k \in 1..6 : front[k] = head[k]
      /\ \A k \in 1..n : front[6 + k] = body[k]
  <2>1. head \in Seq(Word16) /\ body \in Seq(Word16) /\ Len(head) = 6
    BY <1>6, <1>8, Zenon
  <2>2. /\ front \in Seq(Word16) /\ Len(front) = Len(head) + Len(body) /\ Len(body) \in Nat
        /\ \A k \in 1..Len(head) : front[k] = head[k]
        /\ \A k \in 1..Len(body) : front[Len(head) + k] = body[k]
    <3>1. head \in Seq(Word16) /\ body \in Seq(Word16)
      BY <2>1, Zenon
    <3> QED BY <3>1, ConcatAt
  <2> HIDE DEF front
  <2> QED BY <2>1, <2>2
<1> HIDE DEF front
<1>10. /\ text \in Seq(Word16) /\ Len(text) = 9 + n
       /\ \A k \in 1..(6 + n) : text[k] = front[k]
       /\ text[(6 + n) + 1] = tail[1] /\ text[(6 + n) + 2] = tail[2] /\ text[(6 + n) + 3] = tail[3]
  <2>1. /\ text \in Seq(Word16) /\ Len(text) = Len(front) + Len(tail)
        /\ \A k \in 1..Len(front) : text[k] = front[k]
        /\ \A k \in 1..Len(tail) : text[Len(front) + k] = tail[k]
    <3>1. front \in Seq(Word16) /\ tail \in Seq(Word16)
      BY <1>7, <1>9, Zenon
    <3> QED BY <3>1, ConcatAt
  <2> HIDE DEF n, text
  <2> QED BY <1>7, <1>9, <2>1
<1> HIDE DEF n, text
<1>11. /\ text[1] = h1 /\ text[2] = h2 /\ text[3] = h3 /\ text[4] = h4 /\ text[5] = h5
       /\ text[6] = h6
       /\ \A k \in 1..n : text[6 + k] = body[k]
       /\ text[7 + n] = t1 /\ text[8 + n] = t2 /\ text[9 + n] = t3
  <2>1. \A k \in 1..6 : k \in 1..(6 + n) /\ text[k] = head[k]
    BY <1>9, <1>10
  <2>2. \A k \in 1..n : 6 + k \in 1..(6 + n)
    BY <1>9
  <2>3. (6 + n) + 1 = 7 + n /\ (6 + n) + 2 = 8 + n /\ (6 + n) + 3 = 9 + n
    BY <1>9
  <2>4. \A k \in 1..n : text[6 + k] = body[k]
    BY <1>9, <1>10, <2>2, Zenon
  <2> QED BY <1>6, <1>7, <1>10, <2>1, <2>3, <2>4
<1>12. GroupCode(parity, g, before) = text
  BY <1>1, Zenon DEF text, front
<1> QED BY <1>3, <1>4, <1>5, <1>8, <1>10, <1>11, <1>12, Zenon DEF up, back, body, n, BodyLen

\* How many groups of tiles there are.
G == Len(groups)

\* What compiler.cpp takes a group for: the tiles from start to end, which agree on what
\* lies above and below them.
IsGroup(g) ==
  /\ g.start \in 0..N /\ g.end \in 0..N /\ g.start < g.end
  /\ \A t \in g.start..(g.end - 1) :
       /\ g.hasAbove <=> t >= tilesX
       /\ g.hasBelow <=> t < tilesX * (tilesY - 1)

LEMMA GroupsCover ==
  /\ G \in 1..3 /\ groups[1].start = 0 /\ groups[G].end = N
  /\ \A g \in 1..G : IsGroup(groups[g])
  /\ \A g \in 1..G : g < G => groups[g + 1].start = groups[g].end
<1> DEFINE X == tilesX
           M == tilesX * (tilesY - 1)
<1>1. /\ X \in Nat \ {0} /\ M \in Nat /\ N = M + X /\ N \in Nat
      /\ tilesY \in Nat \ {0}
      /\ tilesY = 1 => M = 0
      /\ tilesY = 2 => M = X
      /\ tilesY > 2 => M > X
  <2>1. tilesX \in Nat \ {0} /\ tilesY \in Nat \ {0}
    BY Sizes
  <2>2. tilesX * (tilesY - 1) \in Nat /\ N = tilesX * (tilesY - 1) + tilesX
    BY <2>1 DEF N
  <2>3. tilesY > 2 => tilesX * (tilesY - 1) > tilesX
    <3>1. tilesY > 2 => \E d \in Nat \ {0} : tilesY - 1 = 1 + d
      <4>1. tilesY > 2 => tilesY - 2 \in Nat \ {0} /\ tilesY - 1 = 1 + (tilesY - 2)
        BY <2>1
      <4> QED BY <4>1
    <3>2. \A d \in Nat \ {0} : tilesX * (1 + d) = tilesX + tilesX * d /\ tilesX * d \in Nat \ {0}
      BY <2>1
    <3> QED BY <2>1, <3>1, <3>2
  <2> QED BY <2>1, <2>2, <2>3
<1>2. tilesX * tilesY = N
  BY DEF N
<1> HIDE DEF M, X
<1> DEFINE whole  == Group(0, X, FALSE, FALSE)
           top    == Group(0, X, FALSE, TRUE)
           middle == Group(X, M, TRUE, TRUE)
           bottom == Group(M, N, TRUE, FALSE)
<1>3. /\ tilesY = 1 => G = 1 /\ groups[1] = whole
      /\ tilesY # 1 /\ ~(tilesY > 2) => G = 2 /\ groups[1] = top /\ groups[2] = bottom
      /\ tilesY # 1 /\ tilesY > 2 =>
           G = 3 /\ groups[1] = top /\ groups[2] = middle /\ groups[3] = bottom
  <2>1. groups = IF tilesY = 1 THEN << whole >>
                 ELSE (<< top >> \o (IF tilesY > 2 THEN << middle >> ELSE << >>)) \o << bottom >>
    BY <1>2, Zenon DEF groups, X, M
  <2> HIDE DEF whole, top, middle, bottom
  <2> DEFINE S == {top, middle, bottom}
             two   == (<< top >> \o << >>) \o << bottom >>
             three == (<< top >> \o << middle >>) \o << bottom >>
  <2>2. << top >> \in Seq(S) /\ << middle >> \in Seq(S) /\ << bottom >> \in Seq(S)
    OBVIOUS
  <2>3. Len(two) = 2 /\ two[1] = top /\ two[2] = bottom
    BY <2>2
  <2>4. Len(three) = 3 /\ three[1] = top /\ three[2] = middle /\ three[3] = bottom
    BY <2>2
  <2>5. Len(<< whole >>) = 1 /\ << whole >>[1] = whole
    OBVIOUS
  <2>6. groups = IF tilesY = 1 THEN << whole >> ELSE IF tilesY > 2 THEN three ELSE two
    BY <2>1, Zenon
  <2> HIDE DEF S, two, three
  <2> QED BY <2>3, <2>4, <2>5, <2>6, Zenon DEF G
<1>4. /\ whole.start = 0 /\ whole.end = X /\ ~whole.hasAbove /\ ~whole.hasBelow
      /\ top.start = 0 /\ top.end = X /\ ~top.hasAbove /\ top.hasBelow
      /\ middle.start = X /\ middle.end = M /\ middle.hasAbove /\ middle.hasBelow
      /\ bottom.start = M /\ bottom.end = N /\ bottom.hasAbove /\ ~bottom.hasBelow
  BY DEF Group
<1> HIDE DEF whole, top, middle, bottom
<1>5. \A g : IsGroup(g) <=>
         /\ g.start \in 0..N /\ g.end \in 0..N /\ g.start < g.end
         /\ \A t \in g.start..(g.end - 1) : (g.hasAbove <=> t >= X) /\ (g.hasBelow <=> t < M)
  BY DEF IsGroup, X, M
<1>6. CASE tilesY = 1
  <2>1. G = 1 /\ groups[1] = whole
    BY <1>3, <1>6
  <2>2. IsGroup(whole)
    <3>1. M = 0 /\ X \in 0..N /\ 0 \in 0..N /\ 0 < X
      BY <1>1, <1>6
    <3>2. \A t \in 0..(X - 1) : ~(t >= X) /\ ~(t < M)
      BY <1>1, <3>1
    <3> QED BY <1>4, <1>5, <3>1, <3>2, Zenon
  <2>3. X = N
    BY <1>1, <1>6
  <2> QED BY <1>4, <2>1, <2>2, <2>3
<1>7. \A n \in {X, M} : tilesY # 1 => IsGroup(top) /\ IsGroup(bottom) /\ M >= X
  <2> SUFFICES ASSUME tilesY # 1 PROVE IsGroup(top) /\ IsGroup(bottom) /\ M >= X
    OBVIOUS
  <2>1. M >= X /\ M \in 0..N /\ X \in 0..N /\ 0 \in 0..N /\ N \in 0..N /\ 0 < X /\ M < N
    BY <1>1
  <2>2. \A t \in 0..(X - 1) : ~(t >= X) /\ t < M
    BY <1>1, <2>1
  <2>3. \A t \in M..(N - 1) : t >= X /\ ~(t < M)
    BY <1>1, <2>1
  <2>4. IsGroup(top)
    BY <1>4, <1>5, <2>1, <2>2, Zenon
  <2>5. IsGroup(bottom)
    BY <1>4, <1>5, <2>1, <2>3, Zenon
  <2> QED BY <2>1, <2>4, <2>5
<1>8. CASE tilesY # 1 /\ ~(tilesY > 2)
  <2>1. G = 2 /\ groups[1] = top /\ groups[2] = bottom /\ M = X
    BY <1>1, <1>3, <1>8
  <2> QED BY <1>4, <1>7, <1>8, <2>1
<1>9. CASE tilesY # 1 /\ tilesY > 2
  <2>1. /\ G = 3 /\ groups[1] = top /\ groups[2] = middle /\ groups[3] = bottom
        /\ M > X
    BY <1>1, <1>3, <1>9
  <2>2. IsGroup(middle)
    <3>1. M \in 0..N /\ X \in 0..N /\ X < M
      BY <1>1, <2>1
    <3>2. \A t \in X..(M - 1) : t >= X /\ t < M
      BY <1>1
    <3> QED BY <1>4, <1>5, <3>1, <3>2, Zenon
  <2> QED BY <1>4, <1>7, <1>9, <2>1, <2>2
<1> QED BY <1>6, <1>8, <1>9

LEMMA PrologueText ==
  /\ Prologue \in Seq(Word16) /\ Len(Prologue) = 4
  /\ Codes(Prologue[1], Op.LI, SR.TSTR, 0, 0, 0, kTileBytes)
  /\ Codes(Prologue[2], Op.LI, SR.DISP, 0, 0, 0, MemSize)
  /\ Codes(Prologue[3], Op.VDENS, VR.LUT, 0, 0, 0, 0)
  /\ Codes(Prologue[4], Op.VBCASTB, VR.WALL, 0, 0, 0, Wall)
<1> DEFINE w1 == Emit(Op.LI, SR.TSTR, 0, 0, 0, kTileBytes)
           w2 == Emit(Op.LI, SR.DISP, 0, 0, 0, MemSize)
           w3 == Emit(Op.VDENS, VR.LUT, 0, 0, 0, 0)
           w4 == Emit(Op.VBCASTB, VR.WALL, 0, 0, 0, Wall)
<1>1. Prologue = << w1, w2, w3, w4 >>
  <2>1. GridBytes = MemSize
    BY Sizes, Zenon
  <2> QED BY <2>1, Zenon DEF Prologue, InsImm, Ins
<1>2. kTileBytes \in Immediates /\ MemSize \in Immediates /\ Wall \in Immediates
  <2>1. MemSize \in 0..MemSize /\ Wall \in 0..255
    BY Sizes DEF Wall
  <2> QED BY <2>1, ImmediatesFit, Zenon
<1>3. /\ w1 \in Word16 /\ Codes(w1, Op.LI, SR.TSTR, 0, 0, 0, kTileBytes)
      /\ w2 \in Word16 /\ Codes(w2, Op.LI, SR.DISP, 0, 0, 0, MemSize)
      /\ w3 \in Word16 /\ Codes(w3, Op.VDENS, VR.LUT, 0, 0, 0, 0)
      /\ w4 \in Word16 /\ Codes(w4, Op.VBCASTB, VR.WALL, 0, 0, 0, Wall)
  BY <1>2, EmitCodes, OpcodesFit, RegistersFit, Zenon
<1> HIDE DEF w1, w2, w3, w4
<1>4. << w1, w2, w3, w4 >> \in Seq(Word16) /\ Len(<< w1, w2, w3, w4 >>) = 4
  BY <1>3
<1> QED BY <1>1, <1>3, <1>4

\* compileVerticalPass: the program when the first n groups are emitted.
IsCode(code, parity) ==
  code = [n \in 0..G |-> IF n = 0 THEN Prologue
                         ELSE code[n - 1] \o GroupCode(parity, groups[n], Len(code[n - 1]))]

Code(parity) == CHOOSE code : IsCode(code, parity)

LEMMA CodeExists == ASSUME NEW parity PROVE IsCode(Code(parity), parity)
<1> DEFINE next(c, n) == c \o GroupCode(parity, groups[n], Len(c))
           c1 == next(Prologue, 1)
           c2 == next(c1, 2)
           c3 == next(c2, 3)
           v(n) == CASE n = 0 -> Prologue [] n = 1 -> c1 [] n = 2 -> c2 [] n = 3 -> c3
           f  == [n \in 0..G |-> v(n)]
<1>1. ASSUME NEW n \in 0..G PROVE f[n] = IF n = 0 THEN Prologue ELSE next(f[n - 1], n)
  <2> HIDE DEF next, f
  <2>1. G \in 1..3
    BY GroupsCover
  <2>2. n = 0 \/ n = 1 \/ n = 2 \/ n = 3
    BY <2>1
  <2>3. n # 0 => n - 1 \in 0..G
    BY <2>1
  <2>4. \A m \in 0..G : /\ m = 0 => f[m] = Prologue
                        /\ m = 1 => f[m] = c1
                        /\ m = 2 => f[m] = c2
                        /\ m = 3 => f[m] = c3
    <3> HIDE DEF c1, c2, c3
    <3> QED BY DEF f
  <2>5. n = 1 => n - 1 = 0 /\ f[n] = next(Prologue, 1) /\ f[n - 1] = Prologue
    BY <2>3, <2>4
  <2>6. n = 2 => n - 1 = 1 /\ f[n] = next(c1, 2) /\ f[n - 1] = c1
    BY <2>3, <2>4
  <2>7. n = 3 => n - 1 = 2 /\ f[n] = next(c2, 3) /\ f[n - 1] = c2
    BY <2>3, <2>4
  <2>8. 0 # 1 /\ 0 # 2 /\ 0 # 3
    OBVIOUS
  <2> HIDE DEF c1, c2, c3
  <2> QED BY <2>2, <2>4, <2>5, <2>6, <2>7, <2>8, Zenon
<1> DEFINE h(n) == IF n = 0 THEN Prologue ELSE next(f[n - 1], n)
<1>2. f = [n \in 0..G |-> f[n]]
  <2> HIDE DEF v
  <2> QED OBVIOUS
<1> HIDE DEF f
<1>3. IsCode(f, parity)
  <2>1. f = [n \in 0..G |-> h(n)]
    BY <1>1, <1>2, Zenon
  <2> QED BY <2>1, Zenon DEF IsCode
<1> QED BY <1>3, Zenon DEF Code

\* The index of the first instruction of group n; after the last one comes HALT.
Base(parity, n) == Len(Code(parity)[n - 1])

Text(parity) == compileVerticalPass(parity)

LEMMA CodeText ==
  ASSUME NEW parity
  PROVE  /\ Text(parity) \in Seq(Word16) /\ Base(parity, 1) = 4
         /\ Base(parity, G + 1) \in Nat /\ Len(Text(parity)) = Base(parity, G + 1) + 1
         /\ \A k \in 1..4 : Text(parity)[k] = Prologue[k]
         /\ \A n \in 1..G :
              /\ Base(parity, n) \in 4..(18 * Tile + 22)
              /\ BodyLen(parity, groups[n]) \in 0..(9 * Tile)
              /\ Base(parity, n + 1) = Base(parity, n) + 9 + BodyLen(parity, groups[n])
              /\ Base(parity, n + 1) <= Base(parity, G + 1)
              /\ \A k \in 1..(9 + BodyLen(parity, groups[n])) :
                   Text(parity)[Base(parity, n) + k]
                     = GroupCode(parity, groups[n], Base(parity, n))[k]
         /\ Codes(Text(parity)[Base(parity, G + 1) + 1], Op.HALT, 0, 0, 0, 0, 0)
<1> DEFINE code == Code(parity)
           part == [n \in 1..G |-> GroupCode(parity, groups[n], Len(code[n - 1]))]
           len(n) == BodyLen(parity, groups[n])
           halt == Emit(Op.HALT, 0, 0, 0, 0, 0)
<1>1. Text(parity) = code[G] \o << halt >>
  BY DEF Text, compileVerticalPass, Code, IsCode, G, Ins
<1>2. code = [n \in 0..G |-> IF n = 0 THEN Prologue
                             ELSE code[n - 1] \o GroupCode(parity, groups[n], Len(code[n - 1]))]
  <2>1. IsCode(code, parity)
    BY CodeExists, Zenon
  <2> HIDE DEF code
  <2> QED BY <2>1, Zenon DEF IsCode
<1>3. halt \in Word16 /\ Codes(halt, Op.HALT, 0, 0, 0, 0, 0)
  BY EmitCodes, OpcodesFit, RegistersFit, Zenon
<1> HIDE DEF code, halt
<1>4. G \in 1..3 /\ \A n \in 1..G : groups[n].start \in 0..MemSize /\ groups[n].end \in 0..MemSize
  <2>1. G \in 1..3 /\ \A n \in 1..G : groups[n].start \in 0..N /\ groups[n].end \in 0..N
    BY GroupsCover, Zenon DEF IsGroup
  <2>2. N \in Nat /\ MemSize \in Nat /\ N <= MemSize
    <3>1. N \in Nat /\ kTileBytes \in Nat \ {0} /\ MemSize = kTileBytes * N
      BY Sizes, Zenon
    <3>2. PICK d \in Nat : kTileBytes = 1 + d
      <4>1. kTileBytes - 1 \in Nat /\ kTileBytes = 1 + (kTileBytes - 1)
        BY <3>1
      <4> QED BY <4>1
    <3>3. MemSize = N + d * N /\ d * N \in Nat
      BY <3>1, <3>2
    <3> QED BY <3>1, <3>3
  <2>3. \A m \in 0..N : m \in 0..MemSize
    BY <2>2
  <2> QED BY <2>1, <2>3, Zenon
<1>5. code[0] = Prologue
  <2>1. 0 \in 0..G
    BY <1>4
  <2> QED BY <1>2, <2>1, Zenon
<1>6. ASSUME NEW n \in 1..G
      PROVE  code[n] = code[n - 1] \o part[n] /\ part[n] = GroupCode(parity, groups[n], Len(code[n - 1]))
  <2>1. n \in 0..G /\ n # 0
    BY <1>4
  <2>2. part[n] = GroupCode(parity, groups[n], Len(code[n - 1]))
    BY Zenon
  <2>3. code[n] = code[n - 1] \o GroupCode(parity, groups[n], Len(code[n - 1]))
    BY <1>2, <2>1, Zenon
  <2> QED BY <2>2, <2>3, Zenon
<1> HIDE DEF part
<1> DEFINE Good(n) == code[n] \in Seq(Word16) /\ Len(code[n]) \in 4..(4 + n * (9 * Tile + 9))
<1>7. Good(0)
  <2>1. code[0] \in Seq(Word16) /\ Len(code[0]) = 4
    BY <1>5, PrologueText, Zenon
  <2>2. 4 \in 4..(4 + 0 * (9 * Tile + 9))
    BY Sizes
  <2> QED BY <2>1, <2>2, Zenon
<1>8. ASSUME NEW n \in 1..G, Good(n - 1)
      PROVE  /\ Good(n) /\ Len(code[n - 1]) \in 4..(18 * Tile + 22)
             /\ part[n] \in Seq(Word16) /\ len(n) \in 0..(9 * Tile) /\ Len(part[n]) = 9 + len(n)
  <2> DEFINE b == Len(code[n - 1])
             l == len(n)
  <2>1. Tile \in Nat /\ (n = 1 \/ n = 2 \/ n = 3)
    BY <1>4, Sizes
  <2>2. code[n - 1] \in Seq(Word16) /\ b \in 4..(4 + (n - 1) * (9 * Tile + 9))
    BY <1>8, Zenon
  <2>3. b \in Nat /\ b >= 4 /\ b <= 18 * Tile + 22
    <3> HIDE DEF b
    <3> QED BY <2>1, <2>2
  <2>4. b \in 0..(18 * Tile + 22) /\ b \in 4..(18 * Tile + 22)
    <3> HIDE DEF b
    <3> QED BY <2>1, <2>3
  <2>5. /\ part[n] \in Seq(Word16) /\ l \in 0..(9 * Tile) /\ Len(part[n]) = 9 + l
    <3> DEFINE g == groups[n]
    <3>1. g.start \in 0..MemSize /\ g.end \in 0..MemSize
      BY <1>4, Zenon
    <3> HIDE DEF g, b
    <3>2. /\ GroupCode(parity, g, b) \in Seq(Word16) /\ BodyLen(parity, g) \in 0..(9 * Tile)
          /\ Len(GroupCode(parity, g, b)) = 9 + BodyLen(parity, g)
      BY <2>4, <3>1, GroupText, Zenon
    <3> QED BY <1>6, <3>2, Zenon DEF g, b
  <2>6. code[n] \in Seq(Word16) /\ Len(code[n]) = b + Len(part[n])
    <3>1. code[n] = code[n - 1] \o part[n]
      BY <1>6, Zenon
    <3>2. code[n - 1] \in Seq(Word16) /\ part[n] \in Seq(Word16)
      BY <2>2, <2>5, Zenon
    <3> QED BY <3>1, <3>2, ConcatAt
  <2>7. b + (9 + l) \in 4..(4 + n * (9 * Tile + 9))
    <3>1. l \in 0..(9 * Tile)
      BY <2>5, Zenon
    <3> HIDE DEF b, l
    <3> QED BY <2>1, <2>2, <3>1
  <2> QED BY <2>4, <2>5, <2>6, <2>7, Zenon
<1>9. \A n \in 1..G : Good(n - 1)
  <2> HIDE DEF Good
  <2>1. 1 - 1 = 0 /\ 2 - 1 = 1 /\ 3 - 1 = 2 /\ 1 \in 1..G
    BY <1>4
  <2>2. 2 \in 1..G => Good(2 - 1)
    BY <1>7, <1>8, <2>1
  <2>3. 3 \in 1..G => 2 \in 1..G
    BY <1>4
  <2>4. 3 \in 1..G => Good(3 - 1)
    BY <1>8, <2>1, <2>2, <2>3
  <2>5. \A n \in 1..G : n \in {1, 2, 3}
    BY <1>4
  <2> QED BY <1>7, <2>1, <2>2, <2>4, <2>5
<1>10. \A n \in 1..G : /\ Len(code[n - 1]) \in 4..(18 * Tile + 22)
                       /\ part[n] \in Seq(Word16) /\ len(n) \in 0..(9 * Tile)
                       /\ Len(part[n]) = 9 + len(n)
  BY <1>8, <1>9, Zenon
<1> HIDE DEF len
<1>11. KeepsPrefixes(Word16, G, code, part)
  <2>1. G \in Nat /\ code[0] \in Seq(Word16)
    BY <1>4, <1>7
  <2> QED BY <1>6, <1>10, <2>1, Prefixes, Zenon DEF Grows
<1>12. /\ \A n \in 0..G : code[n] \in Seq(Word16) /\ Len(code[n]) \in Nat
       /\ \A n \in 1..G : Len(code[n]) = Len(code[n - 1]) + Len(part[n])
       /\ \A j, n \in 0..G : j <= n =>
            /\ Len(code[j]) <= Len(code[n])
            /\ \A m \in 1..Len(code[j]) : code[n][m] = code[j][m]
  BY <1>11, Zenon DEF KeepsPrefixes
<1> DEFINE text == code[G] \o << halt >>
<1>13. /\ text \in Seq(Word16) /\ Len(text) = Len(code[G]) + 1 /\ Len(code[G]) \in Nat
       /\ \A k \in 1..Len(code[G]) : text[k] = code[G][k]
       /\ text[Len(code[G]) + 1] = halt
  <2>1. code[G] \in Seq(Word16)
    <3>1. G \in 0..G
      BY <1>4
    <3> QED BY <1>12, <3>1, Zenon
  <2>2. << halt >> \in Seq(Word16) /\ Len(<< halt >>) = 1 /\ << halt >>[1] = halt
    BY <1>3
  <2> DEFINE s == code[G]
             h == << halt >>
  <2>3. s \in Seq(Word16) /\ h \in Seq(Word16)
    BY <2>1, <2>2, Zenon
  <2> HIDE DEF s, h
  <2>4. /\ s \o h \in Seq(Word16) /\ Len(s \o h) = Len(s) + Len(h) /\ Len(s) \in Nat
        /\ \A k \in 1..Len(s) : (s \o h)[k] = s[k]
        /\ \A k \in 1..Len(h) : (s \o h)[Len(s) + k] = h[k]
    BY <2>3, ConcatAt
  <2>5. Len(h) = 1 /\ h[1] = halt /\ 1 \in 1..1
    BY <2>2 DEF h
  <2>6. (s \o h)[Len(s) + 1] = halt /\ Len(s \o h) = Len(s) + 1
    BY <2>4, <2>5, Zenon
  <2> QED BY <2>4, <2>6, Zenon DEF s, h
<1> HIDE DEF text
<1>14. ASSUME NEW n \in 1..G
       PROVE  /\ Len(code[n]) = Len(code[n - 1]) + 9 + len(n)
              /\ Len(code[n]) <= Len(code[G])
              /\ \A k \in 1..(9 + len(n)) : text[Len(code[n - 1]) + k] = part[n][k]
  <2> DEFINE b == Len(code[n - 1])
             e == Len(code[n])
             l == len(n)
  <2>1. G \in 0..G /\ n \in 0..G /\ n - 1 \in 0..G /\ n <= G
    BY <1>4
  <2>2. b \in Nat /\ l \in Nat /\ e = b + (9 + l) /\ e <= Len(code[G]) /\ Len(code[G]) \in Nat
    <3>1. l \in 0..(9 * Tile) /\ Len(part[n]) = 9 + l /\ e = b + Len(part[n]) /\ b \in Nat
      BY <1>10, <1>12, <2>1, Zenon
    <3>2. l \in Nat
      BY <3>1
    <3>3. e <= Len(code[G]) /\ Len(code[G]) \in Nat
      BY <1>12, <2>1, Zenon
    <3> QED BY <3>1, <3>2, <3>3, Zenon
  <2>3. e = b + 9 + l
    <3> HIDE DEF b, e, l
    <3> QED BY <2>2
  <2>4. ASSUME NEW k \in 1..(9 + l) PROVE text[b + k] = part[n][k]
    <3> DEFINE s == code[n - 1]
               t == part[n]
    <3>1. s \in Seq(Word16) /\ t \in Seq(Word16) /\ code[n] = s \o t /\ Len(t) = 9 + l
      BY <1>6, <1>10, <1>12, <2>1, Zenon
    <3> HIDE DEF t, s
    <3>2. \A m \in 1..Len(t) : (s \o t)[Len(s) + m] = t[m]
      BY <3>1, ConcatAt
    <3>3. code[n][b + k] = part[n][k]
      BY <3>1, <3>2, Zenon DEF s, t
    <3>4. b + k \in 1..e /\ b + k \in 1..Len(code[G])
      <4> HIDE DEF b, e, l
      <4> QED BY <2>2
    <3>5. code[G][b + k] = code[n][b + k]
      BY <1>12, <2>1, <3>4, Zenon
    <3>6. text[b + k] = code[G][b + k]
      BY <1>13, <3>4, Zenon
    <3> QED BY <3>3, <3>5, <3>6, Zenon
  <2> QED BY <2>2, <2>3, <2>4, Zenon
<1>15. \A k \in 1..4 : text[k] = Prologue[k]
  <2>1. 0 \in 0..G /\ G \in 0..G /\ 0 <= G
    BY <1>4
  <2>2. Len(code[0]) = 4 /\ 4 <= Len(code[G]) /\ \A m \in 1..4 : code[G][m] = code[0][m]
    BY <1>5, <1>12, <2>1, PrologueText, Zenon
  <2>3. \A m \in 1..4 : m \in 1..Len(code[G])
    BY <1>13, <2>2
  <2> QED BY <1>5, <1>13, <2>2, <2>3, Zenon
<1>16. /\ (G + 1) - 1 = G /\ 1 - 1 = 0 /\ \A n \in 1..G : (n + 1) - 1 = n
  BY <1>4
<1>17. /\ Base(parity, 1) = Len(code[0]) /\ Base(parity, G + 1) = Len(code[G])
       /\ \A n \in 1..G : Base(parity, n) = Len(code[n - 1]) /\ Base(parity, n + 1) = Len(code[n])
  BY <1>16, Zenon DEF Base, code
<1>18. Text(parity) = text
  BY <1>1, Zenon DEF text
<1>19. Base(parity, 1) = 4
  BY <1>5, <1>17, PrologueText, Zenon
<1>20. ASSUME NEW n \in 1..G
       PROVE  /\ Base(parity, n) \in 4..(18 * Tile + 22)
              /\ BodyLen(parity, groups[n]) \in 0..(9 * Tile)
              /\ Base(parity, n + 1) = Base(parity, n) + 9 + BodyLen(parity, groups[n])
              /\ Base(parity, n + 1) <= Base(parity, G + 1)
              /\ \A k \in 1..(9 + BodyLen(parity, groups[n])) :
                   text[Base(parity, n) + k] = GroupCode(parity, groups[n], Base(parity, n))[k]
  <2>1. Base(parity, n) = Len(code[n - 1]) /\ Base(parity, n + 1) = Len(code[n])
    BY <1>17, Zenon
  <2>2. Len(code[n - 1]) \in 4..(18 * Tile + 22) /\ len(n) \in 0..(9 * Tile)
    BY <1>10, Zenon
  <2>3. /\ Len(code[n]) = Len(code[n - 1]) + 9 + len(n) /\ Len(code[n]) <= Len(code[G])
        /\ \A k \in 1..(9 + len(n)) :
             text[Len(code[n - 1]) + k] = GroupCode(parity, groups[n], Len(code[n - 1]))[k]
    BY <1>6, <1>14, Zenon
  <2>4. BodyLen(parity, groups[n]) = len(n)
    BY DEF len
  <2> QED BY <1>17, <2>1, <2>2, <2>3, <2>4, Zenon
<1> QED BY <1>3, <1>13, <1>15, <1>17, <1>18, <1>19, <1>20, Zenon

-----------------------------------------------------------------------------
(* The instruction at each index of a kernel.                              *)

Holds(parity, p, op, rd, rs1, rs2, rs3, imm) ==
  /\ p \in Nat /\ p < Len(Text(parity))
  /\ Codes(Text(parity)[p + 1], op, rd, rs1, rs2, rs3, imm)

\* Where the row ly of the body starts in the loop of group n, and where the body ends.
RowAt(parity, n, ly) ==
  Base(parity, n) + 6 + Len(BodyRows(parity, groups[n].hasAbove, groups[n].hasBelow)[ly])

TailAt(parity, n) == Base(parity, n) + 6 + BodyLen(parity, groups[n])

EndAt(parity) == Base(parity, G + 1)

LEMMA InPrologue ==
  ASSUME NEW parity
  PROVE  /\ Holds(parity, 0, Op.LI, SR.TSTR, 0, 0, 0, kTileBytes)
         /\ Holds(parity, 1, Op.LI, SR.DISP, 0, 0, 0, MemSize)
         /\ Holds(parity, 2, Op.VDENS, VR.LUT, 0, 0, 0, 0)
         /\ Holds(parity, 3, Op.VBCASTB, VR.WALL, 0, 0, 0, Wall)
<1>1. /\ Text(parity)[1] = Prologue[1] /\ Text(parity)[2] = Prologue[2]
      /\ Text(parity)[3] = Prologue[3] /\ Text(parity)[4] = Prologue[4]
  <2>1. 1 \in 1..4 /\ 2 \in 1..4 /\ 3 \in 1..4 /\ 4 \in 1..4
    OBVIOUS
  <2>2. \A k \in 1..4 : Text(parity)[k] = Prologue[k]
    BY CodeText, Zenon
  <2> QED BY <2>1, <2>2, Zenon
<1>2. Len(Text(parity)) \in Nat /\ Len(Text(parity)) > 4
  <2>1. 1 \in 1..G
    BY GroupsCover
  <2>2. /\ Base(parity, 1) = 4 /\ BodyLen(parity, groups[1]) \in 0..(9 * Tile)
        /\ Base(parity, 1 + 1) = Base(parity, 1) + 9 + BodyLen(parity, groups[1])
        /\ Base(parity, 1 + 1) <= Base(parity, G + 1)
        /\ Len(Text(parity)) = Base(parity, G + 1) + 1 /\ Base(parity, G + 1) \in Nat
    BY <2>1, CodeText, Zenon
  <2> QED BY <2>2
<1>3. /\ 0 \in Nat /\ 1 \in Nat /\ 2 \in Nat /\ 3 \in Nat
      /\ 0 + 1 = 1 /\ 1 + 1 = 2 /\ 2 + 1 = 3 /\ 3 + 1 = 4
      /\ 0 < Len(Text(parity)) /\ 1 < Len(Text(parity)) /\ 2 < Len(Text(parity))
      /\ 3 < Len(Text(parity))
  BY <1>2
<1> QED BY <1>1, <1>3, PrologueText, Zenon DEF Holds

\* The sizes of a group, and what follows it.
LEMMA GroupPlace ==
  ASSUME NEW parity, NEW n \in 1..G
  PROVE  /\ Base(parity, n) \in 4..(18 * Tile + 22) /\ Base(parity, n) \in Nat
         /\ BodyLen(parity, groups[n]) \in Nat
         /\ TailAt(parity, n) \in Nat
         /\ TailAt(parity, n) = Base(parity, n) + 6 + BodyLen(parity, groups[n])
         /\ Base(parity, n + 1) = TailAt(parity, n) + 3
         /\ Base(parity, n + 1) < Len(Text(parity))
         /\ groups[n].start \in 0..MemSize /\ groups[n].end \in 0..MemSize
<1> DEFINE b == Base(parity, n)
           l == BodyLen(parity, groups[n])
           c == Base(parity, n + 1)
           e == Base(parity, G + 1)
<1>1. /\ b \in 4..(18 * Tile + 22) /\ l \in 0..(9 * Tile) /\ c = b + 9 + l /\ c <= e
      /\ e \in Nat /\ Len(Text(parity)) = e + 1
  BY CodeText, Zenon
<1>2. Tile \in Nat
  BY Sizes
<1>3. TailAt(parity, n) = b + 6 + l
  BY DEF TailAt
<1> HIDE DEF b, l, c, e
<1>4. /\ b \in Nat /\ l \in Nat /\ b + 6 + l \in Nat /\ c = (b + 6 + l) + 3 /\ c < e + 1
  BY <1>1, <1>2
<1>5. groups[n].start \in 0..MemSize /\ groups[n].end \in 0..MemSize
  <2>1. groups[n].start \in 0..N /\ groups[n].end \in 0..N
    BY GroupsCover, Zenon DEF IsGroup
  <2>2. N \in Nat /\ MemSize \in Nat /\ N <= MemSize
    <3>1. N \in Nat /\ kTileBytes \in Nat \ {0} /\ MemSize = kTileBytes * N
      BY Sizes, Zenon
    <3>2. PICK d \in Nat : kTileBytes = 1 + d
      <4>1. kTileBytes - 1 \in Nat /\ kTileBytes = 1 + (kTileBytes - 1)
        BY <3>1
      <4> QED BY <4>1
    <3>3. MemSize = N + d * N /\ d * N \in Nat
      BY <3>1, <3>2
    <3> QED BY <3>1, <3>3
  <2> QED BY <2>1, <2>2
<1> QED BY <1>1, <1>3, <1>4, <1>5, Zenon DEF b, l, c, e

LEMMA InGroup ==
  ASSUME NEW parity, NEW n \in 1..G, NEW k \in 0..(8 + BodyLen(parity, groups[n])),
         NEW op, NEW rd, NEW rs1, NEW rs2, NEW rs3, NEW imm,
         Codes(GroupCode(parity, groups[n], Base(parity, n))[k + 1], op, rd, rs1, rs2, rs3, imm)
  PROVE  Holds(parity, Base(parity, n) + k, op, rd, rs1, rs2, rs3, imm)
<1> DEFINE b == Base(parity, n)
           l == BodyLen(parity, groups[n])
           c == Base(parity, n + 1)
           t == TailAt(parity, n)
           size == Len(Text(parity))
<1>1. b \in Nat /\ l \in Nat /\ t = b + 6 + l /\ c = t + 3 /\ c < size
  BY GroupPlace, Zenon
<1>2. k \in 0..(8 + l)
  OBVIOUS
<1>3. size \in Nat
  BY CodeText
<1>4. \A j \in 1..(9 + l) : Text(parity)[b + j] = GroupCode(parity, groups[n], b)[j]
  BY CodeText, Zenon
<1> HIDE DEF b, l, c, t, size
<1>5. k + 1 \in 1..(9 + l) /\ b + k \in Nat /\ (b + k) + 1 = b + (k + 1) /\ b + k < size
  BY <1>1, <1>2, <1>3
<1>6. Text(parity)[(b + k) + 1] = GroupCode(parity, groups[n], b)[k + 1]
  <2>1. Text(parity)[b + (k + 1)] = GroupCode(parity, groups[n], b)[k + 1]
    BY <1>4, <1>5, Zenon
  <2> QED BY <1>5, <2>1
<1> QED BY <1>5, <1>6, Zenon DEF Holds, b, size

LEMMA InHead ==
  ASSUME NEW parity, NEW n \in 1..G
  PROVE  LET b == Base(parity, n)
         IN  /\ Holds(parity, b, Op.LI, SR.T, 0, 0, 0, groups[n].start)
             /\ Holds(parity, b + 1, Op.LI, SR.END, 0, 0, 0, groups[n].end)
             /\ Holds(parity, b + 2, Op.MUL, SR.SRC, SR.T, SR.TSTR, 0, 0)
             /\ Holds(parity, b + 3, Op.ADD, SR.DST, SR.SRC, SR.DISP, 0, 0)
             /\ Holds(parity, b + 4, Op.ADDI, SR.ABOVE, SR.SRC, 0, 0, -TileRowStride)
             /\ Holds(parity, b + 5, Op.ADDI, SR.BELOW, SR.SRC, 0, 0, TileRowStride)
<1> DEFINE b == Base(parity, n)
           g == groups[n]
           w == GroupCode(parity, g, b)
           l == BodyLen(parity, g)
<1>1. b \in Nat /\ l \in Nat /\ g.start \in 0..MemSize /\ g.end \in 0..MemSize
  BY GroupPlace, Zenon
<1>2. b \in 0..(18 * Tile + 22)
  <2>1. b \in 4..(18 * Tile + 22)
    BY GroupPlace, Zenon
  <2> HIDE DEF b
  <2> QED BY <2>1
<1>3. /\ Codes(w[1], Op.LI, SR.T, 0, 0, 0, g.start)
      /\ Codes(w[2], Op.LI, SR.END, 0, 0, 0, g.end)
      /\ Codes(w[3], Op.MUL, SR.SRC, SR.T, SR.TSTR, 0, 0)
      /\ Codes(w[4], Op.ADD, SR.DST, SR.SRC, SR.DISP, 0, 0)
      /\ Codes(w[5], Op.ADDI, SR.ABOVE, SR.SRC, 0, 0, -TileRowStride)
      /\ Codes(w[6], Op.ADDI, SR.BELOW, SR.SRC, 0, 0, TileRowStride)
  <2> HIDE DEF b, g
  <2> QED BY <1>1, <1>2, GroupText, Zenon
<1>4. /\ 0 \in 0..(8 + l) /\ 1 \in 0..(8 + l) /\ 2 \in 0..(8 + l) /\ 3 \in 0..(8 + l)
      /\ 4 \in 0..(8 + l) /\ 5 \in 0..(8 + l)
      /\ 0 + 1 = 1 /\ 1 + 1 = 2 /\ 2 + 1 = 3 /\ 3 + 1 = 4 /\ 4 + 1 = 5 /\ 5 + 1 = 6
      /\ b + 0 = b
  <2> HIDE DEF b, l
  <2> QED BY <1>1
<1>5. \A k \in 0..(8 + l) : \A op, rd, rs1, rs2, rs3, imm :
        Codes(w[k + 1], op, rd, rs1, rs2, rs3, imm)
          => Holds(parity, b + k, op, rd, rs1, rs2, rs3, imm)
  BY InGroup, Zenon
<1> HIDE DEF b, w, l, g
<1>6. /\ Holds(parity, b, Op.LI, SR.T, 0, 0, 0, g.start)
      /\ Holds(parity, b + 1, Op.LI, SR.END, 0, 0, 0, g.end)
      /\ Holds(parity, b + 2, Op.MUL, SR.SRC, SR.T, SR.TSTR, 0, 0)
      /\ Holds(parity, b + 3, Op.ADD, SR.DST, SR.SRC, SR.DISP, 0, 0)
      /\ Holds(parity, b + 4, Op.ADDI, SR.ABOVE, SR.SRC, 0, 0, -TileRowStride)
      /\ Holds(parity, b + 5, Op.ADDI, SR.BELOW, SR.SRC, 0, 0, TileRowStride)
  BY <1>3, <1>4, <1>5, Zenon
<1> QED BY <1>6, Zenon DEF b, g

LEMMA InTail ==
  ASSUME NEW parity, NEW n \in 1..G
  PROVE  LET t == TailAt(parity, n)
         IN  /\ Holds(parity, t, Op.ADDI, SR.T, SR.T, 0, 0, 1)
             /\ Holds(parity, t + 1, Op.CMPLT, SR.COND, SR.T, SR.END, 0, 0)
             /\ Holds(parity, t + 2, Op.BNZ, 0, SR.COND, 0, 0, Base(parity, n) + 2)
<1> DEFINE b == Base(parity, n)
           g == groups[n]
           w == GroupCode(parity, g, b)
           l == BodyLen(parity, g)
           t == TailAt(parity, n)
<1>1. b \in Nat /\ l \in Nat /\ t = b + 6 + l /\ g.start \in 0..MemSize /\ g.end \in 0..MemSize
  BY GroupPlace, Zenon
<1>2. b \in 0..(18 * Tile + 22)
  <2>1. b \in 4..(18 * Tile + 22)
    BY GroupPlace, Zenon
  <2> HIDE DEF b
  <2> QED BY <2>1
<1>3. /\ Codes(w[7 + l], Op.ADDI, SR.T, SR.T, 0, 0, 1)
      /\ Codes(w[8 + l], Op.CMPLT, SR.COND, SR.T, SR.END, 0, 0)
      /\ Codes(w[9 + l], Op.BNZ, 0, SR.COND, 0, 0, b + 2)
  <2> HIDE DEF b, g
  <2> QED BY <1>1, <1>2, GroupText, Zenon
<1>4. \A k \in 0..(8 + l) : \A op, rd, rs1, rs2, rs3, imm :
        Codes(w[k + 1], op, rd, rs1, rs2, rs3, imm)
          => Holds(parity, b + k, op, rd, rs1, rs2, rs3, imm)
  BY InGroup, Zenon
<1> HIDE DEF b, w, l, t
<1>5. /\ 6 + l \in 0..(8 + l) /\ 7 + l \in 0..(8 + l) /\ 8 + l \in 0..(8 + l)
      /\ (6 + l) + 1 = 7 + l /\ (7 + l) + 1 = 8 + l /\ (8 + l) + 1 = 9 + l
      /\ b + (6 + l) = t /\ b + (7 + l) = t + 1 /\ b + (8 + l) = t + 2
  BY <1>1
<1>6. /\ Holds(parity, t, Op.ADDI, SR.T, SR.T, 0, 0, 1)
      /\ Holds(parity, t + 1, Op.CMPLT, SR.COND, SR.T, SR.END, 0, 0)
      /\ Holds(parity, t + 2, Op.BNZ, 0, SR.COND, 0, 0, b + 2)
  BY <1>3, <1>4, <1>5, Zenon
<1> QED BY <1>6, Zenon DEF b, t

LEMMA AtTheEnd ==
  ASSUME NEW parity
  PROVE  EndAt(parity) \in Nat /\ Holds(parity, EndAt(parity), Op.HALT, 0, 0, 0, 0, 0)
<1> DEFINE e == Base(parity, G + 1)
<1>1. /\ e \in Nat /\ Len(Text(parity)) = e + 1
      /\ Codes(Text(parity)[e + 1], Op.HALT, 0, 0, 0, 0, 0)
  BY CodeText, Zenon
<1> HIDE DEF e
<1>2. e < e + 1
  BY <1>1
<1> QED BY <1>1, <1>2, Zenon DEF EndAt, Holds, e

\* The first row follows the head of the loop, the tail follows the last one.
LEMMA RowPlaces ==
  ASSUME NEW parity, NEW n \in 1..G
  PROVE  /\ RowAt(parity, n, 0) = Base(parity, n) + 6
         /\ RowAt(parity, n, Tile) = TailAt(parity, n)
         /\ \A ly \in Edge : RowAt(parity, n, ly) \in Nat
<1> DEFINE above == groups[n].hasAbove
           below == groups[n].hasBelow
           rows == BodyRows(parity, above, below)
<1>1. /\ Len(rows[0]) = 0 /\ emitTileBody(parity, above, below) = rows[Tile]
      /\ \A k \in 0..Tile : Len(rows[k]) \in 0..(9 * k)
  BY BodyText
<1>2. BodyLen(parity, groups[n]) = Len(rows[Tile])
  BY <1>1, Zenon DEF BodyLen
<1>3. \A ly : RowAt(parity, n, ly) = Base(parity, n) + 6 + Len(rows[ly])
  BY DEF RowAt
<1> HIDE DEF rows
<1>4. Base(parity, n) \in Nat
  BY GroupPlace, Zenon
<1>5. RowAt(parity, n, 0) = Base(parity, n) + 6
  BY <1>1, <1>3, <1>4
<1>6. RowAt(parity, n, Tile) = TailAt(parity, n)
  BY <1>2, <1>3, Zenon DEF TailAt
<1>7. ASSUME NEW ly \in Edge PROVE RowAt(parity, n, ly) \in Nat
  <2>1. ly \in 0..Tile
    BY Sizes DEF Edge
  <2>2. Len(rows[ly]) \in 0..(9 * ly)
    BY <1>1, <2>1, Zenon
  <2> DEFINE k == Len(rows[ly])
  <2>3. k \in Nat
    <3> HIDE DEF k
    <3> QED BY <2>1, <2>2 DEF k
  <2> HIDE DEF k
  <2>4. Base(parity, n) + 6 + k \in Nat
    BY <1>4, <2>3
  <2> QED BY <1>3, <2>4, Zenon DEF k
<1> QED BY <1>5, <1>6, <1>7, Zenon

\* Where the row ly stands in the text of group n.
LEMMA RowInGroup ==
  ASSUME NEW parity, NEW n \in 1..G, NEW ly \in Edge
  PROVE  LET r   == RowAt(parity, n, ly)
             row == RowOf(parity, groups[n], ly)
         IN  /\ r \in Nat /\ RowAt(parity, n, ly + 1) = r + Len(row) /\ Len(row) \in {2, 9}
             /\ \A k \in 0..(Len(row) - 1) : \A op, rd, rs1, rs2, rs3, imm :
                  Codes(row[k + 1], op, rd, rs1, rs2, rs3, imm)
                    => Holds(parity, r + k, op, rd, rs1, rs2, rs3, imm)
<1> DEFINE above == groups[n].hasAbove
           below == groups[n].hasBelow
           rows == BodyRows(parity, above, below)
           row  == RowOf(parity, groups[n], ly)
           s == Len(rows[ly])
           m == Len(row)
           b == Base(parity, n)
           r == RowAt(parity, n, ly)
           l == BodyLen(parity, groups[n])
           g == GroupCode(parity, groups[n], b)
<1>1. row = emitRow(parity, ly, above, below)
  BY DEF RowOf
<1>2. /\ ly \in 0..Tile /\ ly + 1 \in 0..Tile /\ Tile \in 0..Tile /\ Tile \in Nat
  BY Sizes DEF Edge
<1>3. /\ emitTileBody(parity, above, below) = rows[Tile]
      /\ s \in 0..(9 * ly) /\ Len(rows[ly + 1]) <= Len(rows[Tile])
      /\ Len(rows[Tile]) \in 0..(9 * Tile)
      /\ Len(rows[ly + 1]) = s + m
      /\ \A k \in 1..m : rows[Tile][s + k] = row[k]
  <2>1. /\ emitTileBody(parity, above, below) = rows[Tile]
        /\ \A k \in 0..Tile : Len(rows[k]) \in 0..(9 * k) /\ Len(rows[k]) <= Len(rows[Tile])
    BY BodyText
  <2>2. \A y \in Edge :
           /\ Len(rows[y + 1]) = Len(rows[y]) + Len(emitRow(parity, y, above, below))
           /\ \A k \in 1..Len(emitRow(parity, y, above, below)) :
                rows[Tile][Len(rows[y]) + k] = emitRow(parity, y, above, below)[k]
    <3> HIDE DEF above, below
    <3> QED BY BodyText
  <2> HIDE DEF rows
  <2> QED BY <1>1, <1>2, <2>1, <2>2, Zenon
<1>4. m \in {2, 9}
  BY <1>1, RowType, Zenon
<1>5. l = Len(rows[Tile]) /\ r = b + 6 + s /\ RowAt(parity, n, ly + 1) = b + 6 + Len(rows[ly + 1])
  BY <1>3, Zenon DEF BodyLen, RowAt
<1>6. b \in Nat /\ b \in 0..(18 * Tile + 22)
      /\ groups[n].start \in 0..MemSize /\ groups[n].end \in 0..MemSize
  <2>1. b \in 4..(18 * Tile + 22)
    BY GroupPlace, Zenon
  <2>2. b \in Nat /\ groups[n].start \in 0..MemSize /\ groups[n].end \in 0..MemSize
    BY GroupPlace, Zenon
  <2> HIDE DEF b
  <2> QED BY <2>1, <2>2
<1>7. \A k \in 1..l : g[6 + k] = rows[Tile][k]
  <2>1. \A k \in 1..l : g[6 + k] = emitTileBody(parity, above, below)[k]
    <3> DEFINE gr == groups[n]
    <3>1. gr.start \in 0..MemSize /\ gr.end \in 0..MemSize
      BY <1>6, Zenon
    <3> HIDE DEF gr, b
    <3>2. \A k \in 1..BodyLen(parity, gr) :
             GroupCode(parity, gr, b)[6 + k] = emitTileBody(parity, gr.hasAbove, gr.hasBelow)[k]
      <4>1. b \in 0..(18 * Tile + 22)
        BY <1>6, Zenon
      <4> QED BY <3>1, <4>1, GroupText
    <3> QED BY <3>2, Zenon DEF gr
  <2> QED BY <1>3, <2>1, Zenon
<1>8. \A k \in 0..(8 + l) : \A op, rd, rs1, rs2, rs3, imm :
        Codes(g[k + 1], op, rd, rs1, rs2, rs3, imm)
          => Holds(parity, b + k, op, rd, rs1, rs2, rs3, imm)
  BY InGroup, Zenon
<1> HIDE DEF rows, row, s, m, b, r, l, g
<1> DEFINE e == Len(rows[ly + 1])
           z == Len(rows[Tile])
<1>9. s \in Nat /\ m \in Nat /\ e = s + m /\ e <= z /\ z \in Nat /\ l = z
      /\ r = b + 6 + s /\ RowAt(parity, n, ly + 1) = b + 6 + e
  <2>1. /\ s \in 0..(9 * ly) /\ e <= z /\ z \in 0..(9 * Tile) /\ e = s + m /\ l = z
        /\ r = b + 6 + s /\ RowAt(parity, n, ly + 1) = b + 6 + e
    BY <1>3, <1>5, Zenon
  <2> HIDE DEF e, z
  <2> QED BY <1>2, <1>4, <2>1
<1> HIDE DEF e, z
<1>10. r \in Nat /\ RowAt(parity, n, ly + 1) = r + m
  BY <1>6, <1>9
<1>11. ASSUME NEW k \in 0..(m - 1), NEW op, NEW rd, NEW rs1, NEW rs2, NEW rs3, NEW imm,
              Codes(row[k + 1], op, rd, rs1, rs2, rs3, imm)
       PROVE  Holds(parity, r + k, op, rd, rs1, rs2, rs3, imm)
  <2> DEFINE j == 6 + s + k
  <2>1. /\ k + 1 \in 1..m /\ s + (k + 1) \in 1..l /\ j \in 0..(8 + l)
        /\ 6 + (s + (k + 1)) = j + 1 /\ b + j = r + k
    BY <1>6, <1>9
  <2> HIDE DEF j
  <2>2. rows[Tile][s + (k + 1)] = row[k + 1]
    BY <1>3, <2>1, Zenon
  <2>3. g[6 + (s + (k + 1))] = rows[Tile][s + (k + 1)]
    BY <1>7, <2>1, Zenon
  <2>4. g[j + 1] = row[k + 1]
    BY <2>1, <2>2, <2>3
  <2>5. Codes(g[j + 1], op, rd, rs1, rs2, rs3, imm)
    BY <1>11, <2>4, Zenon
  <2>6. Holds(parity, b + j, op, rd, rs1, rs2, rs3, imm)
    BY <1>8, <2>1, <2>5, Zenon
  <2> QED BY <2>1, <2>6
<1> QED BY <1>4, <1>10, <1>11, Zenon DEF r, row, m

LEMMA InCopiedRow ==
  ASSUME NEW parity, NEW n \in 1..G, NEW ly \in Edge,
         IsCopied(parity, ly, groups[n].hasAbove, groups[n].hasBelow)
  PROVE  LET r == RowAt(parity, n, ly)
         IN  /\ r \in Nat /\ RowAt(parity, n, ly + 1) = r + 2
             /\ Holds(parity, r, Op.VLD, VR.A, SR.SRC, 0, 0, ly * Tile)
             /\ Holds(parity, r + 1, Op.VST, VR.A, SR.DST, 0, 0, ly * Tile)
<1> DEFINE r   == RowAt(parity, n, ly)
           row == RowOf(parity, groups[n], ly)
<1>1. row = emitRow(parity, ly, groups[n].hasAbove, groups[n].hasBelow)
  BY DEF RowOf
<1>2. /\ Len(row) = 2
      /\ Codes(row[1], Op.VLD, VR.A, SR.SRC, 0, 0, ly * Tile)
      /\ Codes(row[2], Op.VST, VR.A, SR.DST, 0, 0, ly * Tile)
  BY <1>1, CopiedRow, Zenon
<1>3. /\ r \in Nat /\ RowAt(parity, n, ly + 1) = r + Len(row)
      /\ \A k \in 0..(Len(row) - 1) : \A op, rd, rs1, rs2, rs3, imm :
           Codes(row[k + 1], op, rd, rs1, rs2, rs3, imm)
             => Holds(parity, r + k, op, rd, rs1, rs2, rs3, imm)
  BY RowInGroup, Zenon
<1> HIDE DEF r, row
<1>4. 0 \in 0..(2 - 1) /\ 1 \in 0..(2 - 1) /\ 0 + 1 = 1 /\ 1 + 1 = 2 /\ r + 0 = r
  BY <1>3
<1>5. /\ Holds(parity, r, Op.VLD, VR.A, SR.SRC, 0, 0, ly * Tile)
      /\ Holds(parity, r + 1, Op.VST, VR.A, SR.DST, 0, 0, ly * Tile)
  BY <1>2, <1>3, <1>4, Zenon
<1> QED BY <1>2, <1>3, <1>5, Zenon DEF r

LEMMA InPairedRow ==
  ASSUME NEW parity, NEW n \in 1..G, NEW ly \in Edge,
         ~IsCopied(parity, ly, groups[n].hasAbove, groups[n].hasBelow)
  PROVE  LET r  == RowAt(parity, n, ly)
             up == ly % 2 = parity
         IN  /\ r \in Nat /\ RowAt(parity, n, ly + 1) = r + 9
             /\ Holds(parity, r, Op.VLD, VR.A, BaseA(parity, ly), 0, 0, OffA(parity, ly))
             /\ Holds(parity, r + 1, Op.VLD, VR.B, BaseB(parity, ly), 0, 0, OffB(parity, ly))
             /\ Holds(parity, r + 2, Op.VSHUF, VR.T0, VR.LUT, VR.A, 0, 0)
             /\ Holds(parity, r + 3, Op.VSHUF, VR.T1, VR.LUT, VR.B, 0, 0)
             /\ Holds(parity, r + 4, Op.VCMPGT, VR.MASK, VR.T0, VR.T1, 0, 0)
             /\ Holds(parity, r + 5, Op.VCMPEQ, VR.WALL_CMP, VR.A, VR.WALL, 0, 0)
             /\ Holds(parity, r + 6, Op.VANDN, VR.MASK, VR.WALL_CMP, VR.MASK, 0, 0)
             /\ up => Holds(parity, r + 7, Op.VBLEND, VR.T0, VR.A, VR.B, VR.MASK, 0)
             /\ ~up => Holds(parity, r + 7, Op.VBLEND, VR.T0, VR.B, VR.A, VR.MASK, 0)
             /\ Holds(parity, r + 8, Op.VST, VR.T0, SR.DST, 0, 0, ly * Tile)
<1> DEFINE r   == RowAt(parity, n, ly)
           row == RowOf(parity, groups[n], ly)
           up  == ly % 2 = parity
<1>1. row = emitRow(parity, ly, groups[n].hasAbove, groups[n].hasBelow)
  BY DEF RowOf
<1>2. /\ Len(row) = 9
      /\ Codes(row[1], Op.VLD, VR.A, BaseA(parity, ly), 0, 0, OffA(parity, ly))
      /\ Codes(row[2], Op.VLD, VR.B, BaseB(parity, ly), 0, 0, OffB(parity, ly))
      /\ Codes(row[3], Op.VSHUF, VR.T0, VR.LUT, VR.A, 0, 0)
      /\ Codes(row[4], Op.VSHUF, VR.T1, VR.LUT, VR.B, 0, 0)
      /\ Codes(row[5], Op.VCMPGT, VR.MASK, VR.T0, VR.T1, 0, 0)
      /\ Codes(row[6], Op.VCMPEQ, VR.WALL_CMP, VR.A, VR.WALL, 0, 0)
      /\ Codes(row[7], Op.VANDN, VR.MASK, VR.WALL_CMP, VR.MASK, 0, 0)
      /\ up => Codes(row[8], Op.VBLEND, VR.T0, VR.A, VR.B, VR.MASK, 0)
      /\ ~up => Codes(row[8], Op.VBLEND, VR.T0, VR.B, VR.A, VR.MASK, 0)
      /\ Codes(row[9], Op.VST, VR.T0, SR.DST, 0, 0, ly * Tile)
  BY <1>1, PairedRow, Zenon
<1>3. /\ r \in Nat /\ RowAt(parity, n, ly + 1) = r + Len(row)
      /\ \A k \in 0..(Len(row) - 1) : \A op, rd, rs1, rs2, rs3, imm :
           Codes(row[k + 1], op, rd, rs1, rs2, rs3, imm)
             => Holds(parity, r + k, op, rd, rs1, rs2, rs3, imm)
  BY RowInGroup, Zenon
<1> HIDE DEF r, row, up
<1> DEFINE S == 0..(9 - 1)
<1>4. /\ 0 \in S /\ 1 \in S /\ 2 \in S /\ 3 \in S /\ 4 \in S /\ 5 \in S
      /\ 6 \in S /\ 7 \in S /\ 8 \in S
  OBVIOUS
<1>5. /\ 0 + 1 = 1 /\ 1 + 1 = 2 /\ 2 + 1 = 3 /\ 3 + 1 = 4 /\ 4 + 1 = 5 /\ 5 + 1 = 6
      /\ 6 + 1 = 7 /\ 7 + 1 = 8 /\ 8 + 1 = 9 /\ r + 0 = r
  BY <1>3
<1>6. \A k \in S : \A op, rd, rs1, rs2, rs3, imm :
        Codes(row[k + 1], op, rd, rs1, rs2, rs3, imm)
          => Holds(parity, r + k, op, rd, rs1, rs2, rs3, imm)
  BY <1>2, <1>3, Zenon
<1> HIDE DEF S
<1>7. /\ Holds(parity, r, Op.VLD, VR.A, BaseA(parity, ly), 0, 0, OffA(parity, ly))
      /\ Holds(parity, r + 1, Op.VLD, VR.B, BaseB(parity, ly), 0, 0, OffB(parity, ly))
      /\ Holds(parity, r + 2, Op.VSHUF, VR.T0, VR.LUT, VR.A, 0, 0)
      /\ Holds(parity, r + 3, Op.VSHUF, VR.T1, VR.LUT, VR.B, 0, 0)
      /\ Holds(parity, r + 4, Op.VCMPGT, VR.MASK, VR.T0, VR.T1, 0, 0)
  BY <1>2, <1>4, <1>5, <1>6, Zenon
<1>8. /\ Holds(parity, r + 5, Op.VCMPEQ, VR.WALL_CMP, VR.A, VR.WALL, 0, 0)
      /\ Holds(parity, r + 6, Op.VANDN, VR.MASK, VR.WALL_CMP, VR.MASK, 0, 0)
      /\ up => Holds(parity, r + 7, Op.VBLEND, VR.T0, VR.A, VR.B, VR.MASK, 0)
      /\ ~up => Holds(parity, r + 7, Op.VBLEND, VR.T0, VR.B, VR.A, VR.MASK, 0)
      /\ Holds(parity, r + 8, Op.VST, VR.T0, SR.DST, 0, 0, ly * Tile)
  BY <1>2, <1>4, <1>5, <1>6, Zenon
<1> QED BY <1>2, <1>3, <1>7, <1>8, Zenon DEF r, up

-----------------------------------------------------------------------------
(* What the machine does with an instruction it can fetch.                 *)

Fetches(op, rd, rs1, rs2, rs3, imm) ==
  /\ Fetched.op = op /\ Fetched.rd = rd /\ Fetched.rs1 = rs1 /\ Fetched.rs2 = rs2
  /\ Fetched.rs3 = rs3 /\ Fetched.imm = imm

LEMMA KernelNames ==
  ASSUME IsKernel, program \in DOMAIN Programs
  PROVE  /\ ParityOf(program) \in 0..1
         /\ Programs[program] = Text(ParityOf(program))
<1>1. DOMAIN Kernels = {"parity0", "parity1"}
  BY DEF Kernels
<1>2. Kernels.parity0 = Text(0) /\ Kernels.parity1 = Text(1)
  BY DEF Kernels, Text
<1>3. KernelFor(0) = "parity0" /\ KernelFor(1) = "parity1"
  BY DEF KernelFor
<1>4. Programs[program] = Kernels[program]
  BY KernelAssumption, Zenon DEF IsKernel
<1>5. ParityOf(program) \in 0..1 /\ KernelFor(ParityOf(program)) = program
  <2>1. \E parity \in 0..1 : KernelFor(parity) = program
    <3>1. 0 \in 0..1 /\ 1 \in 0..1
      OBVIOUS
    <3>2. program = "parity0" \/ program = "parity1"
      BY <1>1, Zenon DEF IsKernel
    <3> QED BY <1>3, <3>1, <3>2, Zenon
  <2> QED BY <2>1, Zenon DEF ParityOf
<1>6. ParityOf(program) = 0 \/ ParityOf(program) = 1
  BY <1>5
<1>7. CASE ParityOf(program) = 0
  <2>1. program = "parity0"
    BY <1>3, <1>5, <1>7, Zenon
  <2> QED BY <1>2, <1>4, <1>5, <1>7, <2>1
<1>8. CASE ParityOf(program) = 1
  <2>1. program = "parity1"
    BY <1>3, <1>5, <1>8, Zenon
  <2> QED BY <1>2, <1>4, <1>5, <1>8, <2>1
<1> QED BY <1>6, <1>7, <1>8

LEMMA FetchesHeld ==
  ASSUME IsKernel, program \in DOMAIN Programs,
         NEW op, NEW rd, NEW rs1, NEW rs2, NEW rs3, NEW imm,
         Holds(ParityOf(program), pc, op, rd, rs1, rs2, rs3, imm)
  PROVE  pc \in Nat /\ pc < Length /\ Fetches(op, rd, rs1, rs2, rs3, imm)
<1>1. Programs[program] = Text(ParityOf(program))
  BY KernelNames
<1>2. Length = Len(Text(ParityOf(program)))
  BY <1>1, Zenon DEF Length
<1>3. Fetched = decode(Text(ParityOf(program))[pc + 1])
  BY <1>1, Zenon DEF Fetched
<1> QED BY <1>2, <1>3, Zenon DEF Holds, Codes, Fetches

\* The instruction decides the action.
LEMMA ActionOf ==
  ASSUME Typed, Fetchable, Execute
  PROVE  /\ Fetched.op \in ScalarOps => Scalar
         /\ Fetched.op \in VectorOps => Vector
         /\ Fetched.op = Op.VLD => Load \/ AccessFault
         /\ Fetched.op = Op.VST => Store \/ AccessFault
         /\ Fetched.op = Op.BNZ => Branch
         /\ Fetched.op = Op.HALT => Halt
<1> DEFINE op == Fetched.op
<1>1. ~Stop
  <2>1. pc \in Nat /\ pc < Length /\ res.instructions < budget
    BY DEF Fetchable, Typed
  <2>2. res.instructions \in Nat /\ budget \in Nat
    BY MachineAssumption DEF Typed, NoCounts
  <2>3. Length \in Nat
    BY ProgramsAssumption DEF Typed, Length
  <2> QED BY <2>1, <2>2, <2>3 DEF Stop
<1>2. /\ Halt => op = Op.HALT
      /\ Nop => op = Op.NOP
      /\ Scalar => op \in ScalarOps
      /\ Branch => op \in {Op.BNZ, Op.BZ, Op.JMP}
      /\ Load => op = Op.VLD
      /\ Store => op = Op.VST
      /\ AccessFault => op \in {Op.VLD, Op.VST}
      /\ Vector => op \in VectorOps
      /\ Illegal => \A name \in DOMAIN Op : Op[name] # op
  BY DEF Halt, Nop, Scalar, Branch, Load, Store, AccessFault, Vector, Illegal
<1> HIDE DEF op
<1>3. Illegal =>
        op \notin {Op.HALT, Op.VLD, Op.VST, Op.BNZ} \cup ScalarOps \cup VectorOps
  BY <1>2 DEF Op, ScalarOps, VectorOps
<1>4. Execute
  OBVIOUS
<1>5. op \in ScalarOps => Scalar
  <2> SUFFICES ASSUME op \in ScalarOps PROVE Scalar
    OBVIOUS
  <2>1. /\ op # Op.HALT /\ op # Op.NOP /\ op \notin {Op.BNZ, Op.BZ, Op.JMP}
        /\ op \notin {Op.VLD, Op.VST} /\ op \notin VectorOps
    BY DEF ScalarOps, VectorOps, Op
  <2> QED BY <1>1, <1>2, <1>3, <1>4, <2>1 DEF Execute
<1>6. op \in VectorOps => Vector
  <2> SUFFICES ASSUME op \in VectorOps PROVE Vector
    OBVIOUS
  <2>1. /\ op # Op.HALT /\ op # Op.NOP /\ op \notin {Op.BNZ, Op.BZ, Op.JMP}
        /\ op \notin {Op.VLD, Op.VST} /\ op \notin ScalarOps
    BY DEF ScalarOps, VectorOps, Op
  <2> QED BY <1>1, <1>2, <1>3, <1>4, <2>1 DEF Execute
<1>7. /\ op = Op.VLD => Load \/ AccessFault
      /\ op = Op.VST => Store \/ AccessFault
  <2>1. op \in {Op.VLD, Op.VST} =>
          /\ op # Op.HALT /\ op # Op.NOP /\ op \notin {Op.BNZ, Op.BZ, Op.JMP}
          /\ op \notin ScalarOps /\ op \notin VectorOps
    BY DEF ScalarOps, VectorOps, Op
  <2>2. Op.VLD # Op.VST
    BY OpCodes
  <2> QED BY <1>1, <1>2, <1>3, <1>4, <2>1, <2>2 DEF Execute
<1>8. op = Op.BNZ => Branch
  <2>1. op = Op.BNZ =>
          /\ op # Op.HALT /\ op # Op.NOP /\ op \notin {Op.VLD, Op.VST}
          /\ op \notin ScalarOps /\ op \notin VectorOps
    BY DEF ScalarOps, VectorOps, Op
  <2> QED BY <1>1, <1>2, <1>3, <1>4, <2>1 DEF Execute
<1>9. op = Op.HALT => Halt
  <2>1. op = Op.HALT =>
          /\ op \notin {Op.BNZ, Op.BZ, Op.JMP} /\ op # Op.NOP /\ op \notin {Op.VLD, Op.VST}
          /\ op \notin ScalarOps /\ op \notin VectorOps
    BY DEF ScalarOps, VectorOps, Op
  <2> QED BY <1>1, <1>2, <1>3, <1>4, <2>1 DEF Execute
<1> QED BY <1>5, <1>6, <1>7, <1>8, <1>9 DEF op

\* An instruction is retired, and the machine goes on at next.
Moves(next) ==
  /\ pc' = next /\ res'.instructions = res.instructions + 1
  /\ status' = "running" /\ fault' = fault /\ program' = program /\ budget' = budget

LEMMA RetiredOne ==
  ASSUME Typed, NEW in, NEW counter \in {"scalarOps", "vectorAluOps", "vectorMemOps", "branches"}
  PROVE  Retired(in, counter).instructions = res.instructions + 1
<1>1. "instructions" \in DOMAIN res /\ counter # "instructions"
  BY DEF Typed, NoCounts
<1> DEFINE stalls == IssueAt(in) - now
<1>2. Retired(in, counter) = [res EXCEPT !.instructions = @ + 1,
                                         !.stallCycles = @ + stalls, ![counter] = @ + 1]
  BY DEF Retired
<1> HIDE DEF stalls
<1> QED BY <1>1, <1>2

LEMMA ScalarMoves ==
  ASSUME Typed, Fetchable, Execute, Fetched.op \in ScalarOps, Fetched.rd \in Sregs
  PROVE  /\ Moves(pc + 1) /\ mem' = mem /\ vregs' = vregs
         /\ sregs'[Fetched.rd] = ScalarResult(Fetched)
         /\ \A r \in Sregs : r # Fetched.rd => sregs'[r] = sregs[r]
<1>1. Scalar
  BY ActionOf
<1>2. /\ sregs' = [sregs EXCEPT ![Fetched.rd] = ScalarResult(Fetched)]
      /\ NextSlot(Fetched) /\ res' = Retired(Fetched, "scalarOps")
      /\ mem' = mem /\ vregs' = vregs /\ CarryOn /\ Fixed
  BY <1>1 DEF Scalar
<1>3. Retired(Fetched, "scalarOps").instructions = res.instructions + 1
  BY RetiredOne
<1>4. Moves(pc + 1)
  BY <1>2, <1>3 DEF Moves, NextSlot, CarryOn, Fixed, Fetchable
<1>5. sregs \in [Sregs -> Words]
  BY DEF Typed
<1> QED BY <1>2, <1>4, <1>5

LEMMA VectorMoves ==
  ASSUME Typed, Fetchable, Execute, Fetched.op \in VectorOps
  PROVE  /\ Moves(pc + 1) /\ mem' = mem /\ sregs' = sregs
         /\ vregs' = [vregs EXCEPT ![Fetched.rd % 8] = VectorResult(Fetched)]
<1>1. Vector
  BY ActionOf
<1>2. /\ vregs' = [vregs EXCEPT ![Fetched.rd % 8] = VectorResult(Fetched)]
      /\ NextSlot(Fetched) /\ res' = Retired(Fetched, "vectorAluOps")
      /\ mem' = mem /\ sregs' = sregs /\ CarryOn /\ Fixed
  BY <1>1 DEF Vector
<1>3. Retired(Fetched, "vectorAluOps").instructions = res.instructions + 1
  BY RetiredOne
<1>4. Moves(pc + 1)
  BY <1>2, <1>3 DEF Moves, NextSlot, CarryOn, Fixed, Fetchable
<1> QED BY <1>2, <1>4

LEMMA LoadMoves ==
  ASSUME Typed, Fetchable, Execute, Fetched.op = Op.VLD,
         checkAccess(Address(Fetched), FALSE) = "None", ~EndWraps(Address(Fetched))
  PROVE  /\ Moves(pc + 1) /\ mem' = mem /\ sregs' = sregs
         /\ vregs' = [vregs EXCEPT ![Fetched.rd % 8] = Row(Address(Fetched))]
<1>1. Op.VLD # Op.VST
  BY OpCodes
<1>2. ~AccessFault
  BY <1>1 DEF AccessFault
<1>3. Load
  BY <1>2, ActionOf
<1>4. /\ vregs' = [vregs EXCEPT ![Fetched.rd % 8] = Row(Address(Fetched))]
      /\ NextSlot(Fetched) /\ res' = Retired(Fetched, "vectorMemOps")
      /\ mem' = mem /\ sregs' = sregs /\ CarryOn /\ Fixed
  BY <1>3 DEF Load, RowsAt
<1>5. Retired(Fetched, "vectorMemOps").instructions = res.instructions + 1
  BY RetiredOne
<1>6. Moves(pc + 1)
  BY <1>4, <1>5 DEF Moves, NextSlot, CarryOn, Fixed, Fetchable
<1> QED BY <1>4, <1>6

LEMMA StoreMoves ==
  ASSUME Typed, Fetchable, Execute, Fetched.op = Op.VST,
         checkAccess(Address(Fetched), TRUE) = "None", ~EndWraps(Address(Fetched))
  PROVE  /\ Moves(pc + 1) /\ sregs' = sregs /\ vregs' = vregs
         /\ mem' = Stored(Address(Fetched), vregs[Fetched.rd % 8])
<1>1. ~AccessFault
  BY DEF AccessFault
<1>2. Store
  BY <1>1, ActionOf
<1>3. /\ mem' = Stored(Address(Fetched), vregs[Fetched.rd % 8])
      /\ NextSlot(Fetched) /\ res' = Retired(Fetched, "vectorMemOps")
      /\ vregs' = vregs /\ sregs' = sregs /\ CarryOn /\ Fixed
  BY <1>2 DEF Store, MemAfter, registers
<1>4. Retired(Fetched, "vectorMemOps").instructions = res.instructions + 1
  BY RetiredOne
<1>5. Moves(pc + 1)
  BY <1>3, <1>4 DEF Moves, NextSlot, CarryOn, Fixed, Fetchable
<1> QED BY <1>3, <1>5

LEMMA BranchMoves ==
  ASSUME Typed, Fetchable, Execute, Fetched.op = Op.BNZ, Fetched.imm \in 0..(Length - 1)
  PROVE  /\ Moves(IF sregs[Fetched.rs1] # 0 THEN Fetched.imm ELSE pc + 1)
         /\ mem' = mem /\ vregs' = vregs /\ sregs' = sregs
<1>1. Branch
  BY ActionOf
<1>2. Taken(Fetched) <=> sregs[Fetched.rs1] # 0
  BY OpCodes DEF Taken, Op
<1>3. /\ pc' = IF Taken(Fetched) THEN Fetched.imm ELSE pc + 1
      /\ res' = Retired(Fetched, "branches") /\ CarryOn /\ Fixed
      /\ mem' = mem /\ vregs' = vregs /\ sregs' = sregs
  BY <1>1 DEF Branch, registers
<1>4. Retired(Fetched, "branches").instructions = res.instructions + 1
  BY RetiredOne
<1>5. Moves(IF sregs[Fetched.rs1] # 0 THEN Fetched.imm ELSE pc + 1)
  BY <1>2, <1>3, <1>4 DEF Moves, CarryOn, Fixed, Fetchable
<1> QED BY <1>3, <1>5

LEMMA HaltStops ==
  ASSUME Typed, Fetchable, Execute, Fetched.op = Op.HALT
  PROVE  /\ status' = "stopped" /\ fault' = "None" /\ mem' = mem /\ vregs' = vregs
         /\ program' = program /\ budget' = budget
<1>1. Halt
  BY ActionOf
<1> QED BY <1>1 DEF Halt, StopWith, Fixed, registers

-----------------------------------------------------------------------------
(* Where the machine stands in a kernel, and what it has done by then: q   *)
(* is the parity of the kernel, s the grid in SRC.                         *)

\* Registers of as many lanes as a vector has.
VectorShape == vregs = [v \in Vregs |-> [i \in Lanes |-> vregs[v][i]]]

HoldsSource(s) == s \in Grids /\ \A a \in 0..(MemSize - 1) : mem[a] = s[CoordOf(a)]

\* The first m bytes of DST hold the result.
Written(q, s, m) ==
  \A a \in 0..(m - 1) : mem[MemSize + a] = verticalCell(s, q, CoordOf(a))

\* At most this many instructions are spent on a tile, and on a kernel.
PerTile     == 9 * Tile + 7
KernelSteps == N * PerTile + 11

\* What has been spent when tile t of group n is under way.
Spent(q, n, t) == res.instructions <= 2 + 2 * n + t * PerTile + (pc - Base(q, n))

TilesOf(n) == groups[n].start..(groups[n].end - 1)

\* What the first k instructions of the prologue have set up.
Prepared(k) ==
  /\ k >= 1 => sregs[SR.TSTR] = kTileBytes
  /\ k >= 2 => sregs[SR.DISP] = MemSize
  /\ k >= 3 => \A i \in Lanes : vregs[VR.LUT][i] = kDensityRom[i % 16]
  /\ k >= 4 => \A i \in Lanes : vregs[VR.WALL][i] = Wall

AtPrologue(k) == pc = k /\ res.instructions <= k /\ Prepared(k)

AtGroup(q, s, n, k) ==
  /\ pc = Base(q, n) + k /\ Spent(q, n, groups[n].start)
  /\ Prepared(4) /\ Written(q, s, groups[n].start * kTileBytes)
  /\ k >= 1 => sregs[SR.T] = groups[n].start

\* What the first k instructions for tile t have set up.
Pointed(n, t, k) ==
  /\ sregs[SR.T] = t /\ sregs[SR.END] = groups[n].end
  /\ k >= 1 => sregs[SR.SRC] = t * kTileBytes
  /\ k >= 2 => sregs[SR.DST] = MemSize + t * kTileBytes
  /\ k >= 3 /\ groups[n].hasAbove => sregs[SR.ABOVE] = (t - tilesX) * kTileBytes
  /\ k >= 4 /\ groups[n].hasBelow => sregs[SR.BELOW] = (t + tilesX) * kTileBytes

AtTile(q, s, n, t, k) ==
  /\ pc = Base(q, n) + 2 + k /\ Spent(q, n, t)
  /\ Prepared(4) /\ Pointed(n, t, k) /\ Written(q, s, t * kTileBytes)

Copied(q, n, ly) == IsCopied(q, ly, groups[n].hasAbove, groups[n].hasBelow)

\* The two cells of the pair that lane i of a row belongs to.
UpperOf(q, t, ly, i) == IF ly % 2 = q THEN CellIn(t, ly, i) ELSE Above(CellIn(t, ly, i))
LowerOf(q, t, ly, i) == IF ly % 2 = q THEN Below(CellIn(t, ly, i)) ELSE CellIn(t, ly, i)

\* What the first j instructions of a row leave in lane i, where u is over l.
Lane(j, i, u, l, result) ==
  /\ j >= 1 => vregs[VR.A][i] = u
  /\ j >= 2 => vregs[VR.B][i] = l
  /\ j \in 3..7 => vregs[VR.T0][i] = densityBiased(u)
  /\ j >= 4 => vregs[VR.T1][i] = densityBiased(l)
  /\ j \in 5..6 => vregs[VR.MASK][i] = Mask(denserThan(u, l))
  /\ j >= 6 => vregs[VR.WALL_CMP][i] = Mask(u = Wall)
  /\ j >= 7 => vregs[VR.MASK][i] = Mask(swapVertical(u, l))
  /\ j = 8 => vregs[VR.T0][i] = result

Paired(q, s, t, ly, j) ==
  \A i \in Lanes : Lane(j, i, s[UpperOf(q, t, ly, i)], s[LowerOf(q, t, ly, i)],
                        verticalCell(s, q, CellIn(t, ly, i)))

\* Row ly of tile t is under way, j of its instructions are done.
InRow(q, s, n, t, ly, j) ==
  /\ pc = RowAt(q, n, ly) + j /\ Spent(q, n, t)
  /\ Prepared(4) /\ Pointed(n, t, 4) /\ Written(q, s, t * kTileBytes + ly * Tile)

AtRow(q, s, n, t, ly, j) ==
  /\ InRow(q, s, n, t, ly, j)
  /\ IF Copied(q, n, ly)
       THEN /\ j <= 1
            /\ j = 1 => \A i \in Lanes : vregs[VR.A][i] = verticalCell(s, q, CellIn(t, ly, i))
       ELSE Paired(q, s, t, ly, j)

AtTail(q, s, n, t, k) ==
  /\ pc = TailAt(q, n) + k /\ Spent(q, n, t)
  /\ Prepared(4) /\ Written(q, s, (t + 1) * kTileBytes)
  /\ sregs[SR.T] = (IF k = 0 THEN t ELSE t + 1) /\ sregs[SR.END] = groups[n].end
  /\ k = 2 => sregs[SR.COND] = (IF t + 1 < groups[n].end THEN 1 ELSE 0)

AtEnd(q, s) ==
  /\ pc = EndAt(q) /\ res.instructions <= N * PerTile + 10
  /\ Written(q, s, MemSize)

Located(q, s) ==
  \/ \E k \in 0..3 : AtPrologue(k)
  \/ \E n \in 1..G : \E k \in 0..1 : AtGroup(q, s, n, k)
  \/ \E n \in 1..G : \E t \in TilesOf(n) : \E k \in 0..3 : AtTile(q, s, n, t, k)
  \/ \E n \in 1..G : \E t \in TilesOf(n) : \E ly \in Edge : \E j \in 0..8 :
       AtRow(q, s, n, t, ly, j)
  \/ \E n \in 1..G : \E t \in TilesOf(n) : \E k \in 0..2 : AtTail(q, s, n, t, k)
  \/ AtEnd(q, s)

\* A kernel runs along its places; it stops at the end, or out of budget.
KernelAt(q, s) ==
  /\ q = ParityOf(program) /\ VectorShape /\ HoldsSource(s)
  /\ status = "running" => Located(q, s)
  /\ status = "stopped" =>
       \/ fault = "None" /\ Written(q, s, MemSize)
       \/ fault = "InstructionLimit" /\ budget < KernelSteps

KernelInv == MachineInv /\ (IsKernel => \E q \in 0..1 : \E s \in Grids : KernelAt(q, s))

-----------------------------------------------------------------------------
(* One instruction of a kernel.                                            *)

\* The machine, about to execute an instruction of the kernel.
Stands(q, s) ==
  /\ MachineInv /\ IsKernel /\ q = ParityOf(program)
  /\ VectorShape /\ HoldsSource(s) /\ Fetchable /\ Execute

LoadsSource == Load => Address(Fetched) + VecBytes <= MemSize

SourceKept == \A a \in 0..(MemSize - 1) : mem'[a] = mem[a]

\* It goes on in the same kernel and with the same source.
Keeps(s) ==
  /\ status' = "running" /\ program' = program /\ VectorShape' /\ HoldsSource(s)'
  /\ LoadsSource

Advances == pc' = pc + 1 /\ res'.instructions = res.instructions + 1

LEMMA StandsWith ==
  ASSUME NEW q, NEW s, Stands(q, s),
         NEW op, NEW rd, NEW rs1, NEW rs2, NEW rs3, NEW imm,
         Holds(q, pc, op, rd, rs1, rs2, rs3, imm)
  PROVE  /\ Typed /\ Fetchable /\ Execute /\ pc \in Nat /\ pc < Length
         /\ Fetched.op = op /\ Fetched.rd = rd /\ Fetched.rs1 = rs1 /\ Fetched.rs2 = rs2
         /\ Fetched.rs3 = rs3 /\ Fetched.imm = imm
         /\ op # Op.VLD => LoadsSource
<1>1. /\ Typed /\ Fetchable /\ Execute /\ IsKernel /\ program \in DOMAIN Programs
      /\ Holds(ParityOf(program), pc, op, rd, rs1, rs2, rs3, imm)
  BY DEF Stands, MachineInv, Typed
<1>2. pc \in Nat /\ pc < Length /\ Fetches(op, rd, rs1, rs2, rs3, imm)
  BY <1>1, FetchesHeld
<1>3. Fetched.op # Op.VLD => LoadsSource
  BY DEF LoadsSource, Load
<1> QED BY <1>1, <1>2, <1>3 DEF Fetches

LEMMA SameSource ==
  ASSUME NEW s, HoldsSource(s), \A a \in 0..(MemSize - 1) : mem'[a] = mem[a]
  PROVE  HoldsSource(s)'
BY DEF HoldsSource

LEMMA ScalarStep ==
  ASSUME NEW q, NEW s, Stands(q, s), NEW op \in ScalarOps, NEW rd \in Sregs,
         NEW rs1, NEW rs2, NEW imm, Holds(q, pc, op, rd, rs1, rs2, 0, imm)
  PROVE  /\ Keeps(s) /\ Advances /\ mem' = mem /\ vregs' = vregs
         /\ \A r \in Sregs : r # rd => sregs'[r] = sregs[r]
         /\ op = Op.LI => sregs'[rd] = imm % WordMod
         /\ op = Op.ADD => sregs'[rd] = (sregs[rs1] + sregs[rs2]) % WordMod
         /\ op = Op.ADDI => sregs'[rd] = (sregs[rs1] + imm) % WordMod
         /\ op = Op.MUL => sregs'[rd] = (sregs[rs1] * sregs[rs2]) % WordMod
         /\ op = Op.CMPLT => sregs'[rd] = IF Signed(sregs[rs1], WordMod) < Signed(sregs[rs2], WordMod)
                                            THEN 1 ELSE 0
<1>1. op # Op.VLD
  BY DEF ScalarOps, Op
<1>2. /\ Typed /\ Fetchable /\ Execute /\ LoadsSource
      /\ Fetched.op = op /\ Fetched.rd = rd /\ Fetched.rs1 = rs1 /\ Fetched.rs2 = rs2
      /\ Fetched.imm = imm
  BY <1>1, StandsWith
<1>3. /\ Moves(pc + 1) /\ mem' = mem /\ vregs' = vregs
      /\ sregs'[rd] = ScalarResult(Fetched)
      /\ \A r \in Sregs : r # rd => sregs'[r] = sregs[r]
  BY <1>2, ScalarMoves
<1>4. VectorShape' /\ HoldsSource(s)'
  BY <1>3, SameSource DEF Stands, VectorShape
<1>5. Keeps(s) /\ Advances
  BY <1>2, <1>3, <1>4 DEF Keeps, Advances, Moves
<1> DEFINE x == sregs[rs1]
           y == sregs[rs2]
<1>6. /\ op = Op.LI => ScalarResult(Fetched) = imm % WordMod
      /\ op = Op.ADD => ScalarResult(Fetched) = (x + y) % WordMod
      /\ op = Op.ADDI => ScalarResult(Fetched) = (x + imm) % WordMod
      /\ op = Op.MUL => ScalarResult(Fetched) = (x * y) % WordMod
      /\ op = Op.CMPLT => ScalarResult(Fetched) = IF Signed(x, WordMod) < Signed(y, WordMod)
                                                    THEN 1 ELSE 0
  BY <1>2 DEF ScalarResult, Op
<1> QED BY <1>3, <1>5, <1>6

\* What a vector instruction leaves in lane i of its destination.
Yields(op, rs1, rs2, rs3, imm, i, r) ==
  LET x == vregs[rs1][i]
      y == vregs[rs2][i]
      z == vregs[rs3][i]
  IN  /\ op = Op.VSHUF => r = vregs[rs1][y % 16]
      /\ op = Op.VCMPGT => r = Mask(Signed(x, 256) > Signed(y, 256))
      /\ op = Op.VCMPEQ => r = Mask(x = y)
      /\ op = Op.VANDN => r = BitAnd(8, 255 - x, y)
      /\ op = Op.VBLEND => r = IF z >= 128 THEN y ELSE x
      /\ op = Op.VBCASTB => r = imm % 256
      /\ op = Op.VDENS => r = kDensityRom[i % 16]

LEMMA VectorStep ==
  ASSUME NEW q, NEW s, Stands(q, s), NEW op \in VectorOps, NEW rd \in Vregs,
         NEW rs1 \in Vregs, NEW rs2 \in Vregs, NEW rs3 \in Vregs, NEW imm,
         Holds(q, pc, op, rd, rs1, rs2, rs3, imm), op = Op.VSHUF => rd # rs1
  PROVE  /\ Keeps(s) /\ Advances /\ mem' = mem /\ sregs' = sregs
         /\ \A v \in Vregs : v # rd => vregs'[v] = vregs[v]
         /\ \A i \in Lanes : Yields(op, rs1, rs2, rs3, imm, i, vregs'[rd][i])
<1>1. op # Op.VLD
  BY DEF VectorOps, Op
<1>2. /\ Typed /\ Fetchable /\ Execute /\ LoadsSource
      /\ Fetched.op = op /\ Fetched.rd = rd /\ Fetched.rs1 = rs1 /\ Fetched.rs2 = rs2
      /\ Fetched.rs3 = rs3 /\ Fetched.imm = imm
  BY <1>1, StandsWith
<1>3. \A v \in Vregs : v % 8 = v
  BY DEF Vregs
<1>4. /\ Moves(pc + 1) /\ mem' = mem /\ sregs' = sregs
      /\ vregs' = [vregs EXCEPT ![rd] = VectorResult(Fetched)]
  BY <1>2, <1>3, VectorMoves
<1> DEFINE Val(i) == IF op = Op.VSHUF THEN vregs[rs1][vregs[rs2][i] % 16]
                     ELSE VectorLane(Fetched, i)
<1>5. VectorShape
  BY DEF Stands
<1>6. VectorResult(Fetched) = [i \in Lanes |-> Val(i)]
  <2>1. CASE op = Op.VSHUF
    <3> DEFINE V == {vregs[rd][i] : i \in Lanes} \cup {vregs[rs1][vregs[rs2][i] % 16] : i \in Lanes}
    <3>1. vregs[rd] \in [Lanes -> V]
      <4>1. vregs[rd] = [i \in Lanes |-> vregs[rd][i]]
        BY <1>5 DEF VectorShape
      <4>2. \A i \in Lanes : vregs[rd][i] \in V
        OBVIOUS
      <4> DEFINE r == vregs[rd]
      <4> HIDE DEF V, r
      <4> QED BY <4>1, <4>2 DEF r
    <3>2. \A i \in Lanes : vregs[rs1][vregs[rs2][i] % 16] \in V
      OBVIOUS
    <3> HIDE DEF V
    <3>3. LooksUp(V, rd, rs1, vregs[rs1], vregs[rs2])
      BY <2>1, <3>2 DEF LooksUp
    <3>4. Fetched.rd % 8 = rd /\ Fetched.rs1 % 8 = rs1 /\ Fetched.rs2 % 8 = rs2
      BY <1>2, <1>3
    <3>5. /\ Shuffled(Fetched) \in [Lanes -> V]
          /\ \A i \in Lanes : Shuffled(Fetched)[i] = vregs[rs1][vregs[rs2][i] % 16]
      BY <2>1, <3>1, <3>3, <3>4, ShuffledIn
    <3>6. VectorResult(Fetched) = Shuffled(Fetched)
      BY <1>2, <2>1 DEF VectorResult
    <3> DEFINE r == Shuffled(Fetched)
    <3>7. r = [i \in Lanes |-> r[i]]
      <4> HIDE DEF r
      <4> QED BY <3>5 DEF r
    <3> HIDE DEF r
    <3> QED BY <2>1, <3>5, <3>6, <3>7 DEF r
  <2>2. CASE op # Op.VSHUF
    BY <1>2, <2>2 DEF VectorResult
  <2> QED BY <2>1, <2>2
<1>7. ASSUME NEW i \in Lanes
      PROVE  Yields(op, rs1, rs2, rs3, imm, i, Val(i))
  <2>1. Fetched.rs1 % 8 = rs1 /\ Fetched.rs2 % 8 = rs2 /\ Fetched.rs3 % 8 = rs3
    BY <1>2, <1>3
  <2> QED BY <1>2, <2>1 DEF VectorLane, Op, Yields
<1> HIDE DEF Val
<1>8. vregs' = [vregs EXCEPT ![rd] = [i \in Lanes |-> Val(i)]]
  BY <1>4, <1>6
<1>9. /\ \A v \in Vregs : v # rd => vregs'[v] = vregs[v]
      /\ vregs'[rd] = [i \in Lanes |-> Val(i)] /\ VectorShape'
  BY <1>5, <1>8 DEF VectorShape
<1>10. Keeps(s) /\ Advances
  <2>1. HoldsSource(s)'
    BY <1>4, SameSource DEF Stands
  <2> QED BY <1>2, <1>4, <1>9, <2>1 DEF Keeps, Advances, Moves
<1> QED BY <1>4, <1>7, <1>9, <1>10

LEMMA LoadStep ==
  ASSUME NEW q, NEW s, Stands(q, s), NEW rd \in Vregs, NEW rs1, NEW imm,
         Holds(q, pc, Op.VLD, rd, rs1, 0, 0, imm),
         NEW addr \in Nat, addr = sregs[rs1] + imm, addr % VecBytes = 0,
         addr + VecBytes <= MemSize
  PROVE  /\ Keeps(s) /\ Advances /\ mem' = mem /\ sregs' = sregs
         /\ \A v \in Vregs : v # rd => vregs'[v] = vregs[v]
         /\ \A i \in Lanes : vregs'[rd][i] = s[CoordOf(addr + i)]
<1>1. /\ Typed /\ Fetchable /\ Execute
      /\ Fetched.op = Op.VLD /\ Fetched.rd = rd /\ Fetched.rs1 = rs1 /\ Fetched.imm = imm
  BY StandsWith
<1>2. rd % 8 = rd
  BY DEF Vregs
<1>3. MemSize \in Nat \ {0} /\ VecBytes \in Nat \ {0}
  BY MachineAssumption
<1>4. /\ Address(Fetched) = addr /\ (addr + VecBytes) % AddrMod = addr + VecBytes
      /\ ~EndWraps(addr)
  <2>1. addr + VecBytes <= 2 * MemSize
    BY <1>3
  <2> QED BY <1>1, <2>1, AddressInImage DEF Address
<1>5. checkAccess(addr, FALSE) = "None"
  BY <1>4, <1>3 DEF checkAccess
<1>6. /\ Moves(pc + 1) /\ mem' = mem /\ sregs' = sregs
      /\ vregs' = [vregs EXCEPT ![rd] = Row(addr)]
  BY <1>1, <1>2, <1>4, <1>5, LoadMoves
<1>7. VectorShape /\ HoldsSource(s)
  BY DEF Stands
<1>8. \A i \in Lanes : Row(addr)[i] = s[CoordOf(addr + i)]
  <2> SUFFICES ASSUME NEW i \in Lanes PROVE Row(addr)[i] = s[CoordOf(addr + i)]
    OBVIOUS
  <2>1. addr + i \in 0..(MemSize - 1)
    BY <1>3 DEF Lanes
  <2> QED BY <1>7, <2>1 DEF HoldsSource, Row
<1>9. /\ \A v \in Vregs : v # rd => vregs'[v] = vregs[v]
      /\ vregs'[rd] = Row(addr) /\ VectorShape'
  BY <1>6, <1>7 DEF VectorShape, Row
<1>10. Keeps(s) /\ Advances
  <2>1. HoldsSource(s)'
    BY <1>6, <1>7, SameSource
  <2>2. LoadsSource
    BY <1>4 DEF LoadsSource
  <2> QED BY <1>6, <1>9, <2>1, <2>2 DEF Keeps, Advances, Moves
<1> QED BY <1>6, <1>8, <1>9, <1>10

LEMMA StoreStep ==
  ASSUME NEW q, NEW s, Stands(q, s), NEW rd \in Vregs, NEW rs1, NEW imm,
         Holds(q, pc, Op.VST, rd, rs1, 0, 0, imm),
         NEW m \in Nat, MemSize + m = sregs[rs1] + imm, (MemSize + m) % VecBytes = 0,
         m + VecBytes <= MemSize, Written(q, s, m),
         \A i \in Lanes : vregs[rd][i] = verticalCell(s, q, CoordOf(m + i))
  PROVE  /\ Keeps(s) /\ Advances /\ sregs' = sregs /\ vregs' = vregs
         /\ Written(q, s, m + VecBytes)'
<1>1. Op.VST # Op.VLD
  BY OpCodes
<1>2. /\ Typed /\ Fetchable /\ Execute /\ LoadsSource
      /\ Fetched.op = Op.VST /\ Fetched.rd = rd /\ Fetched.rs1 = rs1 /\ Fetched.imm = imm
  BY <1>1, StandsWith
<1>3. rd % 8 = rd
  BY DEF Vregs
<1> DEFINE addr == MemSize + m
<1>4. MemSize \in Nat \ {0} /\ VecBytes \in Nat \ {0} /\ addr \in Nat
  BY MachineAssumption
<1>5. /\ Address(Fetched) = addr /\ (addr + VecBytes) % AddrMod = addr + VecBytes
      /\ ~EndWraps(addr)
  <2>1. addr + VecBytes <= 2 * MemSize
    BY <1>4
  <2> QED BY <1>2, <1>4, <2>1, AddressInImage DEF Address
<1>6. checkAccess(addr, TRUE) = "None"
  BY <1>5, <1>4 DEF checkAccess
<1> HIDE DEF addr
<1>7. /\ Moves(pc + 1) /\ sregs' = sregs /\ vregs' = vregs
      /\ mem' = Stored(addr, vregs[rd])
  BY <1>2, <1>3, <1>5, <1>6, StoreMoves
<1>8. \A a \in 0..(MemSize + m - 1) : mem'[a] = mem[a]
  <2> SUFFICES ASSUME NEW a \in 0..(MemSize + m - 1) PROVE mem'[a] = mem[a]
    OBVIOUS
  <2>1. a \in MemAddrs /\ a - addr < 0
    BY <1>4 DEF MemAddrs, addr
  <2>2. a - addr \notin Lanes
    BY <2>1 DEF Lanes
  <2> QED BY <1>7, <2>1, <2>2 DEF Stored
<1>9. \A i \in Lanes : mem'[MemSize + (m + i)] = vregs[rd][i]
  <2> SUFFICES ASSUME NEW i \in Lanes PROVE mem'[MemSize + (m + i)] = vregs[rd][i]
    OBVIOUS
  <2>1. MemSize + (m + i) \in MemAddrs /\ (MemSize + (m + i)) - addr = i
    BY <1>4 DEF MemAddrs, addr, Lanes
  <2> QED BY <1>7, <2>1 DEF Stored
<1>10. Written(q, s, m + VecBytes)'
  <2>1. PICK k \in Nat : k = m + VecBytes
    BY <1>4
  <2>2. ASSUME NEW a \in 0..(k - 1)
        PROVE  mem'[MemSize + a] = verticalCell(s, q, CoordOf(a))
    <3>1. CASE a < m
      <4>1. a \in 0..(m - 1) /\ MemSize + a \in 0..(MemSize + m - 1)
        BY <1>4, <3>1
      <4> QED BY <1>8, <4>1 DEF Written
    <3>2. CASE a >= m
      <4>1. PICK i \in Lanes : a = m + i
        <5>1. a - m \in Lanes /\ a = m + (a - m)
          BY <1>4, <2>1, <3>2 DEF Lanes
        <5> QED BY <5>1
      <4> QED BY <1>9, <4>1
    <3> QED BY <1>4, <2>1, <3>1, <3>2
  <2>3. Written(q, s, k)'
    BY <2>2 DEF Written
  <2> QED BY <2>1, <2>3, Zenon
<1>11. Keeps(s) /\ Advances
  <2>1. \A a \in 0..(MemSize - 1) : mem'[a] = mem[a]
    BY <1>4, <1>8
  <2>2. HoldsSource(s)'
    BY <2>1, SameSource DEF Stands
  <2>3. VectorShape'
    BY <1>7 DEF Stands, VectorShape
  <2> QED BY <1>2, <1>7, <2>2, <2>3 DEF Keeps, Advances, Moves
<1> QED BY <1>7, <1>10, <1>11

LEMMA BranchStep ==
  ASSUME NEW q, NEW s, Stands(q, s), NEW rs1, NEW imm \in Nat,
         Holds(q, pc, Op.BNZ, 0, rs1, 0, 0, imm), imm < pc
  PROVE  /\ Keeps(s) /\ mem' = mem /\ vregs' = vregs /\ sregs' = sregs
         /\ res'.instructions = res.instructions + 1
         /\ pc' = IF sregs[rs1] # 0 THEN imm ELSE pc + 1
<1>1. Op.BNZ # Op.VLD
  BY OpCodes
<1>2. /\ Typed /\ Fetchable /\ Execute /\ LoadsSource /\ pc \in Nat /\ pc < Length
      /\ Fetched.op = Op.BNZ /\ Fetched.rs1 = rs1 /\ Fetched.imm = imm
  BY <1>1, StandsWith
<1>3. Length \in Nat /\ imm \in 0..(Length - 1)
  <2>1. Programs[program] \in Seq([1..16 -> 0..15])
    BY <1>2, ProgramsAssumption DEF Typed
  <2>2. Length \in Nat
    BY <2>1 DEF Length
  <2> QED BY <1>2, <2>2
<1>4. /\ Moves(IF sregs[rs1] # 0 THEN imm ELSE pc + 1)
      /\ mem' = mem /\ vregs' = vregs /\ sregs' = sregs
  BY <1>2, <1>3, BranchMoves
<1>5. VectorShape' /\ HoldsSource(s)'
  BY <1>4, SameSource DEF Stands, VectorShape
<1> QED BY <1>2, <1>4, <1>5 DEF Keeps, Moves

\* Words hold the numbers the kernels compute with.
LEMMA Fits ==
  /\ WordMod \in Nat \ {0}
  /\ \A x \in 0..(2 * MemSize - 1) : x % WordMod = x
  /\ \A x \in 0..(MemSize - 1) : Signed(x, WordMod) = x
<1>1. WordMod \in Nat \ {0} /\ 2 * MemSize <= WordMod /\ MemSize \in Nat
  BY WordModType, KernelAssumption, MachineAssumption
<1>2. \A x \in 0..(2 * MemSize - 1) : x % WordMod = x
  BY <1>1
<1>3. \A x \in 0..(MemSize - 1) : Signed(x, WordMod) = x
  BY <1>1 DEF Signed
<1> QED BY <1>1, <1>2, <1>3

LEMMA RegistersNamed ==
  /\ SR.T \in Sregs /\ SR.END \in Sregs /\ SR.TSTR \in Sregs /\ SR.DISP \in Sregs
  /\ SR.SRC \in Sregs /\ SR.ABOVE \in Sregs /\ SR.BELOW \in Sregs /\ SR.DST \in Sregs
  /\ SR.COND \in Sregs
  /\ VR.A \in Vregs /\ VR.B \in Vregs /\ VR.T0 \in Vregs /\ VR.T1 \in Vregs
  /\ VR.MASK \in Vregs /\ VR.WALL_CMP \in Vregs /\ VR.LUT \in Vregs /\ VR.WALL \in Vregs
BY Registers DEF Sregs, Vregs

LEMMA OpClasses ==
  /\ {Op.LI, Op.ADD, Op.ADDI, Op.MUL, Op.CMPLT} \subseteq ScalarOps
  /\ {Op.VSHUF, Op.VCMPGT, Op.VCMPEQ, Op.VANDN, Op.VBLEND, Op.VBCASTB, Op.VDENS} \subseteq VectorOps
BY DEF ScalarOps, VectorOps

\* The tiles of a group.
LEMMA TileOf ==
  ASSUME NEW n \in 1..G, NEW t \in TilesOf(n)
  PROVE  /\ t \in Nat /\ t \in Tiles /\ groups[n].end \in 0..N /\ t + 1 <= groups[n].end
         /\ groups[n].hasAbove <=> t >= tilesX
         /\ groups[n].hasBelow <=> t < tilesX * (tilesY - 1)
<1>1. IsGroup(groups[n])
  BY GroupsCover
<1>2. N \in Nat /\ Tiles = 0..(N - 1)
  BY Sizes
<1> DEFINE first == groups[n].start
           end   == groups[n].end
<1>3. first \in 0..N /\ end \in 0..N /\ t \in first..(end - 1)
  BY <1>1 DEF IsGroup, TilesOf
<1>4. t \in Nat /\ t \in Tiles /\ t + 1 <= end
  <2> HIDE DEF first, end
  <2> QED BY <1>2, <1>3
<1> QED BY <1>1, <1>3, <1>4 DEF IsGroup, TilesOf

\* The bytes before tile t, and those of the tile.
LEMMA TileBytes ==
  ASSUME NEW t \in Tiles
  PROVE  /\ t \in Nat /\ t < MemSize /\ t + 1 <= MemSize
         /\ t * kTileBytes \in Nat /\ (t + 1) * kTileBytes = t * kTileBytes + kTileBytes
         /\ t * kTileBytes + kTileBytes <= MemSize
<1>1. /\ kTileBytes \in Nat \ {0} /\ N \in Nat \ {0} /\ MemSize = kTileBytes * N
      /\ Tiles = 0..(N - 1)
  BY Sizes
<1> DEFINE B == kTileBytes
<1>2. PICK d \in Nat : N = t + 1 + d
  <2>1. N - (t + 1) \in Nat /\ N = t + 1 + (N - (t + 1))
    BY <1>1
  <2> QED BY <2>1
<1> HIDE DEF B
<1>3. B \in Nat \ {0} /\ MemSize = B * N /\ t \in Nat
  BY <1>1 DEF B
<1>4. MemSize = B * t + B + B * d /\ B * d \in Nat /\ B * t \in Nat
  BY <1>2, <1>3
<1>5. B * (t + 1) >= t + 1 /\ B * (t + 1) = B * t + B
  <2>1. \E c \in Nat : B = 1 + c
    <3>1. B - 1 \in Nat /\ B = 1 + (B - 1)
      BY <1>3
    <3> QED BY <3>1
  <2>2. PICK c \in Nat : B = 1 + c
    BY <2>1
  <2>3. B * (t + 1) = (t + 1) + c * (t + 1) /\ c * (t + 1) \in Nat
    BY <1>3, <2>2
  <2> QED BY <1>3, <2>3
<1>6. t * B = B * t /\ (t + 1) * B = B * (t + 1)
  BY <1>3
<1>7. t \in Nat /\ t < MemSize /\ t + 1 <= MemSize
  BY <1>3, <1>4, <1>5
<1>8. /\ t * B \in Nat /\ (t + 1) * B = t * B + B
      /\ t * B + B <= MemSize
  BY <1>3, <1>4, <1>5, <1>6
<1> QED BY <1>7, <1>8 DEF B

\* How many instructions are left for a tile, whatever its rows.
LEMMA StepsOfTile ==
  ASSUME NEW q, NEW n \in 1..G, NEW t \in TilesOf(n)
  PROVE  /\ PerTile \in Nat /\ t * PerTile \in Nat
         /\ (t + 1) * PerTile = t * PerTile + PerTile
         /\ BodyLen(q, groups[n]) + 7 <= PerTile
         /\ (t + 1) * PerTile <= N * PerTile
<1>1. Tile \in Nat /\ BodyLen(q, groups[n]) \in 0..(9 * Tile)
  BY Sizes, CodeText
<1>2. PerTile \in Nat /\ BodyLen(q, groups[n]) + 7 <= PerTile
  BY <1>1 DEF PerTile
<1>3. t \in Nat /\ N \in Nat /\ t + 1 <= N
  BY TileOf, Sizes
<1> DEFINE P == PerTile
<1> HIDE DEF P
<1>4. P \in Nat
  BY <1>2 DEF P
<1>5. PICK d \in Nat : N = (t + 1) + d
  <2>1. N - (t + 1) \in Nat /\ N = (t + 1) + (N - (t + 1))
    BY <1>3
  <2> QED BY <2>1
<1>6. N * P = (t + 1) * P + d * P /\ d * P \in Nat /\ (t + 1) * P \in Nat
  BY <1>3, <1>4, <1>5
<1>7. t * P \in Nat /\ (t + 1) * P = t * P + P /\ (t + 1) * P <= N * P
  BY <1>3, <1>4, <1>6
<1> QED BY <1>2, <1>7 DEF P

-----------------------------------------------------------------------------
(* From place to place.                                                    *)

\* Registers that neither the head, a row nor the tail writes.
Untouched ==
  /\ \A r \in {SR.TSTR, SR.DISP} : sregs'[r] = sregs[r]
  /\ \A v \in {VR.LUT, VR.WALL} : vregs'[v] = vregs[v]

LEMMA StaysPrepared == ASSUME Untouched, NEW k, Prepared(k) PROVE Prepared(k)'
BY DEF Untouched, Prepared

LEMMA PrologueStep ==
  ASSUME NEW q, NEW s, Stands(q, s), NEW k \in 0..3, AtPrologue(k)
  PROVE  /\ Keeps(s)
         /\ k < 3 => AtPrologue(k + 1)'
         /\ k = 3 => AtGroup(q, s, 1, 0)'
<1>1. /\ pc = k /\ res.instructions <= k /\ Prepared(k)
  BY DEF AtPrologue
<1>2. res.instructions \in Nat
  BY DEF Stands, MachineInv, Typed, NoCounts
<1>3. CASE k = 0
  <2>1. Holds(q, pc, Op.LI, SR.TSTR, 0, 0, 0, kTileBytes)
    BY <1>1, <1>3, InPrologue
  <2>2. /\ Keeps(s) /\ Advances /\ sregs'[SR.TSTR] = kTileBytes % WordMod
    BY <2>1, ScalarStep, OpClasses, RegistersNamed
  <2>3. kTileBytes \in 0..(2 * MemSize - 1)
    <3>1. kTileBytes \in 0..MemSize
      BY ImmediatesFit, Zenon
    <3> QED BY <3>1, Sizes
  <2>4. sregs'[SR.TSTR] = kTileBytes
    BY <2>2, <2>3, Fits
  <2>5. AtPrologue(1)'
    BY <1>1, <1>2, <1>3, <2>2, <2>4 DEF AtPrologue, Advances, Prepared
  <2> QED BY <1>3, <2>2, <2>5
<1>4. CASE k = 1
  <2>1. Holds(q, pc, Op.LI, SR.DISP, 0, 0, 0, MemSize)
    BY <1>1, <1>4, InPrologue
  <2>2. /\ Keeps(s) /\ Advances /\ sregs'[SR.DISP] = MemSize % WordMod
        /\ \A r \in Sregs : r # SR.DISP => sregs'[r] = sregs[r]
    BY <2>1, ScalarStep, OpClasses, RegistersNamed
  <2>3. MemSize \in 0..(2 * MemSize - 1)
    BY Sizes
  <2>4. sregs'[SR.DISP] = MemSize /\ sregs'[SR.TSTR] = kTileBytes
    <3>1. SR.TSTR # SR.DISP
      BY Registers
    <3> QED BY <1>1, <1>4, <2>2, <2>3, <3>1, Fits, RegistersNamed DEF Prepared
  <2>5. AtPrologue(2)'
    BY <1>1, <1>2, <1>4, <2>2, <2>4 DEF AtPrologue, Advances, Prepared
  <2> QED BY <1>4, <2>2, <2>5
<1>5. CASE k = 2
  <2>1. Holds(q, pc, Op.VDENS, VR.LUT, 0, 0, 0, 0)
    BY <1>1, <1>5, InPrologue
  <2>2. 0 \in Vregs /\ Op.VDENS # Op.VSHUF
    BY OpCodes DEF Vregs
  <2>3. /\ Keeps(s) /\ Advances /\ sregs' = sregs
        /\ \A i \in Lanes : Yields(Op.VDENS, 0, 0, 0, 0, i, vregs'[VR.LUT][i])
    BY <2>1, <2>2, VectorStep, OpClasses, RegistersNamed
  <2>4. \A i \in Lanes : vregs'[VR.LUT][i] = kDensityRom[i % 16]
    BY <2>3 DEF Yields
  <2>5. AtPrologue(3)'
    BY <1>1, <1>2, <1>5, <2>3, <2>4 DEF AtPrologue, Advances, Prepared
  <2> QED BY <1>5, <2>3, <2>5
<1>6. CASE k = 3
  <2>1. Holds(q, pc, Op.VBCASTB, VR.WALL, 0, 0, 0, Wall)
    BY <1>1, <1>6, InPrologue
  <2>2. 0 \in Vregs /\ Op.VBCASTB # Op.VSHUF /\ VR.LUT # VR.WALL
    BY OpCodes, Registers DEF Vregs
  <2>3. /\ Keeps(s) /\ Advances /\ sregs' = sregs
        /\ \A i \in Lanes : Yields(Op.VBCASTB, 0, 0, 0, Wall, i, vregs'[VR.WALL][i])
        /\ \A v \in Vregs : v # VR.WALL => vregs'[v] = vregs[v]
    <3>1. Op.VBCASTB \in VectorOps /\ VR.WALL \in Vregs
      BY OpClasses, RegistersNamed
    <3> QED BY <2>1, <2>2, <3>1, VectorStep, Zenon
  <2>4. \A i \in Lanes : vregs'[VR.WALL][i] = Wall
    <3>1. Wall % 256 = Wall
      BY DEF Wall
    <3> QED BY <2>3, <3>1 DEF Yields
  <2>5. vregs'[VR.LUT] = vregs[VR.LUT]
    BY <2>2, <2>3, RegistersNamed
  <2>6. Prepared(4)'
    BY <1>1, <1>6, <2>3, <2>4, <2>5 DEF Prepared
  <2>7. groups[1].start = 0 /\ Base(q, 1) = 4
    BY GroupsCover, CodeText
  <2>8. 0 * kTileBytes = 0 /\ 0 * PerTile = 0
    BY Sizes DEF PerTile
  <2>9. pc' = Base(q, 1) + 0 /\ Spent(q, 1, groups[1].start)'
    BY <1>1, <1>2, <1>6, <2>3, <2>7, <2>8 DEF Spent, Advances
  <2>10. Written(q, s, groups[1].start * kTileBytes)'
    BY <2>7, <2>8 DEF Written
  <2>11. AtGroup(q, s, 1, 0)'
    BY <2>6, <2>9, <2>10 DEF AtGroup
  <2> QED BY <1>6, <2>3, <2>11
<1> QED BY <1>3, <1>4, <1>5, <1>6

LEMMA StaysWritten ==
  ASSUME NEW q, NEW s, NEW m, Written(q, s, m), mem' = mem PROVE Written(q, s, m)'
BY DEF Written

LEMMA StandsTyped ==
  ASSUME NEW q, NEW s, Stands(q, s)
  PROVE  /\ res.instructions \in Nat /\ pc \in Nat /\ q \in 0..1
         /\ \A r \in Sregs : sregs[r] \in Nat
<1>1. program \in DOMAIN Programs /\ IsKernel /\ q = ParityOf(program)
  BY DEF Stands, MachineInv, Typed
<1>2. WordMod \in Nat \ {0}
  BY WordModType
<1>3. res.instructions \in Nat /\ pc \in Nat /\ \A r \in Sregs : sregs[r] \in Nat
  BY <1>2 DEF Stands, MachineInv, Typed, NoCounts, Words
<1> QED BY <1>1, <1>3, KernelNames

LEMMA StaysSpent ==
  ASSUME NEW q, NEW s, Stands(q, s), NEW n \in 1..G, NEW t \in TilesOf(n),
         Spent(q, n, t), Advances
  PROVE  Spent(q, n, t)'
<1>1. t * PerTile \in Nat
  BY StepsOfTile
<1>2. Base(q, n) \in Nat
  BY GroupPlace
<1>3. res.instructions \in Nat /\ pc \in Nat
  BY StandsTyped
<1> QED BY <1>1, <1>2, <1>3 DEF Spent, Advances

\* The first tile of a group is one of its tiles.
LEMMA FirstTile == ASSUME NEW n \in 1..G PROVE groups[n].start \in TilesOf(n)
<1>1. IsGroup(groups[n]) /\ N \in Nat
  BY GroupsCover, Sizes
<1> DEFINE first == groups[n].start
           end   == groups[n].end
<1>2. first \in 0..N /\ end \in 0..N /\ first < end
  BY <1>1 DEF IsGroup
<1>3. first \in first..(end - 1)
  <2> HIDE DEF first, end
  <2> QED BY <1>1, <1>2
<1> QED BY <1>3 DEF TilesOf

\* An instruction that writes one of the registers T, END, SRC, ... COND.
WritesOne(rd) ==
  /\ mem' = mem /\ vregs' = vregs
  /\ \A r \in Sregs : r # rd => sregs'[r] = sregs[r]

LEMMA WritesOneKeeps ==
  ASSUME NEW rd, WritesOne(rd), rd # SR.TSTR, rd # SR.DISP, NEW q, NEW s, NEW m,
         Written(q, s, m), Prepared(4)
  PROVE  Prepared(4)' /\ Written(q, s, m)'
<1>1. Untouched
  BY RegistersNamed DEF WritesOne, Untouched
<1>2. mem' = mem
  BY DEF WritesOne
<1> QED BY <1>1, <1>2, StaysPrepared, StaysWritten

LEMMA GroupStep ==
  ASSUME NEW q, NEW s, Stands(q, s), NEW n \in 1..G, NEW k \in 0..1, AtGroup(q, s, n, k)
  PROVE  /\ Keeps(s)
         /\ k = 0 => AtGroup(q, s, n, 1)'
         /\ k = 1 => AtTile(q, s, n, groups[n].start, 0)'
<1> DEFINE t == groups[n].start
           m == t * kTileBytes
<1>1. /\ pc = Base(q, n) + k /\ Spent(q, n, t) /\ Prepared(4) /\ Written(q, s, m)
      /\ k = 1 => sregs[SR.T] = t
  BY DEF AtGroup
<1>2. t \in TilesOf(n) /\ Base(q, n) \in Nat
  BY FirstTile, GroupPlace
<1>3. t < MemSize /\ t \in Nat /\ groups[n].end \in Nat /\ groups[n].end <= MemSize
  <2>1. t \in Tiles /\ t \in Nat
    BY <1>2, TileOf
  <2>2. groups[n].end \in 0..MemSize
    BY GroupPlace
  <2> QED BY <2>1, <2>2, TileBytes, Sizes
<1>4. MemSize \in Nat \ {0}
  BY Sizes
<1>5. CASE k = 0
  <2>1. Holds(q, pc, Op.LI, SR.T, 0, 0, 0, t)
    BY <1>1, <1>2, <1>5, InHead
  <2>2. /\ Keeps(s) /\ Advances /\ WritesOne(SR.T) /\ sregs'[SR.T] = t % WordMod
    BY <2>1, ScalarStep, OpClasses, RegistersNamed DEF WritesOne
  <2> HIDE DEF m
  <2>3. Prepared(4)' /\ Written(q, s, m)'
    BY <1>1, <2>2, WritesOneKeeps, Registers
  <2>4. Spent(q, n, t)'
    BY <1>1, <1>2, <2>2, StaysSpent
  <2>5. sregs'[SR.T] = t
    <3> HIDE DEF t
    <3>1. t \in 0..(2 * MemSize - 1)
      BY <1>3, <1>4
    <3> QED BY <2>2, <3>1, Fits
  <2>6. pc' = Base(q, n) + 1
    BY <1>1, <1>2, <1>5, <2>2 DEF Advances
  <2>7. AtGroup(q, s, n, 1)'
    BY <2>3, <2>4, <2>5, <2>6 DEF AtGroup, m
  <2> QED BY <1>5, <2>2, <2>7
<1>6. CASE k = 1
  <2> DEFINE end == groups[n].end
  <2>1. Holds(q, pc, Op.LI, SR.END, 0, 0, 0, end)
    BY <1>1, <1>2, <1>6, InHead
  <2>2. /\ Keeps(s) /\ Advances /\ WritesOne(SR.END) /\ sregs'[SR.END] = end % WordMod
    BY <2>1, ScalarStep, OpClasses, RegistersNamed DEF WritesOne
  <2> HIDE DEF m
  <2>3. Prepared(4)' /\ Written(q, s, m)'
    BY <1>1, <2>2, WritesOneKeeps, Registers
  <2>4. Spent(q, n, t)'
    BY <1>1, <1>2, <2>2, StaysSpent
  <2>5. sregs'[SR.END] = end
    <3> HIDE DEF end
    <3>1. end \in 0..(2 * MemSize - 1)
      BY <1>3, <1>4 DEF end
    <3> QED BY <2>2, <3>1, Fits
  <2>6. sregs'[SR.T] = t
    BY <1>1, <1>6, <2>2, Registers, RegistersNamed DEF WritesOne
  <2>7. pc' = Base(q, n) + 2 + 0
    BY <1>1, <1>2, <1>6, <2>2 DEF Advances
  <2>8. AtTile(q, s, n, t, 0)'
    BY <2>3, <2>4, <2>5, <2>6, <2>7 DEF AtTile, Pointed, m
  <2> QED BY <1>6, <2>2, <2>8
<1> QED BY <1>5, <1>6

\* The tiles above and below one that has them.
LEMMA TileNeighbours ==
  ASSUME NEW n \in 1..G, NEW t \in TilesOf(n)
  PROVE  /\ groups[n].hasAbove =>
              /\ t - tilesX \in Tiles
              /\ (t - tilesX) * kTileBytes = t * kTileBytes + (-TileRowStride)
         /\ groups[n].hasBelow =>
              /\ t + tilesX \in Tiles
              /\ (t + tilesX) * kTileBytes = t * kTileBytes + TileRowStride
<1>1. /\ t \in Tiles /\ t \in Nat
      /\ groups[n].hasAbove <=> t >= tilesX
      /\ groups[n].hasBelow <=> t < tilesX * (tilesY - 1)
  BY TileOf
<1>2. /\ kTileBytes \in Nat /\ tilesX \in Nat /\ N \in Nat /\ Tiles = 0..(N - 1)
      /\ tilesY \in Nat /\ tilesX * (tilesY - 1) \in Int /\ N = tilesX * (tilesY - 1) + tilesX
  BY Sizes DEF N
<1>3. groups[n].hasAbove => t - tilesX \in Tiles
  BY <1>1, <1>2
<1>4. groups[n].hasBelow => t + tilesX \in Tiles
  BY <1>1, <1>2
<1>5. /\ (t - tilesX) * kTileBytes = t * kTileBytes + (-TileRowStride)
      /\ (t + tilesX) * kTileBytes = t * kTileBytes + TileRowStride
  BY <1>1, <1>2 DEF TileRowStride
<1> QED BY <1>3, <1>4, <1>5

LEMMA TileStep ==
  ASSUME NEW q, NEW s, Stands(q, s), NEW n \in 1..G, NEW t \in TilesOf(n), NEW k \in 0..3,
         AtTile(q, s, n, t, k)
  PROVE  /\ Keeps(s)
         /\ k < 3 => AtTile(q, s, n, t, k + 1)'
         /\ k = 3 => AtRow(q, s, n, t, 0, 0)'
<1> DEFINE a == t * kTileBytes
           b == Base(q, n)
<1>1. /\ pc = b + 2 + k /\ Spent(q, n, t) /\ Prepared(4) /\ Pointed(n, t, k) /\ Written(q, s, a)
  BY DEF AtTile
<1>2. /\ b \in Nat /\ a \in Nat /\ a + kTileBytes <= MemSize /\ kTileBytes \in Nat \ {0}
      /\ MemSize \in Nat \ {0} /\ t \in Tiles /\ t \in Nat
  BY GroupPlace, TileBytes, TileOf, Sizes
<1>3. sregs[SR.TSTR] = kTileBytes /\ sregs[SR.DISP] = MemSize
  BY <1>1 DEF Prepared
<1>4. /\ sregs[SR.T] = t /\ sregs[SR.END] = groups[n].end
      /\ k >= 1 => sregs[SR.SRC] = a
      /\ k >= 2 => sregs[SR.DST] = MemSize + a
      /\ k >= 3 /\ groups[n].hasAbove => sregs[SR.ABOVE] = (t - tilesX) * kTileBytes
  BY <1>1 DEF Pointed
<1>5. /\ Holds(q, b + 2, Op.MUL, SR.SRC, SR.T, SR.TSTR, 0, 0)
      /\ Holds(q, b + 3, Op.ADD, SR.DST, SR.SRC, SR.DISP, 0, 0)
      /\ Holds(q, b + 4, Op.ADDI, SR.ABOVE, SR.SRC, 0, 0, -TileRowStride)
      /\ Holds(q, b + 5, Op.ADDI, SR.BELOW, SR.SRC, 0, 0, TileRowStride)
  BY InHead
<1>6. ASSUME Advances, NEW rd, WritesOne(rd), rd # SR.TSTR, rd # SR.DISP
      PROVE  Prepared(4)' /\ Written(q, s, a)' /\ Spent(q, n, t)' /\ pc' = b + 2 + (k + 1)
  <2>1. Prepared(4)' /\ Written(q, s, a)'
    <3> HIDE DEF a
    <3> QED BY <1>1, <1>6, WritesOneKeeps
  <2>2. Spent(q, n, t)'
    BY <1>1, <1>6, StaysSpent
  <2>3. pc' = b + 2 + (k + 1)
    <3> HIDE DEF b
    <3> QED BY <1>1, <1>2, <1>6 DEF Advances
  <2> QED BY <2>1, <2>2, <2>3
<1>7. CASE k = 0
  <2>1. Holds(q, pc, Op.MUL, SR.SRC, SR.T, SR.TSTR, 0, 0)
    <3>1. pc = b + 2
      <4> HIDE DEF b
      <4> QED BY <1>1, <1>2, <1>7
    <3> QED BY <1>5, <3>1
  <2>2. /\ Keeps(s) /\ Advances /\ WritesOne(SR.SRC)
        /\ sregs'[SR.SRC] = (sregs[SR.T] * sregs[SR.TSTR]) % WordMod
    BY <2>1, ScalarStep, OpClasses, RegistersNamed DEF WritesOne
  <2>3. sregs'[SR.SRC] = a
    <3>1. sregs'[SR.SRC] = a % WordMod
      BY <1>3, <1>4, <2>2
    <3> HIDE DEF a
    <3>2. a \in 0..(2 * MemSize - 1)
      BY <1>2
    <3> QED BY <3>1, <3>2, Fits
  <2>4. sregs'[SR.T] = t /\ sregs'[SR.END] = groups[n].end
    BY <1>4, <2>2, Registers, RegistersNamed DEF WritesOne
  <2>5. Pointed(n, t, 1)'
    BY <2>3, <2>4 DEF Pointed
  <2>6. SR.SRC # SR.TSTR /\ SR.SRC # SR.DISP
    BY Registers
  <2>7. Prepared(4)' /\ Written(q, s, a)' /\ Spent(q, n, t)' /\ pc' = b + 2 + (k + 1)
    BY <1>6, <2>2, <2>6
  <2>8. AtTile(q, s, n, t, 1)'
    BY <1>7, <2>5, <2>7 DEF AtTile
  <2> QED BY <1>7, <2>2, <2>8
<1>8. CASE k = 1
  <2>1. Holds(q, pc, Op.ADD, SR.DST, SR.SRC, SR.DISP, 0, 0)
    <3>1. pc = b + 3
      <4> HIDE DEF b
      <4> QED BY <1>1, <1>2, <1>8
    <3> QED BY <1>5, <3>1
  <2>2. /\ Keeps(s) /\ Advances /\ WritesOne(SR.DST)
        /\ sregs'[SR.DST] = (sregs[SR.SRC] + sregs[SR.DISP]) % WordMod
    BY <2>1, ScalarStep, OpClasses, RegistersNamed DEF WritesOne
  <2>3. sregs'[SR.DST] = MemSize + a
    <3>1. sregs'[SR.DST] = (a + MemSize) % WordMod
      BY <1>3, <1>4, <1>8, <2>2
    <3> HIDE DEF a
    <3>2. a + MemSize \in 0..(2 * MemSize - 1) /\ a + MemSize = MemSize + a
      BY <1>2
    <3> QED BY <3>1, <3>2, Fits
  <2>4. sregs'[SR.T] = t /\ sregs'[SR.END] = groups[n].end /\ sregs'[SR.SRC] = a
    BY <1>4, <1>8, <2>2, Registers, RegistersNamed DEF WritesOne
  <2>5. Pointed(n, t, 2)'
    BY <2>3, <2>4 DEF Pointed
  <2>6. SR.DST # SR.TSTR /\ SR.DST # SR.DISP
    BY Registers
  <2>7. Prepared(4)' /\ Written(q, s, a)' /\ Spent(q, n, t)' /\ pc' = b + 2 + (k + 1)
    BY <1>6, <2>2, <2>6
  <2>8. AtTile(q, s, n, t, 2)'
    BY <1>8, <2>5, <2>7 DEF AtTile
  <2> QED BY <1>8, <2>2, <2>8
<1>9. CASE k = 2
  <2>1. Holds(q, pc, Op.ADDI, SR.ABOVE, SR.SRC, 0, 0, -TileRowStride)
    <3>1. pc = b + 4
      <4> HIDE DEF b
      <4> QED BY <1>1, <1>2, <1>9
    <3> QED BY <1>5, <3>1
  <2>2. /\ Keeps(s) /\ Advances /\ WritesOne(SR.ABOVE)
        /\ sregs'[SR.ABOVE] = (sregs[SR.SRC] + (-TileRowStride)) % WordMod
    BY <2>1, ScalarStep, OpClasses, RegistersNamed DEF WritesOne
  <2>3. groups[n].hasAbove => sregs'[SR.ABOVE] = (t - tilesX) * kTileBytes
    <3> SUFFICES ASSUME groups[n].hasAbove PROVE sregs'[SR.ABOVE] = (t - tilesX) * kTileBytes
      OBVIOUS
    <3> DEFINE c == (t - tilesX) * kTileBytes
    <3>1. t - tilesX \in Tiles /\ c = a + (-TileRowStride)
      BY TileNeighbours
    <3>2. c \in Nat /\ c + kTileBytes <= MemSize
      BY <3>1, TileBytes
    <3>3. sregs'[SR.ABOVE] = c % WordMod
      BY <1>4, <1>9, <2>2, <3>1
    <3> HIDE DEF c
    <3>4. c \in 0..(2 * MemSize - 1)
      BY <1>2, <3>2
    <3> QED BY <3>3, <3>4, Fits DEF c
  <2>4. /\ sregs'[SR.T] = t /\ sregs'[SR.END] = groups[n].end /\ sregs'[SR.SRC] = a
        /\ sregs'[SR.DST] = MemSize + a
    BY <1>4, <1>9, <2>2, Registers, RegistersNamed DEF WritesOne
  <2>5. Pointed(n, t, 3)'
    BY <2>3, <2>4 DEF Pointed
  <2>6. SR.ABOVE # SR.TSTR /\ SR.ABOVE # SR.DISP
    BY Registers
  <2>7. Prepared(4)' /\ Written(q, s, a)' /\ Spent(q, n, t)' /\ pc' = b + 2 + (k + 1)
    BY <1>6, <2>2, <2>6
  <2>8. AtTile(q, s, n, t, 3)'
    BY <1>9, <2>5, <2>7 DEF AtTile
  <2> QED BY <1>9, <2>2, <2>8
<1>10. CASE k = 3
  <2>1. Holds(q, pc, Op.ADDI, SR.BELOW, SR.SRC, 0, 0, TileRowStride)
    <3>1. pc = b + 5
      <4> HIDE DEF b
      <4> QED BY <1>1, <1>2, <1>10
    <3> QED BY <1>5, <3>1
  <2>2. /\ Keeps(s) /\ Advances /\ WritesOne(SR.BELOW)
        /\ sregs'[SR.BELOW] = (sregs[SR.SRC] + TileRowStride) % WordMod
    BY <2>1, ScalarStep, OpClasses, RegistersNamed DEF WritesOne
  <2>3. groups[n].hasBelow => sregs'[SR.BELOW] = (t + tilesX) * kTileBytes
    <3> SUFFICES ASSUME groups[n].hasBelow PROVE sregs'[SR.BELOW] = (t + tilesX) * kTileBytes
      OBVIOUS
    <3> DEFINE c == (t + tilesX) * kTileBytes
    <3>1. t + tilesX \in Tiles /\ c = a + TileRowStride
      BY TileNeighbours
    <3>2. c \in Nat /\ c + kTileBytes <= MemSize
      BY <3>1, TileBytes
    <3>3. sregs'[SR.BELOW] = c % WordMod
      BY <1>4, <1>10, <2>2, <3>1
    <3> HIDE DEF c
    <3>4. c \in 0..(2 * MemSize - 1)
      BY <1>2, <3>2
    <3> QED BY <3>3, <3>4, Fits DEF c
  <2>4. /\ sregs'[SR.T] = t /\ sregs'[SR.END] = groups[n].end /\ sregs'[SR.SRC] = a
        /\ sregs'[SR.DST] = MemSize + a
        /\ groups[n].hasAbove => sregs'[SR.ABOVE] = (t - tilesX) * kTileBytes
    BY <1>4, <1>10, <2>2, Registers, RegistersNamed DEF WritesOne
  <2>5. Pointed(n, t, 4)'
    BY <2>3, <2>4 DEF Pointed
  <2>6. SR.BELOW # SR.TSTR /\ SR.BELOW # SR.DISP
    BY Registers
  <2>7. Prepared(4)' /\ Written(q, s, a)' /\ Spent(q, n, t)' /\ pc' = b + 2 + (k + 1)
    BY <1>6, <2>2, <2>6
  <2>8. pc' = RowAt(q, n, 0) + 0
    <3>1. RowAt(q, n, 0) = b + 6
      BY RowPlaces
    <3> HIDE DEF b
    <3> QED BY <1>2, <1>10, <2>7, <3>1
  <2>9. Written(q, s, t * kTileBytes + 0 * Tile)'
    <3>1. t * kTileBytes + 0 * Tile = a
      <4>1. Tile \in Nat
        BY Sizes
      <4> QED BY <1>2, <4>1
    <3> HIDE DEF a
    <3> QED BY <2>7, <3>1, Zenon
  <2>10. AtRow(q, s, n, t, 0, 0)'
    BY <2>5, <2>7, <2>8, <2>9 DEF AtRow, InRow, Paired, Lane
  <2> QED BY <1>10, <2>2, <2>10
<1> QED BY <1>7, <1>8, <1>9, <1>10

\* There are fewer tiles than bytes.
LEMMA FewTiles == N \in Nat /\ N < MemSize
<1>1. /\ kTileBytes = Tile * Tile /\ Tile \in Nat /\ Tile >= 5
      /\ N \in Nat \ {0} /\ MemSize = kTileBytes * N /\ kTileBytes \in Nat
  BY Sizes
<1>2. kTileBytes >= 2
  <2>1. \E c \in Nat : Tile = 5 + c
    <3>1. Tile - 5 \in Nat /\ Tile = 5 + (Tile - 5)
      BY <1>1
    <3> QED BY <3>1
  <2>2. PICK c \in Nat : Tile = 5 + c
    BY <2>1
  <2>3. Tile * Tile = 25 + 10 * c + c * c /\ c * c \in Nat
    BY <2>2
  <2> QED BY <1>1, <2>3
<1> DEFINE B == kTileBytes
<1>3. \E c \in Nat : B = 2 + c
  <2>1. B - 2 \in Nat /\ B = 2 + (B - 2)
    BY <1>1, <1>2
  <2> QED BY <2>1
<1>4. PICK c \in Nat : B = 2 + c
  BY <1>3
<1>5. B * N = 2 * N + c * N /\ c * N \in Nat
  BY <1>1, <1>4
<1> QED BY <1>1, <1>5

LEMMA TailStep ==
  ASSUME NEW q, NEW s, Stands(q, s), NEW n \in 1..G, NEW t \in TilesOf(n), NEW k \in 0..1,
         AtTail(q, s, n, t, k)
  PROVE  Keeps(s) /\ AtTail(q, s, n, t, k + 1)'
<1> DEFINE b   == TailAt(q, n)
           m   == (t + 1) * kTileBytes
           end == groups[n].end
<1>1. /\ pc = b + k /\ Spent(q, n, t) /\ Prepared(4) /\ Written(q, s, m)
      /\ sregs[SR.T] = (IF k = 0 THEN t ELSE t + 1) /\ sregs[SR.END] = end
  BY DEF AtTail
<1>2. b \in Nat /\ t \in Nat /\ end \in 0..N /\ t + 1 <= end
  BY GroupPlace, TileOf
<1>3. /\ Holds(q, b, Op.ADDI, SR.T, SR.T, 0, 0, 1)
      /\ Holds(q, b + 1, Op.CMPLT, SR.COND, SR.T, SR.END, 0, 0)
  BY InTail
<1>4. ASSUME Advances, NEW rd, WritesOne(rd), rd # SR.TSTR, rd # SR.DISP
      PROVE  Prepared(4)' /\ Written(q, s, m)' /\ Spent(q, n, t)' /\ pc' = b + (k + 1)
  <2>1. Prepared(4)' /\ Written(q, s, m)'
    <3> HIDE DEF m
    <3> QED BY <1>1, <1>4, WritesOneKeeps
  <2>2. Spent(q, n, t)'
    BY <1>1, <1>4, StaysSpent
  <2>3. pc' = b + (k + 1)
    <3> HIDE DEF b
    <3> QED BY <1>1, <1>2, <1>4 DEF Advances
  <2> QED BY <2>1, <2>2, <2>3
<1>5. /\ t + 1 \in 0..(MemSize - 1) /\ end \in 0..(MemSize - 1) /\ MemSize \in Nat
  <2> HIDE DEF end
  <2> QED BY <1>2, FewTiles, Sizes
<1>6. CASE k = 0
  <2>1. Holds(q, pc, Op.ADDI, SR.T, SR.T, 0, 0, 1)
    <3>1. pc = b
      <4> HIDE DEF b
      <4> QED BY <1>1, <1>2, <1>6
    <3> QED BY <1>3, <3>1
  <2>2. /\ Keeps(s) /\ Advances /\ WritesOne(SR.T)
        /\ sregs'[SR.T] = (sregs[SR.T] + 1) % WordMod
    BY <2>1, ScalarStep, OpClasses, RegistersNamed DEF WritesOne
  <2>3. sregs'[SR.T] = t + 1
    <3>1. t + 1 \in 0..(2 * MemSize - 1)
      BY <1>2, <1>5
    <3> QED BY <1>1, <1>6, <2>2, <3>1, Fits
  <2>4. sregs'[SR.END] = end
    BY <1>1, <2>2, Registers, RegistersNamed DEF WritesOne
  <2>5. SR.T # SR.TSTR /\ SR.T # SR.DISP
    BY Registers
  <2>6. Prepared(4)' /\ Written(q, s, m)' /\ Spent(q, n, t)' /\ pc' = b + (k + 1)
    BY <1>4, <2>2, <2>5
  <2>7. AtTail(q, s, n, t, 1)'
    BY <1>6, <2>3, <2>4, <2>6 DEF AtTail
  <2> QED BY <1>6, <2>2, <2>7
<1>7. CASE k = 1
  <2>1. Holds(q, pc, Op.CMPLT, SR.COND, SR.T, SR.END, 0, 0)
    BY <1>1, <1>3, <1>7
  <2>2. /\ Keeps(s) /\ Advances /\ WritesOne(SR.COND)
        /\ sregs'[SR.COND] = IF Signed(sregs[SR.T], WordMod) < Signed(sregs[SR.END], WordMod)
                               THEN 1 ELSE 0
    BY <2>1, ScalarStep, OpClasses, RegistersNamed DEF WritesOne
  <2>3. sregs'[SR.COND] = IF t + 1 < end THEN 1 ELSE 0
    <3>1. sregs[SR.T] = t + 1 /\ sregs[SR.END] = end
      BY <1>1, <1>7
    <3>2. Signed(t + 1, WordMod) = t + 1 /\ Signed(end, WordMod) = end
      BY <1>5, Fits
    <3> QED BY <2>2, <3>1, <3>2
  <2>4. sregs'[SR.T] = t + 1 /\ sregs'[SR.END] = end
    BY <1>1, <1>7, <2>2, Registers, RegistersNamed DEF WritesOne
  <2>5. SR.COND # SR.TSTR /\ SR.COND # SR.DISP
    BY Registers
  <2>6. Prepared(4)' /\ Written(q, s, m)' /\ Spent(q, n, t)' /\ pc' = b + (k + 1)
    BY <1>4, <2>2, <2>5
  <2>7. AtTail(q, s, n, t, 2)'
    BY <1>7, <2>3, <2>4, <2>6 DEF AtTail
  <2> QED BY <1>7, <2>2, <2>7
<1> QED BY <1>6, <1>7

\* What follows the loop of group n.
AfterGroup(q, s, n) ==
  \/ n < G /\ \E m \in 1..G : m = n + 1 /\ AtGroup(q, s, m, 0)
  \/ n = G /\ AtEnd(q, s)

LEMMA LoopStep ==
  ASSUME NEW q, NEW s, Stands(q, s), NEW n \in 1..G, NEW t \in TilesOf(n),
         AtTail(q, s, n, t, 2)
  PROVE  /\ Keeps(s)
         /\ (\E u \in TilesOf(n) : AtTile(q, s, n, u, 0)') \/ AfterGroup(q, s, n)'
<1> DEFINE b   == Base(q, n)
           c   == TailAt(q, n)
           end == groups[n].end
           len == BodyLen(q, groups[n])
<1>1. PICK u \in Nat : u = t + 1
  BY TileOf
<1>2. /\ pc = c + 2 /\ Spent(q, n, t) /\ Prepared(4) /\ Written(q, s, u * kTileBytes)
      /\ sregs[SR.T] = u /\ sregs[SR.END] = end
      /\ sregs[SR.COND] = (IF u < end THEN 1 ELSE 0)
  BY <1>1 DEF AtTail
<1>3. /\ b \in Nat /\ c \in Nat /\ len \in Nat /\ c = b + 6 + len
      /\ Base(q, n + 1) = c + 3
  BY GroupPlace
<1>4. Holds(q, pc, Op.BNZ, 0, SR.COND, 0, 0, b + 2)
  BY <1>2, InTail
<1>5. /\ Keeps(s) /\ mem' = mem /\ vregs' = vregs /\ sregs' = sregs
      /\ res'.instructions = res.instructions + 1
      /\ pc' = IF sregs[SR.COND] # 0 THEN b + 2 ELSE pc + 1
  <2>1. b + 2 \in Nat /\ b + 2 < pc
    <3> HIDE DEF b, c, len
    <3> QED BY <1>2, <1>3
  <2> HIDE DEF b
  <2> QED BY <1>4, <2>1, BranchStep
<1>6. Prepared(4)' /\ Written(q, s, u * kTileBytes)'
  BY <1>2, <1>5, StaysPrepared, StaysWritten DEF Untouched
<1> DEFINE P == PerTile
<1>7. /\ t * P \in Nat /\ u * P = t * P + P /\ P \in Nat /\ len + 7 <= P /\ u * P <= N * P
  BY <1>1, StepsOfTile
<1>8. /\ n \in Nat /\ G \in 1..3 /\ n <= G /\ res.instructions \in Nat
  BY GroupsCover, StandsTyped
<1>9. res'.instructions <= 2 + 2 * n + t * P + len + 9
  <2>1. res.instructions <= 2 + 2 * n + t * P + (pc - b)
    BY <1>2 DEF Spent
  <2> HIDE DEF P, b, c, len
  <2> QED BY <1>2, <1>3, <1>5, <1>7, <1>8, <2>1
<1>10. CASE u < end
  <2>1. pc' = b + 2
    BY <1>2, <1>5, <1>10
  <2>2. u \in TilesOf(n)
    <3>1. t \in groups[n].start..(end - 1) /\ IsGroup(groups[n]) /\ N \in Nat
      BY GroupsCover, Sizes DEF TilesOf
    <3> DEFINE first == groups[n].start
    <3>2. first \in 0..N /\ end \in 0..N
      BY <3>1 DEF IsGroup
    <3>3. u \in first..(end - 1)
      <4> HIDE DEF first, end
      <4> QED BY <1>1, <1>10, <3>1, <3>2 DEF first
    <3> QED BY <3>3 DEF TilesOf
  <2>3. Spent(q, n, u)'
    <3>1. res'.instructions <= 2 + 2 * n + u * P + (pc' - b)
      <4> HIDE DEF P, b, len
      <4> QED BY <1>3, <1>5, <1>7, <1>8, <1>9, <2>1
    <3> QED BY <3>1 DEF Spent
  <2>4. pc' = b + 2 + 0
    <3> HIDE DEF b
    <3> QED BY <1>3, <2>1
  <2>5. AtTile(q, s, n, u, 0)'
    BY <1>2, <1>5, <1>6, <2>3, <2>4 DEF AtTile, Pointed
  <2> QED BY <1>5, <2>2, <2>5
<1>11. CASE ~(u < end)
  <2>1. u = end
    <3>1. t + 1 <= end /\ end \in 0..N /\ N \in Nat
      BY TileOf, Sizes
    <3> HIDE DEF end
    <3> QED BY <1>1, <1>11, <3>1
  <2>2. pc' = c + 3
    <3>1. pc' = pc + 1
      BY <1>2, <1>5, <1>11
    <3> HIDE DEF c
    <3> QED BY <1>2, <1>3, <3>1
  <2>3. CASE n < G
    <3>1. PICK m \in 1..G : m = n + 1
      <4>1. n + 1 \in 1..G
        BY <1>8, <2>3
      <4> QED BY <4>1
    <3>2. groups[m].start = u
      BY <2>1, <2>3, <3>1, GroupsCover
    <3>3. pc' = Base(q, m) + 0
      <4>1. Base(q, m) \in Nat
        BY GroupPlace
      <4> QED BY <1>3, <2>2, <3>1, <4>1
    <3>4. Spent(q, m, u)'
      <4>1. res'.instructions <= 2 + 2 * m + u * P + (pc' - Base(q, m))
        <5>1. Base(q, m) \in Nat
          BY GroupPlace
        <5>2. pc' - Base(q, m) = 0
          BY <3>3, <5>1
        <5>3. res'.instructions <= 2 + 2 * m + u * P
          <6>1. res'.instructions \in Nat
            BY <1>5, <1>8
          <6> DEFINE x == t * P
                     y == u * P
          <6> HIDE DEF P, len, x, y
          <6>2. x \in Nat /\ y = x + P /\ P \in Nat /\ len \in Nat /\ len + 7 <= P
                /\ res'.instructions <= 2 + 2 * n + x + len + 9
            BY <1>3, <1>7, <1>9 DEF x, y
          <6>3. res'.instructions <= 2 + 2 * m + y
            BY <1>8, <3>1, <6>1, <6>2
          <6> QED BY <6>3 DEF y
        <5>4. u * P \in Nat
          <6> HIDE DEF P
          <6> QED BY <1>7
        <5> HIDE DEF P
        <5>5. res'.instructions <= 2 + 2 * m + u * P + 0
          BY <5>3, <5>4
        <5> QED BY <5>2, <5>5 DEF P
      <4> QED BY <4>1 DEF Spent
    <3>5. AtGroup(q, s, m, 0)'
      <4>1. Spent(q, m, groups[m].start)' /\ Written(q, s, groups[m].start * kTileBytes)'
        BY <1>6, <3>2, <3>4, Zenon
      <4> QED BY <1>6, <3>3, <4>1 DEF AtGroup
    <3>6. AfterGroup(q, s, n)'
      BY <2>3, <3>1, <3>5 DEF AfterGroup
    <3> QED BY <1>5, <3>6
  <2>4. CASE n = G
    <3>1. u = N
      BY <2>1, <2>4, GroupsCover
    <3>2. pc' = EndAt(q)
      BY <1>3, <2>2, <2>4 DEF EndAt
    <3>3. u * kTileBytes = MemSize
      BY <3>1, Sizes
    <3>4. res'.instructions <= N * PerTile + 10
      <4>1. res'.instructions <= u * P + 10
        <5> HIDE DEF P, len
        <5> QED BY <1>3, <1>5, <1>7, <1>8, <1>9, <2>4
      <4>2. u * P = N * P
        BY <3>1
      <4> QED BY <4>1, <4>2
    <3>5. Written(q, s, MemSize)'
      BY <1>6, <3>3, Zenon
    <3>6. AtEnd(q, s)'
      BY <3>2, <3>4, <3>5 DEF AtEnd
    <3>7. AfterGroup(q, s, n)'
      BY <2>4, <3>6 DEF AfterGroup
    <3> QED BY <1>5, <3>7
  <2> QED BY <1>8, <2>3, <2>4
<1> QED BY <1>10, <1>11

-----------------------------------------------------------------------------
(* What the vector instructions of a row compute in one lane.              *)

LEMMA PowersToEight ==
  /\ Pow2[0] = 1 /\ Pow2[1] = 2 /\ Pow2[2] = 4 /\ Pow2[3] = 8 /\ Pow2[4] = 16
  /\ Pow2[5] = 32 /\ Pow2[6] = 64 /\ Pow2[7] = 128
<1>1. Pow2[0] = 1 /\ \A k \in 0..6 : Pow2[k + 1] = 2 * Pow2[k]
  BY PowersOfTwo
<1>2. Pow2[0 + 1] = 2 /\ Pow2[1 + 1] = 2 * Pow2[1]
  BY <1>1
<1>3. Pow2[2 + 1] = 2 * Pow2[2] /\ Pow2[3 + 1] = 2 * Pow2[3]
  BY <1>1
<1>4. Pow2[4 + 1] = 2 * Pow2[4] /\ Pow2[5 + 1] = 2 * Pow2[5] /\ Pow2[6 + 1] = 2 * Pow2[6]
  BY <1>1
<1> QED BY <1>1, <1>2, <1>3, <1>4

\* The bits of the two masks.
LEMMA MaskBits == \A k \in 0..7 : BitOf(0, k) = 0 /\ BitOf(255, k) = 1
<1> SUFFICES ASSUME NEW k \in 0..7 PROVE BitOf(0, k) = 0 /\ BitOf(255, k) = 1
  OBVIOUS
<1>1. k \in {0, 1, 2, 3, 4, 5, 6, 7}
  OBVIOUS
<1>2. Pow2[k] \in {1, 2, 4, 8, 16, 32, 64, 128}
  BY <1>1, PowersToEight
<1> DEFINE p == Pow2[k]
<1> HIDE DEF p
<1>3. (0 \div p) % 2 = 0 /\ (255 \div p) % 2 = 1
  BY <1>2 DEF p
<1> QED BY <1>3 DEF BitOf, p

LEMMA EvenBits ==
  ASSUME NEW c \in {0, 1}
  PROVE  FromBits(8, [k \in 0..7 |-> c]) = IF c = 1 THEN 255 ELSE 0
<1> DEFINE bits == [k \in 0..7 |-> c]
           IsSum(a) == a = [k \in 0..8 |-> IF k = 0 THEN 0 ELSE a[k - 1] + bits[k - 1] * Pow2[k - 1]]
           sum == CHOOSE a : IsSum(a)
<1>1. FromBits(8, bits) = sum[8]
  BY DEF FromBits
<1>2. \E a : IsSum(a)
  <2>1. 8 \in Nat /\ 8 - 1 = 7
    OBVIOUS
  <2>2. bits \in [0..(8 - 1) -> {0, 1}]
    BY <2>1
  <2> HIDE DEF bits
  <2> QED BY <2>1, <2>2, SumOfBits
<1>3. IsSum(sum)
  BY <1>2
<1> HIDE DEF sum
<1>4. sum[0] = 0 /\ \A k \in 1..8 : sum[k] = sum[k - 1] + c * Pow2[k - 1]
  <2>1. sum[0] = 0
    BY <1>3
  <2>2. ASSUME NEW k \in 1..8 PROVE sum[k] = sum[k - 1] + c * Pow2[k - 1]
    <3>1. k \in 0..8 /\ k # 0 /\ k - 1 \in 0..7
      OBVIOUS
    <3>2. sum[k] = sum[k - 1] + bits[k - 1] * Pow2[k - 1]
      <4> HIDE DEF bits
      <4> QED BY <1>3, <3>1
    <3> QED BY <3>1, <3>2
  <2> QED BY <2>1, <2>2
<1>5. /\ sum[1] = sum[0] + c * Pow2[0] /\ sum[2] = sum[1] + c * Pow2[1]
      /\ sum[3] = sum[2] + c * Pow2[2] /\ sum[4] = sum[3] + c * Pow2[3]
      /\ sum[5] = sum[4] + c * Pow2[4] /\ sum[6] = sum[5] + c * Pow2[5]
      /\ sum[7] = sum[6] + c * Pow2[6] /\ sum[8] = sum[7] + c * Pow2[7]
  BY <1>4
<1>6. /\ sum[1] = c /\ sum[2] = 3 * c /\ sum[3] = 7 * c /\ sum[4] = 15 * c
  BY <1>4, <1>5, PowersToEight
<1>7. /\ sum[5] = 31 * c /\ sum[6] = 63 * c /\ sum[7] = 127 * c /\ sum[8] = 255 * c
  BY <1>5, <1>6, PowersToEight
<1> QED BY <1>1, <1>7

\* VANDN on masks.
LEMMA AndOfMasks ==
  ASSUME NEW b \in BOOLEAN, NEW d \in BOOLEAN
  PROVE  BitAnd(8, 255 - Mask(b), Mask(d)) = Mask(~b /\ d)
<1> DEFINE x == 255 - Mask(b)
           y == Mask(d)
<1>1. /\ x = (IF b THEN 0 ELSE 255) /\ y = (IF d THEN 255 ELSE 0)
  BY DEF Mask
<1> HIDE DEF x, y
<1>2. PICK c \in {0, 1} : c = IF ~b /\ d THEN 1 ELSE 0
  OBVIOUS
<1>3. \A k \in 0..7 : BitOf(x, k) * BitOf(y, k) = c
  <2> SUFFICES ASSUME NEW k \in 0..7 PROVE BitOf(x, k) * BitOf(y, k) = c
    OBVIOUS
  <2>1. BitOf(x, k) = (IF b THEN 0 ELSE 1) /\ BitOf(y, k) = (IF d THEN 1 ELSE 0)
    BY <1>1, MaskBits
  <2> QED BY <1>2, <2>1
<1>4. BitAnd(8, x, y) = FromBits(8, [k \in 0..7 |-> c])
  <2>1. 8 - 1 = 7
    OBVIOUS
  <2>2. [k \in 0..(8 - 1) |-> BitOf(x, k) * BitOf(y, k)] = [k \in 0..7 |-> c]
    BY <1>3, <2>1
  <2> QED BY <2>2 DEF BitAnd
<1>5. BitAnd(8, x, y) = IF c = 1 THEN 255 ELSE 0
  BY <1>4, EvenBits
<1> QED BY <1>2, <1>5 DEF Mask, x, y

\* The lookup and the compares of a row are those of the scalar rule.
LEMMA LaneRules ==
  ASSUME NEW u \in Cells, NEW l \in Cells
  PROVE  /\ u % 16 = u /\ u \in Lanes /\ kDensityRom[u % 16] = densityBiased(u)
         /\ Signed(densityBiased(u), 256) > Signed(densityBiased(l), 256) <=> denserThan(u, l)
         /\ Mask(~(u = Wall) /\ denserThan(u, l)) = Mask(swapVertical(u, l))
         /\ \A b \in BOOLEAN : Mask(b) >= 128 <=> b
<1>1. u % 16 = u /\ u \in {0, 1, 2, 3, 4}
  BY DEF Cells
<1>2. u \in Lanes
  BY <1>1, Sizes DEF Edge
<1>3. kDensityRom[u] = densityBiased(u)
  BY <1>1 DEF kDensityRom, densityBiased, Wall
<1>4. \A c \in Cells : densityBiased(c) \in 0..255
  BY DEF densityBiased, Wall, Cells
<1>5. \A x \in 0..255 : Signed(x, 256) = Signed8(x)
  BY DEF Signed, Signed8
<1>6. Signed(densityBiased(u), 256) > Signed(densityBiased(l), 256) <=> denserThan(u, l)
  BY <1>4, <1>5 DEF denserThan
<1>7. Mask(~(u = Wall) /\ denserThan(u, l)) = Mask(swapVertical(u, l))
  BY DEF swapVertical, Mask
<1>8. \A b \in BOOLEAN : Mask(b) >= 128 <=> b
  BY DEF Mask
<1> QED BY <1>1, <1>2, <1>3, <1>6, <1>7, <1>8

-----------------------------------------------------------------------------
(* The rows that a row of the result is made of.                           *)

\* A row of a tile is one aligned access.
LEMMA RowAddress ==
  ASSUME NEW t \in Tiles, NEW r \in Edge, NEW a, a = t * kTileBytes + r * Tile
  PROVE  /\ a \in Nat /\ a % VecBytes = 0 /\ (MemSize + a) % VecBytes = 0
         /\ a + VecBytes <= MemSize
         /\ \A i \in Lanes : CoordOf(a + i) = CellIn(t, r, i)
<1>1. /\ Tile \in Nat \ {0} /\ VecBytes = Tile /\ Lanes = Edge /\ kTileBytes = Tile * Tile
      /\ N \in Nat \ {0} /\ MemSize = kTileBytes * N /\ MemSize = Size /\ MemSize \in Nat
  BY Sizes
<1>2. t \in Nat /\ t * kTileBytes \in Nat /\ r \in Nat /\ r * Tile \in Nat
  BY TileBytes, <1>1 DEF Edge
<1>3. a = Tile * (t * Tile + r) /\ t * Tile + r \in Nat
  BY <1>1, <1>2
<1>4. MemSize + a = Tile * (Tile * N + (t * Tile + r)) /\ Tile * N + (t * Tile + r) \in Nat
  BY <1>1, <1>2, <1>3
<1>5. \A m \in Nat : (Tile * m) % Tile = 0
  <2> SUFFICES ASSUME NEW m \in Nat PROVE (Tile * m) % Tile = 0
    OBVIOUS
  <2>1. 0 \in 0..(Tile - 1) /\ Tile * m + 0 = Tile * m
    BY <1>1
  <2>2. (Tile * m + 0) % Tile = 0
    BY <1>1, <2>1, DivModUnique
  <2> QED BY <2>1, <2>2
<1>6. \A i \in Edge : a + i = At(t, r, i)
  BY DEF At
<1>7. \A i \in Edge : CoordOf(a + i) = CellIn(t, r, i) /\ a + i \in 0..(Size - 1)
  BY <1>6, AddressOfCell, AddressBelow
<1>8. a + VecBytes <= MemSize
  <2>1. Tile - 1 \in Edge
    BY <1>1 DEF Edge
  <2>2. a + (Tile - 1) \in 0..(MemSize - 1)
    BY <1>1, <1>7, <2>1
  <2>3. a \in Nat
    BY <1>2
  <2> QED BY <1>1, <2>2, <2>3
<1>9. a \in Nat /\ a % VecBytes = 0 /\ (MemSize + a) % VecBytes = 0
  <2> DEFINE m == t * Tile + r
             k == Tile * N + m
  <2> HIDE DEF m, k
  <2>1. a = Tile * m /\ m \in Nat /\ MemSize + a = Tile * k /\ k \in Nat
    BY <1>3, <1>4 DEF m, k
  <2>2. (Tile * m) % Tile = 0 /\ (Tile * k) % Tile = 0
    BY <1>5, <2>1, Zenon
  <2>3. a \in Nat
    BY <1>1, <2>1
  <2> QED BY <1>1, <2>1, <2>2, <2>3, Zenon
<1>10. \A i \in Lanes : CoordOf(a + i) = CellIn(t, r, i)
  BY <1>1, <1>7, Zenon
<1> QED BY <1>8, <1>9, <1>10

\* Row r2 of tile t2 holds the cells that row names.
RowHolds(addr, t2, r2) == addr = t2 * kTileBytes + r2 * Tile

LEMMA UpperRowAt ==
  ASSUME NEW q \in 0..1, NEW n \in 1..G, NEW t \in TilesOf(n), NEW ly \in Edge,
         ~Copied(q, n, ly), Pointed(n, t, 4)
  PROVE  \E t2 \in Tiles, r2 \in Edge :
           /\ RowHolds(sregs[BaseA(q, ly)] + OffA(q, ly), t2, r2)
           /\ \A i \in Lanes : UpperOf(q, t, ly, i) = CellIn(t2, r2, i)
<1>1. /\ t \in Tiles
      /\ groups[n].hasAbove <=> t >= tilesX
  BY TileOf
<1>2. Tile \in Nat \ {0} /\ Lanes = Edge
  BY Sizes
<1>3. /\ sregs[SR.SRC] = t * kTileBytes
      /\ groups[n].hasAbove => sregs[SR.ABOVE] = (t - tilesX) * kTileBytes
  BY DEF Pointed
<1>4. CASE ly % 2 = q
  <2>1. RowHolds(sregs[BaseA(q, ly)] + OffA(q, ly), t, ly)
    BY <1>3, <1>4 DEF BaseA, OffA, RowHolds
  <2>2. \A i \in Lanes : UpperOf(q, t, ly, i) = CellIn(t, ly, i)
    BY <1>4 DEF UpperOf
  <2> QED BY <1>1, <2>1, <2>2, Zenon
<1>5. CASE ly % 2 # q /\ ly # 0
  <2>1. ly - 1 \in Edge /\ (ly - 1) * Tile = ly * Tile - Tile
    BY <1>2, <1>5 DEF Edge
  <2>2. RowHolds(sregs[BaseA(q, ly)] + OffA(q, ly), t, ly - 1)
    BY <1>3, <1>5, <2>1 DEF BaseA, OffA, RowHolds
  <2>3. \A i \in Lanes : UpperOf(q, t, ly, i) = CellIn(t, ly - 1, i)
    <3> SUFFICES ASSUME NEW i \in Edge PROVE UpperOf(q, t, ly, i) = CellIn(t, ly - 1, i)
      BY <1>2, Zenon
    <3>1. Above(CellIn(t, ly, i)) = CellIn(t, ly - 1, i)
      BY <1>1, <1>5, AboveOfCell
    <3> QED BY <1>5, <3>1 DEF UpperOf
  <2> QED BY <1>1, <2>1, <2>2, <2>3, Zenon
<1>6. CASE ly % 2 # q /\ ly = 0
  <2>1. groups[n].hasAbove
    BY <1>6 DEF Copied, IsCopied
  <2>2. t - tilesX \in Tiles /\ Tile - 1 \in Edge
    BY <1>2, <2>1, TileNeighbours DEF Edge
  <2>3. RowHolds(sregs[BaseA(q, ly)] + OffA(q, ly), t - tilesX, Tile - 1)
    BY <1>3, <1>6, <2>1 DEF BaseA, OffA, RowHolds
  <2>4. \A i \in Lanes : UpperOf(q, t, ly, i) = CellIn(t - tilesX, Tile - 1, i)
    <3> SUFFICES ASSUME NEW i \in Edge PROVE UpperOf(q, t, ly, i) = CellIn(t - tilesX, Tile - 1, i)
      BY <1>2, Zenon
    <3>1. Above(CellIn(t, ly, i)) = CellIn(t - tilesX, Tile - 1, i)
      BY <1>1, <1>6, <2>1, AboveOfCell
    <3> QED BY <1>6, <3>1 DEF UpperOf
  <2> QED BY <2>2, <2>3, <2>4, Zenon
<1> QED BY <1>4, <1>5, <1>6

LEMMA LowerRowAt ==
  ASSUME NEW q \in 0..1, NEW n \in 1..G, NEW t \in TilesOf(n), NEW ly \in Edge,
         ~Copied(q, n, ly), Pointed(n, t, 4)
  PROVE  \E t2 \in Tiles, r2 \in Edge :
           /\ RowHolds(sregs[BaseB(q, ly)] + OffB(q, ly), t2, r2)
           /\ \A i \in Lanes : LowerOf(q, t, ly, i) = CellIn(t2, r2, i)
<1>1. /\ t \in Tiles
      /\ groups[n].hasBelow <=> t < tilesX * (tilesY - 1)
  BY TileOf
<1>2. Tile \in Nat \ {0} /\ Lanes = Edge
  BY Sizes
<1>3. /\ sregs[SR.SRC] = t * kTileBytes
      /\ groups[n].hasBelow => sregs[SR.BELOW] = (t + tilesX) * kTileBytes
  BY DEF Pointed
<1>4. CASE ly % 2 # q
  <2>1. RowHolds(sregs[BaseB(q, ly)] + OffB(q, ly), t, ly)
    BY <1>3, <1>4 DEF BaseB, OffB, RowHolds
  <2>2. \A i \in Lanes : LowerOf(q, t, ly, i) = CellIn(t, ly, i)
    BY <1>4 DEF LowerOf
  <2> QED BY <1>1, <2>1, <2>2, Zenon
<1>5. CASE ly % 2 = q /\ ly # Tile - 1
  <2>1. ly + 1 \in Edge /\ (ly + 1) * Tile = ly * Tile + Tile
    BY <1>2, <1>5 DEF Edge
  <2>2. RowHolds(sregs[BaseB(q, ly)] + OffB(q, ly), t, ly + 1)
    BY <1>3, <1>5, <2>1 DEF BaseB, OffB, RowHolds
  <2>3. \A i \in Lanes : LowerOf(q, t, ly, i) = CellIn(t, ly + 1, i)
    <3> SUFFICES ASSUME NEW i \in Edge PROVE LowerOf(q, t, ly, i) = CellIn(t, ly + 1, i)
      BY <1>2, Zenon
    <3>1. Below(CellIn(t, ly, i)) = CellIn(t, ly + 1, i)
      BY <1>1, <1>5, BelowOfCell
    <3> QED BY <1>5, <3>1 DEF LowerOf
  <2> QED BY <1>1, <2>1, <2>2, <2>3, Zenon
<1>6. CASE ly % 2 = q /\ ly = Tile - 1
  <2>1. groups[n].hasBelow
    BY <1>6 DEF Copied, IsCopied
  <2>2. t + tilesX \in Tiles /\ 0 \in Edge /\ 0 * Tile = 0
    BY <1>2, <2>1, TileNeighbours DEF Edge
  <2>3. RowHolds(sregs[BaseB(q, ly)] + OffB(q, ly), t + tilesX, 0)
    BY <1>3, <1>6, <2>1, <2>2 DEF BaseB, OffB, RowHolds
  <2>4. \A i \in Lanes : LowerOf(q, t, ly, i) = CellIn(t + tilesX, 0, i)
    <3> SUFFICES ASSUME NEW i \in Edge PROVE LowerOf(q, t, ly, i) = CellIn(t + tilesX, 0, i)
      BY <1>2, Zenon
    <3>1. Below(CellIn(t, ly, i)) = CellIn(t + tilesX, 0, i)
      BY <1>1, <1>6, <2>1, BelowOfCell
    <3> QED BY <1>6, <3>1 DEF LowerOf
  <2> QED BY <2>2, <2>3, <2>4, Zenon
<1> QED BY <1>4, <1>5, <1>6

\* What becomes of a cell without a partner, and of one with a partner.
LEMMA RowRule ==
  ASSUME NEW q \in 0..1, NEW s \in Grids, NEW n \in 1..G, NEW t \in TilesOf(n),
         NEW ly \in Edge, NEW i \in Lanes
  PROVE  LET p == CellIn(t, ly, i)
             u == s[UpperOf(q, t, ly, i)]
             l == s[LowerOf(q, t, ly, i)]
         IN  /\ p \in Coords
             /\ Copied(q, n, ly) => verticalCell(s, q, p) = s[p]
             /\ ~Copied(q, n, ly) =>
                  /\ u \in Cells /\ l \in Cells
                  /\ verticalCell(s, q, p) = IF ly % 2 = q
                       THEN (IF swapVertical(u, l) THEN l ELSE u)
                       ELSE (IF swapVertical(u, l) THEN u ELSE l)
<1> DEFINE p == CellIn(t, ly, i)
<1>1. /\ t \in Tiles
      /\ groups[n].hasAbove <=> t >= tilesX
      /\ groups[n].hasBelow <=> t < tilesX * (tilesY - 1)
  BY TileOf
<1>2. Lanes = Edge /\ Tile \in Nat \ {0}
  BY Sizes
<1>3. p \in Coords /\ p[2] % 2 = ly % 2 /\ s[p] \in Cells /\ sampleCell(s, p) = s[p]
  BY <1>1, <1>2, CellInside, RowParity DEF Grids, sampleCell
<1>4. CASE ly % 2 = q
  <2> DEFINE d == Below(p)
  <2>1. verticalCell(s, q, p) = IF swapVertical(s[p], sampleCell(s, d)) THEN sampleCell(s, d)
                                                                        ELSE s[p]
    BY <1>3, <1>4 DEF verticalCell
  <2>2. CASE Copied(q, n, ly)
    <3>1. ly = Tile - 1 /\ ~(t < tilesX * (tilesY - 1))
      BY <1>1, <1>4, <2>2 DEF Copied, IsCopied
    <3>2. d \notin Coords
      BY <1>1, <1>2, <3>1, BelowOfCell
    <3>3. sampleCell(s, d) = Wall
      BY <3>2 DEF sampleCell
    <3>4. ~swapVertical(s[p], Wall)
      BY <1>3, WallNeverSwaps
    <3> QED BY <1>3, <2>1, <2>2, <3>3, <3>4
  <2>3. CASE ~Copied(q, n, ly)
    <3>1. ly # Tile - 1 \/ t < tilesX * (tilesY - 1)
      BY <1>1, <1>4, <2>3 DEF Copied, IsCopied
    <3>2. d \in Coords
      <4>1. CASE ly # Tile - 1
        <5>1. ly + 1 \in Edge /\ d = CellIn(t, ly + 1, i)
          BY <1>1, <1>2, <4>1, BelowOfCell
        <5> QED BY <1>1, <1>2, <5>1, CellInside
      <4>2. CASE ly = Tile - 1
        <5>1. t + tilesX \in Tiles /\ d = CellIn(t + tilesX, 0, i) /\ 0 \in Edge
          BY <1>1, <1>2, <3>1, <4>2, BelowOfCell DEF Edge
        <5> QED BY <1>2, <5>1, CellInside
      <4> QED BY <4>1, <4>2
    <3>3. sampleCell(s, d) = s[d] /\ s[d] \in Cells
      BY <3>2 DEF sampleCell, Grids
    <3>4. UpperOf(q, t, ly, i) = p /\ LowerOf(q, t, ly, i) = d
      BY <1>4 DEF UpperOf, LowerOf
    <3> HIDE DEF p, d
    <3> QED BY <1>3, <1>4, <2>1, <2>3, <3>3, <3>4 DEF p
  <2> QED BY <2>2, <2>3
<1>5. CASE ly % 2 # q
  <2> DEFINE d == Above(p)
  <2>1. verticalCell(s, q, p) = IF swapVertical(sampleCell(s, d), s[p]) THEN sampleCell(s, d)
                                                                        ELSE s[p]
    BY <1>3, <1>5 DEF verticalCell
  <2>2. CASE Copied(q, n, ly)
    <3>1. ly = 0 /\ ~(t >= tilesX)
      BY <1>1, <1>5, <2>2 DEF Copied, IsCopied
    <3>2. d \notin Coords
      BY <1>1, <1>2, <3>1, AboveOfCell
    <3>3. sampleCell(s, d) = Wall
      BY <3>2 DEF sampleCell
    <3>4. ~swapVertical(Wall, s[p])
      BY <1>3, WallNeverSwaps
    <3> QED BY <1>3, <2>1, <2>2, <3>3, <3>4
  <2>3. CASE ~Copied(q, n, ly)
    <3>1. ly # 0 \/ t >= tilesX
      BY <1>1, <1>5, <2>3 DEF Copied, IsCopied
    <3>2. d \in Coords
      <4>1. CASE ly # 0
        <5>1. ly - 1 \in Edge /\ d = CellIn(t, ly - 1, i)
          BY <1>1, <1>2, <4>1, AboveOfCell
        <5> QED BY <1>1, <1>2, <5>1, CellInside
      <4>2. CASE ly = 0
        <5>1. t - tilesX \in Tiles /\ d = CellIn(t - tilesX, Tile - 1, i) /\ Tile - 1 \in Edge
          BY <1>1, <1>2, <3>1, <4>2, AboveOfCell DEF Edge
        <5> QED BY <1>2, <5>1, CellInside
      <4> QED BY <4>1, <4>2
    <3>3. sampleCell(s, d) = s[d] /\ s[d] \in Cells
      BY <3>2 DEF sampleCell, Grids
    <3>4. UpperOf(q, t, ly, i) = d /\ LowerOf(q, t, ly, i) = p
      BY <1>5 DEF UpperOf, LowerOf
    <3> HIDE DEF p, d
    <3> QED BY <1>3, <1>5, <2>1, <2>3, <3>3, <3>4 DEF p
  <2> QED BY <2>2, <2>3
<1> QED BY <1>4, <1>5

-----------------------------------------------------------------------------
(* A row of the result.                                                    *)

\* What follows row ly of tile t.
AfterRow(q, s, n, t) ==
  (\E ly \in Edge : AtRow(q, s, n, t, ly, 0)) \/ AtTail(q, s, n, t, 0)

\* An instruction that writes none of the scalar registers and no memory.
LEMMA RowAdvances ==
  ASSUME NEW q, NEW s, Stands(q, s), NEW n \in 1..G, NEW t \in TilesOf(n),
         NEW ly \in Edge, NEW j \in Nat, InRow(q, s, n, t, ly, j),
         Advances, sregs' = sregs, mem' = mem,
         \A v \in {VR.LUT, VR.WALL} : vregs'[v] = vregs[v]
  PROVE  InRow(q, s, n, t, ly, j + 1)'
<1> DEFINE m == t * kTileBytes + ly * Tile
           r == RowAt(q, n, ly)
<1>1. /\ pc = r + j /\ Spent(q, n, t) /\ Prepared(4) /\ Pointed(n, t, 4) /\ Written(q, s, m)
  BY DEF InRow
<1>2. Spent(q, n, t)'
  BY <1>1, StaysSpent
<1>3. Prepared(4)' /\ Pointed(n, t, 4)'
  BY <1>1, StaysPrepared DEF Untouched, Pointed
<1>4. Written(q, s, m)'
  <2> HIDE DEF m
  <2> QED BY <1>1, StaysWritten
<1>5. pc' = r + (j + 1)
  <2>1. r \in Nat
    BY RowPlaces
  <2> HIDE DEF r
  <2> QED BY <1>1, <2>1 DEF Advances
<1> QED BY <1>2, <1>3, <1>4, <1>5 DEF InRow

\* The store at the end of a row.
LEMMA RowDone ==
  ASSUME NEW q, NEW s, Stands(q, s), NEW n \in 1..G, NEW t \in TilesOf(n),
         NEW ly \in Edge, NEW j \in Nat, InRow(q, s, n, t, ly, j),
         RowAt(q, n, ly + 1) = RowAt(q, n, ly) + (j + 1),
         Advances, sregs' = sregs, vregs' = vregs,
         Written(q, s, (t * kTileBytes + ly * Tile) + Tile)'
  PROVE  AfterRow(q, s, n, t)'
<1> DEFINE r == RowAt(q, n, ly)
<1>1. /\ pc = r + j /\ Spent(q, n, t) /\ Prepared(4) /\ Pointed(n, t, 4)
  BY DEF InRow
<1>2. Spent(q, n, t)'
  BY <1>1, StaysSpent
<1>3. Prepared(4)' /\ Pointed(n, t, 4)'
  BY <1>1, StaysPrepared DEF Untouched, Pointed
<1>4. pc' = RowAt(q, n, ly + 1)
  <2>1. r \in Nat /\ RowAt(q, n, ly + 1) = r + (j + 1)
    BY RowPlaces
  <2> HIDE DEF r
  <2> QED BY <1>1, <2>1 DEF Advances
<1>5. /\ Tile \in Nat \ {0} /\ kTileBytes = Tile * Tile /\ kTileBytes \in Nat
      /\ t \in Nat /\ t * kTileBytes \in Nat /\ ly \in 0..(Tile - 1)
      /\ (t + 1) * kTileBytes = t * kTileBytes + kTileBytes
  <2>1. t \in Tiles
    BY TileOf
  <2>2. Tile \in Nat \ {0} /\ kTileBytes = Tile * Tile /\ kTileBytes \in Nat
    BY Sizes
  <2>3. ly \in 0..(Tile - 1)
    BY DEF Edge
  <2> QED BY <2>1, <2>2, <2>3, TileBytes
<1>6. CASE ly + 1 < Tile
  <2>1. PICK k \in Edge : k = ly + 1
    <3>1. ly + 1 \in Edge
      BY <1>5, <1>6 DEF Edge
    <3> QED BY <3>1
  <2>2. (t * kTileBytes + ly * Tile) + Tile = t * kTileBytes + k * Tile
    <3>1. k * Tile = ly * Tile + Tile /\ ly * Tile \in Nat
      BY <1>5, <2>1
    <3> DEFINE a == t * kTileBytes
               b == ly * Tile
    <3> HIDE DEF a, b
    <3> QED BY <1>5, <3>1 DEF a, b
  <2>3. Written(q, s, t * kTileBytes + k * Tile)'
    BY <2>2, Zenon
  <2>4. pc' = RowAt(q, n, k) + 0
    <3>1. RowAt(q, n, k) \in Nat
      BY RowPlaces
    <3> QED BY <1>4, <2>1, <3>1
  <2>5. AtRow(q, s, n, t, k, 0)'
    BY <1>2, <1>3, <2>3, <2>4 DEF AtRow, InRow, Paired, Lane
  <2> QED BY <2>5 DEF AfterRow
<1>7. CASE ~(ly + 1 < Tile)
  <2>1. ly + 1 = Tile
    BY <1>5, <1>7
  <2>2. (t * kTileBytes + ly * Tile) + Tile = (t + 1) * kTileBytes
    <3>1. Tile * Tile = ly * Tile + Tile /\ ly * Tile \in Nat
      BY <1>5, <2>1
    <3> DEFINE a == t * kTileBytes
               b == ly * Tile
               c == Tile * Tile
    <3> HIDE DEF a, b, c
    <3>2. c = b + Tile /\ kTileBytes = c
      BY <1>5, <3>1 DEF b, c
    <3> QED BY <1>5, <3>1, <3>2 DEF a, b
  <2>3. Written(q, s, (t + 1) * kTileBytes)'
    BY <2>2, Zenon
  <2>4. pc' = TailAt(q, n) + 0
    <3>1. TailAt(q, n) \in Nat /\ RowAt(q, n, Tile) = TailAt(q, n)
      BY GroupPlace, RowPlaces
    <3> QED BY <1>4, <2>1, <3>1
  <2>5. sregs'[SR.T] = t /\ sregs'[SR.END] = groups[n].end
    BY <1>1 DEF Pointed
  <2>6. AtTail(q, s, n, t, 0)'
    BY <1>2, <1>3, <2>3, <2>4, <2>5 DEF AtTail
  <2> QED BY <2>6 DEF AfterRow
<1> QED BY <1>6, <1>7

\* The store of a row that is what the rule makes of it.
LEMMA RowStored ==
  ASSUME NEW q, NEW s, Stands(q, s), NEW n \in 1..G, NEW t \in TilesOf(n),
         NEW ly \in Edge, NEW j \in Nat, InRow(q, s, n, t, ly, j),
         RowAt(q, n, ly + 1) = RowAt(q, n, ly) + (j + 1),
         NEW rd \in Vregs, Holds(q, pc, Op.VST, rd, SR.DST, 0, 0, ly * Tile),
         \A i \in Lanes : vregs[rd][i] = verticalCell(s, q, CellIn(t, ly, i))
  PROVE  Keeps(s) /\ AfterRow(q, s, n, t)'
<1> DEFINE m == t * kTileBytes + ly * Tile
<1>1. t \in Tiles /\ t * kTileBytes \in Nat /\ ly * Tile \in Nat /\ MemSize \in Nat
  BY TileOf, TileBytes, Sizes DEF Edge
<1>2. /\ m \in Nat /\ (MemSize + m) % VecBytes = 0 /\ m + VecBytes <= MemSize
      /\ \A i \in Lanes : CoordOf(m + i) = CellIn(t, ly, i)
  BY <1>1, RowAddress
<1>3. MemSize + m = sregs[SR.DST] + ly * Tile
  <2>1. sregs[SR.DST] = MemSize + t * kTileBytes
    BY DEF InRow, Pointed
  <2> DEFINE a == t * kTileBytes
             b == ly * Tile
  <2> HIDE DEF a, b
  <2>2. a \in Nat /\ b \in Nat /\ sregs[SR.DST] = MemSize + a
    BY <1>1, <2>1 DEF a, b
  <2>3. MemSize + (a + b) = sregs[SR.DST] + b
    BY <1>1, <2>2
  <2> QED BY <2>3 DEF a, b
<1>4. Written(q, s, m)
  BY DEF InRow
<1> HIDE DEF m
<1>5. \A i \in Lanes : vregs[rd][i] = verticalCell(s, q, CoordOf(m + i))
  BY <1>2
<1>6. /\ Keeps(s) /\ Advances /\ sregs' = sregs /\ vregs' = vregs
      /\ Written(q, s, m + VecBytes)'
  BY <1>2, <1>3, <1>4, <1>5, StoreStep
<1>7. Written(q, s, (t * kTileBytes + ly * Tile) + Tile)'
  <2>1. VecBytes = Tile
    BY Sizes
  <2> QED BY <1>6, <2>1, Zenon DEF m
<1> QED BY <1>6, <1>7, RowDone

LEMMA CopiedStep ==
  ASSUME NEW q, NEW s, Stands(q, s), NEW n \in 1..G, NEW t \in TilesOf(n),
         NEW ly \in Edge, NEW j \in 0..8, Copied(q, n, ly), AtRow(q, s, n, t, ly, j)
  PROVE  Keeps(s) /\ (AtRow(q, s, n, t, ly, 1) \/ AfterRow(q, s, n, t))'
<1> DEFINE r == RowAt(q, n, ly)
           m == t * kTileBytes + ly * Tile
<1>1. /\ j \in 0..1 /\ InRow(q, s, n, t, ly, j)
      /\ j = 1 => \A i \in Lanes : vregs[VR.A][i] = verticalCell(s, q, CellIn(t, ly, i))
  BY DEF AtRow
<1>2. pc = r + j
  BY <1>1 DEF InRow
<1>3. /\ r \in Nat /\ RowAt(q, n, ly + 1) = r + 2
      /\ Holds(q, r, Op.VLD, VR.A, SR.SRC, 0, 0, ly * Tile)
      /\ Holds(q, r + 1, Op.VST, VR.A, SR.DST, 0, 0, ly * Tile)
  BY InCopiedRow, Zenon DEF Copied
<1> HIDE DEF r
<1>4. VR.A \in Vregs /\ VR.LUT \in Vregs /\ VR.WALL \in Vregs
  BY RegistersNamed
<1>5. CASE j = 0
  <2>1. pc = r
    BY <1>2, <1>3, <1>5
  <2>2. t \in Tiles /\ t * kTileBytes \in Nat /\ ly * Tile \in Nat
    BY TileOf, TileBytes, Sizes DEF Edge
  <2>3. /\ m \in Nat /\ m % VecBytes = 0 /\ m + VecBytes <= MemSize
        /\ \A i \in Lanes : CoordOf(m + i) = CellIn(t, ly, i)
    BY <2>2, RowAddress
  <2>4. m = sregs[SR.SRC] + ly * Tile
    BY <1>1 DEF InRow, Pointed
  <2>5. Holds(q, pc, Op.VLD, VR.A, SR.SRC, 0, 0, ly * Tile)
    BY <1>3, <2>1
  <2> HIDE DEF m
  <2>6. /\ Keeps(s) /\ Advances /\ mem' = mem /\ sregs' = sregs
        /\ \A v \in Vregs : v # VR.A => vregs'[v] = vregs[v]
        /\ \A i \in Lanes : vregs'[VR.A][i] = s[CoordOf(m + i)]
    BY <1>4, <2>3, <2>4, <2>5, LoadStep
  <2>7. \A i \in Lanes : vregs'[VR.A][i] = verticalCell(s, q, CellIn(t, ly, i))
    <3> SUFFICES ASSUME NEW i \in Lanes
                 PROVE  vregs'[VR.A][i] = verticalCell(s, q, CellIn(t, ly, i))
      OBVIOUS
    <3>1. s \in Grids /\ q \in 0..1
      BY StandsTyped DEF Stands, HoldsSource
    <3>2. verticalCell(s, q, CellIn(t, ly, i)) = s[CellIn(t, ly, i)]
      BY <3>1, RowRule
    <3> QED BY <2>3, <2>6, <3>2
  <2>8. InRow(q, s, n, t, ly, 1)'
    <3>1. \A v \in {VR.LUT, VR.WALL} : vregs'[v] = vregs[v]
      BY <1>4, <2>6, Registers
    <3>2. InRow(q, s, n, t, ly, 0 + 1)'
      BY <1>1, <1>5, <2>6, <3>1, RowAdvances
    <3>3. 0 + 1 = 1
      OBVIOUS
    <3> QED BY <3>2, <3>3, Zenon
  <2>9. AtRow(q, s, n, t, ly, 1)'
    BY <2>7, <2>8 DEF AtRow
  <2> QED BY <2>6, <2>9
<1>6. CASE j = 1
  <2>1. Holds(q, pc, Op.VST, VR.A, SR.DST, 0, 0, ly * Tile)
    BY <1>2, <1>3, <1>6
  <2>2. RowAt(q, n, ly + 1) = RowAt(q, n, ly) + (1 + 1)
    BY <1>3 DEF r
  <2> QED BY <1>1, <1>4, <1>6, <2>1, <2>2, RowStored
<1> QED BY <1>1, <1>5, <1>6

-----------------------------------------------------------------------------
(* The nine instructions of a row whose cells have partners.               *)

\* The cells of the pair of lane i, and what becomes of that lane.
UpperCell(q, s, t, ly, i) == s[UpperOf(q, t, ly, i)]
LowerCell(q, s, t, ly, i) == s[LowerOf(q, t, ly, i)]
ResultAt(q, s, t, ly, i)  == verticalCell(s, q, CellIn(t, ly, i))

LaneAt(q, s, t, ly, i, j) ==
  Lane(j, i, UpperCell(q, s, t, ly, i), LowerCell(q, s, t, ly, i), ResultAt(q, s, t, ly, i))

\* What a paired row needs to know of its lanes.
LEMMA PairCells ==
  ASSUME NEW q, NEW s, Stands(q, s), NEW n \in 1..G, NEW t \in TilesOf(n),
         NEW ly \in Edge, ~Copied(q, n, ly), NEW i \in Lanes
  PROVE  /\ UpperCell(q, s, t, ly, i) \in Cells /\ LowerCell(q, s, t, ly, i) \in Cells
         /\ ly % 2 = q => ResultAt(q, s, t, ly, i) =
              IF swapVertical(UpperCell(q, s, t, ly, i), LowerCell(q, s, t, ly, i))
                THEN LowerCell(q, s, t, ly, i) ELSE UpperCell(q, s, t, ly, i)
         /\ ly % 2 # q => ResultAt(q, s, t, ly, i) =
              IF swapVertical(UpperCell(q, s, t, ly, i), LowerCell(q, s, t, ly, i))
                THEN UpperCell(q, s, t, ly, i) ELSE LowerCell(q, s, t, ly, i)
<1>1. s \in Grids /\ q \in 0..1
  BY StandsTyped DEF Stands, HoldsSource
<1> DEFINE u == s[UpperOf(q, t, ly, i)]
           l == s[LowerOf(q, t, ly, i)]
<1>2. /\ u \in Cells /\ l \in Cells
      /\ verticalCell(s, q, CellIn(t, ly, i)) = IF ly % 2 = q
           THEN (IF swapVertical(u, l) THEN l ELSE u)
           ELSE (IF swapVertical(u, l) THEN u ELSE l)
  BY <1>1, RowRule
<1> HIDE DEF u, l
<1> QED BY <1>2 DEF UpperCell, LowerCell, ResultAt, u, l

\* An instruction of the row other than the store ends where the next one starts.
LEMMA PairedOn ==
  ASSUME NEW q, NEW s, Stands(q, s), NEW n \in 1..G, NEW t \in TilesOf(n),
         NEW ly \in Edge, ~Copied(q, n, ly), NEW j \in 0..7, NEW k, k = j + 1,
         InRow(q, s, n, t, ly, j), Advances, sregs' = sregs, mem' = mem,
         NEW rd \in Vregs, rd # VR.LUT, rd # VR.WALL,
         \A v \in Vregs : v # rd => vregs'[v] = vregs[v],
         \A i \in Lanes : LaneAt(q, s, t, ly, i, k)'
  PROVE  AtRow(q, s, n, t, ly, k)'
<1>1. \A v \in {VR.LUT, VR.WALL} : vregs'[v] = vregs[v]
  BY RegistersNamed
<1>2. InRow(q, s, n, t, ly, j + 1)'
  BY <1>1, RowAdvances
<1>3. InRow(q, s, n, t, ly, k)'
  BY <1>2, Zenon
<1>4. Paired(q, s, t, ly, k)'
  BY Zenon DEF Paired, LaneAt, UpperCell, LowerCell, ResultAt
<1> QED BY <1>3, <1>4, Zenon DEF AtRow

\* The two loads.
LEMMA PairedLoad ==
  ASSUME NEW q, NEW s, Stands(q, s), NEW n \in 1..G, NEW t \in TilesOf(n),
         NEW ly \in Edge, ~Copied(q, n, ly), NEW j \in 0..1, InRow(q, s, n, t, ly, j),
         \A i \in Lanes : LaneAt(q, s, t, ly, i, j)
  PROVE  Keeps(s) /\ AtRow(q, s, n, t, ly, j + 1)'
<1> DEFINE r == RowAt(q, n, ly)
<1>1. /\ r \in Nat
      /\ Holds(q, r, Op.VLD, VR.A, BaseA(q, ly), 0, 0, OffA(q, ly))
      /\ Holds(q, r + 1, Op.VLD, VR.B, BaseB(q, ly), 0, 0, OffB(q, ly))
  BY InPairedRow, Zenon DEF Copied
<1>2. pc = r + j /\ Pointed(n, t, 4)
  BY DEF InRow
<1>3. q \in 0..1
  BY StandsTyped
<1>4. /\ VR.A \in Vregs /\ VR.B \in Vregs /\ VR.A # VR.B
      /\ VR.A # VR.LUT /\ VR.A # VR.WALL /\ VR.B # VR.LUT /\ VR.B # VR.WALL
  BY RegistersNamed, Registers
<1> HIDE DEF r
<1>5. CASE j = 0
  <2>1. Holds(q, pc, Op.VLD, VR.A, BaseA(q, ly), 0, 0, OffA(q, ly))
    <3>1. pc = r
      BY <1>1, <1>2, <1>5
    <3> QED BY <1>1, <3>1
  <2>2. PICK t2 \in Tiles, r2 \in Edge :
          /\ RowHolds(sregs[BaseA(q, ly)] + OffA(q, ly), t2, r2)
          /\ \A i \in Lanes : UpperOf(q, t, ly, i) = CellIn(t2, r2, i)
    BY <1>2, <1>3, UpperRowAt
  <2>3. PICK a : a = sregs[BaseA(q, ly)] + OffA(q, ly)
    OBVIOUS
  <2>4. /\ a \in Nat /\ a % VecBytes = 0 /\ a + VecBytes <= MemSize
        /\ \A i \in Lanes : CoordOf(a + i) = CellIn(t2, r2, i)
    <3>1. a = t2 * kTileBytes + r2 * Tile
      BY <2>2, <2>3 DEF RowHolds
    <3> QED BY <3>1, RowAddress
  <2>5. /\ Keeps(s) /\ Advances /\ mem' = mem /\ sregs' = sregs
        /\ \A v \in Vregs : v # VR.A => vregs'[v] = vregs[v]
        /\ \A i \in Lanes : vregs'[VR.A][i] = s[CoordOf(a + i)]
    BY <1>4, <2>1, <2>3, <2>4, LoadStep
  <2>6. \A i \in Lanes : LaneAt(q, s, t, ly, i, 1)'
    <3> SUFFICES ASSUME NEW i \in Lanes PROVE LaneAt(q, s, t, ly, i, 1)'
      OBVIOUS
    <3>1. vregs'[VR.A][i] = UpperCell(q, s, t, ly, i)
      BY <2>2, <2>4, <2>5 DEF UpperCell
    <3> QED BY <3>1 DEF LaneAt, Lane
  <2>7. 1 = j + 1
    BY <1>5
  <2>8. AtRow(q, s, n, t, ly, 1)'
    BY <1>4, <2>5, <2>6, <2>7, PairedOn
  <2> QED BY <2>5, <2>7, <2>8, Zenon
<1>6. CASE j = 1
  <2>1. Holds(q, pc, Op.VLD, VR.B, BaseB(q, ly), 0, 0, OffB(q, ly))
    BY <1>1, <1>2, <1>6
  <2>2. PICK t2 \in Tiles, r2 \in Edge :
          /\ RowHolds(sregs[BaseB(q, ly)] + OffB(q, ly), t2, r2)
          /\ \A i \in Lanes : LowerOf(q, t, ly, i) = CellIn(t2, r2, i)
    BY <1>2, <1>3, LowerRowAt
  <2>3. PICK a : a = sregs[BaseB(q, ly)] + OffB(q, ly)
    OBVIOUS
  <2>4. /\ a \in Nat /\ a % VecBytes = 0 /\ a + VecBytes <= MemSize
        /\ \A i \in Lanes : CoordOf(a + i) = CellIn(t2, r2, i)
    <3>1. a = t2 * kTileBytes + r2 * Tile
      BY <2>2, <2>3 DEF RowHolds
    <3> QED BY <3>1, RowAddress
  <2>5. /\ Keeps(s) /\ Advances /\ mem' = mem /\ sregs' = sregs
        /\ \A v \in Vregs : v # VR.B => vregs'[v] = vregs[v]
        /\ \A i \in Lanes : vregs'[VR.B][i] = s[CoordOf(a + i)]
    BY <1>4, <2>1, <2>3, <2>4, LoadStep
  <2>6. \A i \in Lanes : LaneAt(q, s, t, ly, i, 2)'
    <3> SUFFICES ASSUME NEW i \in Lanes PROVE LaneAt(q, s, t, ly, i, 2)'
      OBVIOUS
    <3>1. vregs'[VR.B][i] = LowerCell(q, s, t, ly, i)
      BY <2>2, <2>4, <2>5 DEF LowerCell
    <3>2. LaneAt(q, s, t, ly, i, 1)
      BY <1>6
    <3>3. vregs'[VR.A][i] = UpperCell(q, s, t, ly, i)
      BY <1>4, <2>5, <3>2 DEF LaneAt, Lane
    <3> QED BY <3>1, <3>3 DEF LaneAt, Lane
  <2>7. 2 = j + 1
    BY <1>6
  <2>8. AtRow(q, s, n, t, ly, 2)'
    BY <1>4, <2>5, <2>6, <2>7, PairedOn
  <2> QED BY <2>5, <2>7, <2>8, Zenon
<1> QED BY <1>5, <1>6

\* The five instructions that compare, and the one that blends.
LEMMA PairedVector ==
  ASSUME NEW q, NEW s, Stands(q, s), NEW n \in 1..G, NEW t \in TilesOf(n),
         NEW ly \in Edge, ~Copied(q, n, ly), NEW j \in 2..7, NEW k, k = j + 1,
         InRow(q, s, n, t, ly, j), \A i \in Lanes : LaneAt(q, s, t, ly, i, j),
         NEW op \in VectorOps, NEW rd \in Vregs, rd # VR.LUT, rd # VR.WALL,
         NEW rs1 \in Vregs, NEW rs2 \in Vregs, NEW rs3 \in Vregs,
         Holds(q, pc, op, rd, rs1, rs2, rs3, 0), op = Op.VSHUF => rd # rs1,
         \A i \in Lanes :
           /\ LaneAt(q, s, t, ly, i, j) /\ Yields(op, rs1, rs2, rs3, 0, i, vregs'[rd][i])
           /\ \A v \in Vregs : v # rd => vregs'[v] = vregs[v]
           => LaneAt(q, s, t, ly, i, k)'
  PROVE  Keeps(s) /\ AtRow(q, s, n, t, ly, j + 1)'
<1>1. /\ Keeps(s) /\ Advances /\ mem' = mem /\ sregs' = sregs
      /\ \A v \in Vregs : v # rd => vregs'[v] = vregs[v]
      /\ \A i \in Lanes : Yields(op, rs1, rs2, rs3, 0, i, vregs'[rd][i])
  BY VectorStep, Zenon
<1>2. \A i \in Lanes : LaneAt(q, s, t, ly, i, k)'
  BY <1>1, Zenon
<1>3. AtRow(q, s, n, t, ly, k)'
  BY <1>1, <1>2, PairedOn
<1> QED BY <1>1, <1>3, Zenon

LEMMA PairedLookup ==
  ASSUME NEW q, NEW s, Stands(q, s), NEW n \in 1..G, NEW t \in TilesOf(n),
         NEW ly \in Edge, ~Copied(q, n, ly), NEW j \in 2..3, InRow(q, s, n, t, ly, j),
         \A i \in Lanes : LaneAt(q, s, t, ly, i, j)
  PROVE  Keeps(s) /\ AtRow(q, s, n, t, ly, j + 1)'
<1> DEFINE r == RowAt(q, n, ly)
<1>1. /\ r \in Nat
      /\ Holds(q, r + 2, Op.VSHUF, VR.T0, VR.LUT, VR.A, 0, 0)
      /\ Holds(q, r + 3, Op.VSHUF, VR.T1, VR.LUT, VR.B, 0, 0)
  BY InPairedRow, Zenon DEF Copied
<1>2. pc = r + j /\ Prepared(4)
  BY DEF InRow
<1>3. \A i \in Lanes : vregs[VR.LUT][i] = kDensityRom[i % 16]
  BY <1>2 DEF Prepared
<1> HIDE DEF r
<1>4. /\ Op.VSHUF \in VectorOps /\ 0 \in Vregs
      /\ VR.T0 \in Vregs /\ VR.T1 \in Vregs /\ VR.A \in Vregs /\ VR.B \in Vregs
      /\ VR.LUT \in Vregs
      /\ VR.T0 # VR.LUT /\ VR.T0 # VR.WALL /\ VR.T1 # VR.LUT /\ VR.T1 # VR.WALL
      /\ VR.T0 # VR.A /\ VR.T0 # VR.B /\ VR.T1 # VR.A /\ VR.T1 # VR.B /\ VR.T0 # VR.T1
  BY OpClasses, RegistersNamed, Registers DEF Vregs
<1>5. ASSUME NEW i \in Lanes
      PROVE  /\ vregs[VR.LUT][UpperCell(q, s, t, ly, i) % 16] = densityBiased(UpperCell(q, s, t, ly, i))
             /\ vregs[VR.LUT][LowerCell(q, s, t, ly, i) % 16] = densityBiased(LowerCell(q, s, t, ly, i))
  BY <1>3, PairCells, LaneRules
<1>6. CASE j = 2
  <2>1. Holds(q, pc, Op.VSHUF, VR.T0, VR.LUT, VR.A, 0, 0)
    BY <1>1, <1>2, <1>6
  <2>2. ASSUME NEW i \in Lanes, LaneAt(q, s, t, ly, i, j),
               Yields(Op.VSHUF, VR.LUT, VR.A, 0, 0, i, vregs'[VR.T0][i]),
               \A v \in Vregs : v # VR.T0 => vregs'[v] = vregs[v]
        PROVE  LaneAt(q, s, t, ly, i, 3)'
    <3>1. vregs[VR.A][i] = UpperCell(q, s, t, ly, i) /\ vregs[VR.B][i] = LowerCell(q, s, t, ly, i)
      BY <1>6, <2>2 DEF LaneAt, Lane
    <3>2. vregs'[VR.T0][i] = vregs[VR.LUT][vregs[VR.A][i] % 16]
      BY <2>2 DEF Yields
    <3>3. vregs'[VR.T0][i] = densityBiased(UpperCell(q, s, t, ly, i))
      BY <1>5, <3>1, <3>2
    <3>4. vregs'[VR.A] = vregs[VR.A] /\ vregs'[VR.B] = vregs[VR.B]
      BY <1>4, <2>2
    <3> QED BY <3>1, <3>3, <3>4 DEF LaneAt, Lane
  <2>3. 3 = j + 1 /\ j \in 2..7
    BY <1>6
  <2> QED BY <1>4, <2>1, <2>2, <2>3, PairedVector, Zenon
<1>7. CASE j = 3
  <2>1. Holds(q, pc, Op.VSHUF, VR.T1, VR.LUT, VR.B, 0, 0)
    BY <1>1, <1>2, <1>7
  <2>2. ASSUME NEW i \in Lanes, LaneAt(q, s, t, ly, i, j),
               Yields(Op.VSHUF, VR.LUT, VR.B, 0, 0, i, vregs'[VR.T1][i]),
               \A v \in Vregs : v # VR.T1 => vregs'[v] = vregs[v]
        PROVE  LaneAt(q, s, t, ly, i, 4)'
    <3>1. /\ vregs[VR.A][i] = UpperCell(q, s, t, ly, i) /\ vregs[VR.B][i] = LowerCell(q, s, t, ly, i)
          /\ vregs[VR.T0][i] = densityBiased(UpperCell(q, s, t, ly, i))
      BY <1>7, <2>2 DEF LaneAt, Lane
    <3>2. vregs'[VR.T1][i] = vregs[VR.LUT][vregs[VR.B][i] % 16]
      BY <2>2 DEF Yields
    <3>3. vregs'[VR.T1][i] = densityBiased(LowerCell(q, s, t, ly, i))
      BY <1>5, <3>1, <3>2
    <3>4. vregs'[VR.A] = vregs[VR.A] /\ vregs'[VR.B] = vregs[VR.B] /\ vregs'[VR.T0] = vregs[VR.T0]
      BY <1>4, <2>2
    <3> QED BY <3>1, <3>3, <3>4 DEF LaneAt, Lane
  <2>3. 4 = j + 1 /\ j \in 2..7
    BY <1>7
  <2> QED BY <1>4, <2>1, <2>2, <2>3, PairedVector, Zenon
<1> QED BY <1>6, <1>7

LEMMA PairedCompare ==
  ASSUME NEW q, NEW s, Stands(q, s), NEW n \in 1..G, NEW t \in TilesOf(n),
         NEW ly \in Edge, ~Copied(q, n, ly), NEW j \in 4..6, InRow(q, s, n, t, ly, j),
         \A i \in Lanes : LaneAt(q, s, t, ly, i, j)
  PROVE  Keeps(s) /\ AtRow(q, s, n, t, ly, j + 1)'
<1> DEFINE r == RowAt(q, n, ly)
<1>1. /\ r \in Nat
      /\ Holds(q, r + 4, Op.VCMPGT, VR.MASK, VR.T0, VR.T1, 0, 0)
      /\ Holds(q, r + 5, Op.VCMPEQ, VR.WALL_CMP, VR.A, VR.WALL, 0, 0)
      /\ Holds(q, r + 6, Op.VANDN, VR.MASK, VR.WALL_CMP, VR.MASK, 0, 0)
  BY InPairedRow, Zenon DEF Copied
<1>2. pc = r + j /\ Prepared(4)
  BY DEF InRow
<1>3. \A i \in Lanes : vregs[VR.WALL][i] = Wall
  BY <1>2 DEF Prepared
<1> HIDE DEF r
<1>4. /\ Op.VCMPGT \in VectorOps /\ Op.VCMPEQ \in VectorOps /\ Op.VANDN \in VectorOps
      /\ Op.VCMPGT # Op.VSHUF /\ Op.VCMPEQ # Op.VSHUF /\ Op.VANDN # Op.VSHUF /\ 0 \in Vregs
  BY OpClasses, OpCodes DEF Vregs
<1>5. /\ VR.T0 \in Vregs /\ VR.T1 \in Vregs /\ VR.A \in Vregs /\ VR.B \in Vregs
      /\ VR.MASK \in Vregs /\ VR.WALL_CMP \in Vregs /\ VR.WALL \in Vregs
  BY RegistersNamed
<1>6. /\ VR.MASK \notin {VR.LUT, VR.WALL, VR.A, VR.B, VR.T0, VR.T1, VR.WALL_CMP}
      /\ VR.WALL_CMP \notin {VR.LUT, VR.WALL, VR.A, VR.B, VR.T0, VR.T1}
  BY Registers
<1>7. ASSUME NEW i \in Lanes
      PROVE  /\ denserThan(UpperCell(q, s, t, ly, i), LowerCell(q, s, t, ly, i)) \in BOOLEAN
             /\ Mask(Signed(densityBiased(UpperCell(q, s, t, ly, i)), 256)
                       > Signed(densityBiased(LowerCell(q, s, t, ly, i)), 256))
                  = Mask(denserThan(UpperCell(q, s, t, ly, i), LowerCell(q, s, t, ly, i)))
             /\ Mask(~(UpperCell(q, s, t, ly, i) = Wall)
                       /\ denserThan(UpperCell(q, s, t, ly, i), LowerCell(q, s, t, ly, i)))
                  = Mask(swapVertical(UpperCell(q, s, t, ly, i), LowerCell(q, s, t, ly, i)))
  <2> DEFINE u == UpperCell(q, s, t, ly, i)
             l == LowerCell(q, s, t, ly, i)
  <2>1. u \in Cells /\ l \in Cells
    BY PairCells
  <2> HIDE DEF u, l
  <2>2. /\ Signed(densityBiased(u), 256) > Signed(densityBiased(l), 256) <=> denserThan(u, l)
        /\ Mask(~(u = Wall) /\ denserThan(u, l)) = Mask(swapVertical(u, l))
    BY <2>1, LaneRules
  <2>3. denserThan(u, l) \in BOOLEAN
    BY DEF denserThan
  <2>4. Mask(Signed(densityBiased(u), 256) > Signed(densityBiased(l), 256)) = Mask(denserThan(u, l))
    BY <2>2 DEF Mask
  <2> QED BY <2>2, <2>3, <2>4 DEF u, l
<1>8. CASE j = 4
  <2>1. Holds(q, pc, Op.VCMPGT, VR.MASK, VR.T0, VR.T1, 0, 0)
    BY <1>1, <1>2, <1>8
  <2>2. ASSUME NEW i \in Lanes, LaneAt(q, s, t, ly, i, j),
               Yields(Op.VCMPGT, VR.T0, VR.T1, 0, 0, i, vregs'[VR.MASK][i]),
               \A v \in Vregs : v # VR.MASK => vregs'[v] = vregs[v]
        PROVE  LaneAt(q, s, t, ly, i, 5)'
    <3> DEFINE u == UpperCell(q, s, t, ly, i)
               l == LowerCell(q, s, t, ly, i)
    <3>1. /\ vregs[VR.A][i] = u /\ vregs[VR.B][i] = l
          /\ vregs[VR.T0][i] = densityBiased(u) /\ vregs[VR.T1][i] = densityBiased(l)
      BY <1>8, <2>2 DEF LaneAt, Lane
    <3>2. vregs'[VR.MASK][i] = Mask(Signed(vregs[VR.T0][i], 256) > Signed(vregs[VR.T1][i], 256))
      BY <2>2 DEF Yields
    <3>3. vregs'[VR.MASK][i] = Mask(denserThan(u, l))
      BY <1>7, <3>1, <3>2
    <3>4. /\ vregs'[VR.A] = vregs[VR.A] /\ vregs'[VR.B] = vregs[VR.B]
          /\ vregs'[VR.T0] = vregs[VR.T0] /\ vregs'[VR.T1] = vregs[VR.T1]
      BY <1>5, <1>6, <2>2
    <3> QED BY <3>1, <3>3, <3>4 DEF LaneAt, Lane
  <2>3. 5 = j + 1 /\ j \in 2..7 /\ VR.MASK # VR.LUT /\ VR.MASK # VR.WALL
    BY <1>6, <1>8
  <2> QED BY <1>4, <1>5, <2>1, <2>2, <2>3, PairedVector, Zenon
<1>9. CASE j = 5
  <2>1. Holds(q, pc, Op.VCMPEQ, VR.WALL_CMP, VR.A, VR.WALL, 0, 0)
    BY <1>1, <1>2, <1>9
  <2>2. ASSUME NEW i \in Lanes, LaneAt(q, s, t, ly, i, j),
               Yields(Op.VCMPEQ, VR.A, VR.WALL, 0, 0, i, vregs'[VR.WALL_CMP][i]),
               \A v \in Vregs : v # VR.WALL_CMP => vregs'[v] = vregs[v]
        PROVE  LaneAt(q, s, t, ly, i, 6)'
    <3> DEFINE u == UpperCell(q, s, t, ly, i)
               l == LowerCell(q, s, t, ly, i)
    <3>1. /\ vregs[VR.A][i] = u /\ vregs[VR.B][i] = l
          /\ vregs[VR.T0][i] = densityBiased(u) /\ vregs[VR.T1][i] = densityBiased(l)
          /\ vregs[VR.MASK][i] = Mask(denserThan(u, l))
      BY <1>9, <2>2 DEF LaneAt, Lane
    <3>2. vregs'[VR.WALL_CMP][i] = Mask(vregs[VR.A][i] = vregs[VR.WALL][i])
      BY <2>2 DEF Yields
    <3>3. vregs'[VR.WALL_CMP][i] = Mask(u = Wall)
      BY <1>3, <3>1, <3>2
    <3>4. /\ vregs'[VR.A] = vregs[VR.A] /\ vregs'[VR.B] = vregs[VR.B]
          /\ vregs'[VR.T0] = vregs[VR.T0] /\ vregs'[VR.T1] = vregs[VR.T1]
          /\ vregs'[VR.MASK] = vregs[VR.MASK]
      BY <1>5, <1>6, <2>2
    <3> QED BY <3>1, <3>3, <3>4 DEF LaneAt, Lane
  <2>3. 6 = j + 1 /\ j \in 2..7 /\ VR.WALL_CMP # VR.LUT /\ VR.WALL_CMP # VR.WALL
    BY <1>6, <1>9
  <2> QED BY <1>4, <1>5, <2>1, <2>2, <2>3, PairedVector, Zenon
<1>10. CASE j = 6
  <2>1. Holds(q, pc, Op.VANDN, VR.MASK, VR.WALL_CMP, VR.MASK, 0, 0)
    BY <1>1, <1>2, <1>10
  <2>2. ASSUME NEW i \in Lanes, LaneAt(q, s, t, ly, i, j),
               Yields(Op.VANDN, VR.WALL_CMP, VR.MASK, 0, 0, i, vregs'[VR.MASK][i]),
               \A v \in Vregs : v # VR.MASK => vregs'[v] = vregs[v]
        PROVE  LaneAt(q, s, t, ly, i, 7)'
    <3> DEFINE u == UpperCell(q, s, t, ly, i)
               l == LowerCell(q, s, t, ly, i)
    <3>1. /\ vregs[VR.A][i] = u /\ vregs[VR.B][i] = l
          /\ vregs[VR.T0][i] = densityBiased(u) /\ vregs[VR.T1][i] = densityBiased(l)
          /\ vregs[VR.MASK][i] = Mask(denserThan(u, l)) /\ vregs[VR.WALL_CMP][i] = Mask(u = Wall)
      BY <1>10, <2>2 DEF LaneAt, Lane
    <3>2. vregs'[VR.MASK][i] = BitAnd(8, 255 - vregs[VR.WALL_CMP][i], vregs[VR.MASK][i])
      BY <2>2 DEF Yields
    <3>3. vregs'[VR.MASK][i] = Mask(swapVertical(u, l))
      <4>1. denserThan(u, l) \in BOOLEAN /\ (u = Wall) \in BOOLEAN
        BY <1>7
      <4>2. BitAnd(8, 255 - Mask(u = Wall), Mask(denserThan(u, l)))
              = Mask(~(u = Wall) /\ denserThan(u, l))
        BY <4>1, AndOfMasks, Zenon
      <4>3. vregs'[VR.MASK][i] = BitAnd(8, 255 - Mask(u = Wall), Mask(denserThan(u, l)))
        BY <3>1, <3>2, Zenon
      <4> QED BY <1>7, <4>2, <4>3, Zenon
    <3>4. /\ vregs'[VR.A] = vregs[VR.A] /\ vregs'[VR.B] = vregs[VR.B]
          /\ vregs'[VR.T0] = vregs[VR.T0] /\ vregs'[VR.T1] = vregs[VR.T1]
          /\ vregs'[VR.WALL_CMP] = vregs[VR.WALL_CMP]
      BY <1>5, <1>6, <2>2
    <3> QED BY <3>1, <3>3, <3>4 DEF LaneAt, Lane
  <2>3. 7 = j + 1 /\ j \in 2..7 /\ VR.MASK # VR.LUT /\ VR.MASK # VR.WALL
    BY <1>6, <1>10
  <2> QED BY <1>4, <1>5, <2>1, <2>2, <2>3, PairedVector, Zenon
<1> QED BY <1>8, <1>9, <1>10

LEMMA PairedBlend ==
  ASSUME NEW q, NEW s, Stands(q, s), NEW n \in 1..G, NEW t \in TilesOf(n),
         NEW ly \in Edge, ~Copied(q, n, ly), InRow(q, s, n, t, ly, 7),
         \A i \in Lanes : LaneAt(q, s, t, ly, i, 7)
  PROVE  Keeps(s) /\ AtRow(q, s, n, t, ly, 8)'
<1> DEFINE r == RowAt(q, n, ly)
<1>1. /\ r \in Nat
      /\ ly % 2 = q => Holds(q, r + 7, Op.VBLEND, VR.T0, VR.A, VR.B, VR.MASK, 0)
      /\ ly % 2 # q => Holds(q, r + 7, Op.VBLEND, VR.T0, VR.B, VR.A, VR.MASK, 0)
  BY InPairedRow, Zenon DEF Copied
<1>2. pc = r + 7
  BY DEF InRow
<1> HIDE DEF r
<1>3. /\ Op.VBLEND \in VectorOps /\ Op.VBLEND # Op.VSHUF
      /\ VR.T0 \in Vregs /\ VR.A \in Vregs /\ VR.B \in Vregs /\ VR.MASK \in Vregs
      /\ VR.T0 # VR.LUT /\ VR.T0 # VR.WALL /\ VR.T1 \in Vregs /\ VR.WALL_CMP \in Vregs
      /\ VR.T0 \notin {VR.A, VR.B, VR.T1, VR.MASK, VR.WALL_CMP}
      /\ 7 \in 2..7 /\ 7 + 1 = 8 /\ 8 = 7 + 1
  BY OpClasses, OpCodes, RegistersNamed, Registers
<1>4. ASSUME NEW i \in Lanes
      PROVE  (Mask(swapVertical(UpperCell(q, s, t, ly, i), LowerCell(q, s, t, ly, i))) >= 128)
               <=> swapVertical(UpperCell(q, s, t, ly, i), LowerCell(q, s, t, ly, i))
  <2> DEFINE b == swapVertical(UpperCell(q, s, t, ly, i), LowerCell(q, s, t, ly, i))
  <2>1. b \in BOOLEAN
    BY DEF swapVertical
  <2> HIDE DEF b
  <2>2. Mask(b) >= 128 <=> b
    BY <2>1 DEF Mask
  <2> QED BY <2>2 DEF b
<1>5. CASE ly % 2 = q
  <2>1. Holds(q, pc, Op.VBLEND, VR.T0, VR.A, VR.B, VR.MASK, 0)
    BY <1>1, <1>2, <1>5
  <2>2. ASSUME NEW i \in Lanes, LaneAt(q, s, t, ly, i, 7),
               Yields(Op.VBLEND, VR.A, VR.B, VR.MASK, 0, i, vregs'[VR.T0][i]),
               \A v \in Vregs : v # VR.T0 => vregs'[v] = vregs[v]
        PROVE  LaneAt(q, s, t, ly, i, 8)'
    <3> DEFINE u == UpperCell(q, s, t, ly, i)
               l == LowerCell(q, s, t, ly, i)
    <3>1. /\ vregs[VR.A][i] = u /\ vregs[VR.B][i] = l
          /\ vregs[VR.T1][i] = densityBiased(l) /\ vregs[VR.WALL_CMP][i] = Mask(u = Wall)
          /\ vregs[VR.MASK][i] = Mask(swapVertical(u, l))
      BY <2>2 DEF LaneAt, Lane
    <3>2. vregs'[VR.T0][i] = IF vregs[VR.MASK][i] >= 128 THEN vregs[VR.B][i] ELSE vregs[VR.A][i]
      BY <2>2 DEF Yields
    <3>3. ResultAt(q, s, t, ly, i) = IF swapVertical(u, l) THEN l ELSE u
      BY <1>5, PairCells
    <3>4. vregs'[VR.T0][i] = ResultAt(q, s, t, ly, i)
      <4> HIDE DEF u, l
      <4> QED BY <1>4, <3>1, <3>2, <3>3 DEF u, l
    <3>5. /\ vregs'[VR.A] = vregs[VR.A] /\ vregs'[VR.B] = vregs[VR.B]
          /\ vregs'[VR.T1] = vregs[VR.T1] /\ vregs'[VR.WALL_CMP] = vregs[VR.WALL_CMP]
          /\ vregs'[VR.MASK] = vregs[VR.MASK]
      BY <1>3, <2>2
    <3> QED BY <3>1, <3>4, <3>5 DEF LaneAt, Lane
  <2> HIDE DEF r
  <2>3. Keeps(s) /\ AtRow(q, s, n, t, ly, 7 + 1)'
    BY <1>3, <2>1, <2>2, PairedVector, Zenon
  <2> QED BY <1>3, <2>3, Zenon
<1>6. CASE ly % 2 # q
  <2>1. Holds(q, pc, Op.VBLEND, VR.T0, VR.B, VR.A, VR.MASK, 0)
    BY <1>1, <1>2, <1>6
  <2>2. ASSUME NEW i \in Lanes, LaneAt(q, s, t, ly, i, 7),
               Yields(Op.VBLEND, VR.B, VR.A, VR.MASK, 0, i, vregs'[VR.T0][i]),
               \A v \in Vregs : v # VR.T0 => vregs'[v] = vregs[v]
        PROVE  LaneAt(q, s, t, ly, i, 8)'
    <3> DEFINE u == UpperCell(q, s, t, ly, i)
               l == LowerCell(q, s, t, ly, i)
    <3>1. /\ vregs[VR.A][i] = u /\ vregs[VR.B][i] = l
          /\ vregs[VR.T1][i] = densityBiased(l) /\ vregs[VR.WALL_CMP][i] = Mask(u = Wall)
          /\ vregs[VR.MASK][i] = Mask(swapVertical(u, l))
      BY <2>2 DEF LaneAt, Lane
    <3>2. vregs'[VR.T0][i] = IF vregs[VR.MASK][i] >= 128 THEN vregs[VR.A][i] ELSE vregs[VR.B][i]
      BY <2>2 DEF Yields
    <3>3. ResultAt(q, s, t, ly, i) = IF swapVertical(u, l) THEN u ELSE l
      BY <1>6, PairCells
    <3>4. vregs'[VR.T0][i] = ResultAt(q, s, t, ly, i)
      <4> HIDE DEF u, l
      <4> QED BY <1>4, <3>1, <3>2, <3>3 DEF u, l
    <3>5. /\ vregs'[VR.A] = vregs[VR.A] /\ vregs'[VR.B] = vregs[VR.B]
          /\ vregs'[VR.T1] = vregs[VR.T1] /\ vregs'[VR.WALL_CMP] = vregs[VR.WALL_CMP]
          /\ vregs'[VR.MASK] = vregs[VR.MASK]
      BY <1>3, <2>2
    <3> QED BY <3>1, <3>4, <3>5 DEF LaneAt, Lane
  <2> HIDE DEF r
  <2>3. Keeps(s) /\ AtRow(q, s, n, t, ly, 7 + 1)'
    BY <1>3, <2>1, <2>2, PairedVector, Zenon
  <2> QED BY <1>3, <2>3, Zenon
<1> QED BY <1>5, <1>6

\* Every instruction of a row.
LEMMA RowStep ==
  ASSUME NEW q, NEW s, Stands(q, s), NEW n \in 1..G, NEW t \in TilesOf(n),
         NEW ly \in Edge, NEW j \in 0..8, AtRow(q, s, n, t, ly, j)
  PROVE  /\ Keeps(s)
         /\ (\E k \in 0..8 : AtRow(q, s, n, t, ly, k))' \/ AfterRow(q, s, n, t)'
<1>1. CASE Copied(q, n, ly)
  BY <1>1, CopiedStep
<1>2. CASE ~Copied(q, n, ly)
  <2>1. InRow(q, s, n, t, ly, j) /\ \A i \in Lanes : LaneAt(q, s, t, ly, i, j)
    BY <1>2 DEF AtRow, Paired, LaneAt, UpperCell, LowerCell, ResultAt
  <2>2. CASE j \in 0..6
    <3>1. Keeps(s) /\ AtRow(q, s, n, t, ly, j + 1)'
      <4>1. CASE j \in 0..1
        BY <1>2, <2>1, <4>1, PairedLoad
      <4>2. CASE j \in 2..3
        BY <1>2, <2>1, <4>2, PairedLookup
      <4>3. CASE j \in 4..6
        BY <1>2, <2>1, <4>3, PairedCompare
      <4> QED BY <2>2, <4>1, <4>2, <4>3
    <3>2. PICK k \in 0..8 : k = j + 1
      BY <2>2
    <3>3. AtRow(q, s, n, t, ly, k)'
      BY <3>1, <3>2, Zenon
    <3> QED BY <3>1, <3>3
  <2>3. CASE j = 7
    <3>1. Keeps(s) /\ AtRow(q, s, n, t, ly, 8)'
      BY <1>2, <2>1, <2>3, PairedBlend
    <3> QED BY <3>1
  <2>4. CASE j = 8
    <3> DEFINE r == RowAt(q, n, ly)
    <3>1. /\ r \in Nat /\ RowAt(q, n, ly + 1) = r + 9
          /\ Holds(q, r + 8, Op.VST, VR.T0, SR.DST, 0, 0, ly * Tile)
      BY <1>2, InPairedRow, Zenon DEF Copied
    <3>2. pc = r + 8
      BY <2>1, <2>4 DEF InRow
    <3>3. Holds(q, pc, Op.VST, VR.T0, SR.DST, 0, 0, ly * Tile)
      BY <3>1, <3>2, Zenon
    <3>4. RowAt(q, n, ly + 1) = RowAt(q, n, ly) + (8 + 1) /\ 8 \in Nat
      BY <3>1
    <3>5. \A i \in Lanes : vregs[VR.T0][i] = verticalCell(s, q, CellIn(t, ly, i))
      BY <2>1, <2>4 DEF LaneAt, Lane, ResultAt
    <3>6. InRow(q, s, n, t, ly, 8) /\ VR.T0 \in Vregs
      BY <2>1, <2>4, RegistersNamed
    <3> HIDE DEF r
    <3> QED BY <3>3, <3>4, <3>5, <3>6, RowStored
  <2> QED BY <2>2, <2>3, <2>4
<1> QED BY <1>1, <1>2

-----------------------------------------------------------------------------
(* A step of the machine in a kernel.                                      *)

\* HALT.
LEMMA EndStep ==
  ASSUME NEW q, NEW s, Stands(q, s), AtEnd(q, s)
  PROVE  /\ status' = "stopped" /\ fault' = "None" /\ Written(q, s, MemSize)'
         /\ program' = program /\ VectorShape' /\ HoldsSource(s)' /\ LoadsSource
<1>1. Holds(q, pc, Op.HALT, 0, 0, 0, 0, 0)
  BY AtTheEnd DEF AtEnd
<1>2. Op.HALT # Op.VLD
  BY OpCodes
<1>3. Typed /\ Fetchable /\ Execute /\ Fetched.op = Op.HALT /\ LoadsSource
  BY <1>1, <1>2, StandsWith
<1>4. /\ status' = "stopped" /\ fault' = "None" /\ mem' = mem /\ vregs' = vregs
      /\ program' = program
  BY <1>3, HaltStops
<1>5. Written(q, s, MemSize)'
  <2>1. Written(q, s, MemSize)
    BY DEF AtEnd
  <2> QED BY <1>4, <2>1, StaysWritten
<1>6. VectorShape' /\ HoldsSource(s)'
  BY <1>4, SameSource DEF Stands, VectorShape
<1> QED BY <1>3, <1>4, <1>5, <1>6

\* Wherever it stands, it goes on to a place, or stops at the end.
LEMMA PlaceStep ==
  ASSUME NEW q, NEW s, Stands(q, s), Located(q, s)
  PROVE  /\ program' = program /\ VectorShape' /\ HoldsSource(s)' /\ LoadsSource
         /\ \/ status' = "running" /\ Located(q, s)'
            \/ status' = "stopped" /\ fault' = "None" /\ Written(q, s, MemSize)'
<1>1. ASSUME Keeps(s), Located(q, s)'
      PROVE  /\ program' = program /\ VectorShape' /\ HoldsSource(s)' /\ LoadsSource
             /\ status' = "running" /\ Located(q, s)'
  BY <1>1 DEF Keeps
<1>2. CASE \E k \in 0..3 : AtPrologue(k)
  <2>1. PICK k \in 0..3 : AtPrologue(k)
    BY <1>2
  <2>2. Keeps(s) /\ (k < 3 => AtPrologue(k + 1)') /\ (k = 3 => AtGroup(q, s, 1, 0)')
    BY <2>1, PrologueStep
  <2>3. CASE k < 3
    <3>1. PICK l \in 0..3 : l = k + 1
      BY <2>3
    <3>2. AtPrologue(l)'
      BY <2>2, <2>3, <3>1, Zenon
    <3>3. Located(q, s)'
      BY <3>2 DEF Located
    <3> QED BY <1>1, <2>2, <3>3
  <2>4. CASE k = 3
    <3>1. 1 \in 1..G
      BY GroupsCover
    <3>2. Located(q, s)'
      BY <2>2, <2>4, <3>1 DEF Located
    <3> QED BY <1>1, <2>2, <3>2
  <2> QED BY <2>3, <2>4
<1>3. CASE \E n \in 1..G : \E k \in 0..1 : AtGroup(q, s, n, k)
  <2>1. PICK n \in 1..G : \E k \in 0..1 : AtGroup(q, s, n, k)
    BY <1>3
  <2>2. PICK k \in 0..1 : AtGroup(q, s, n, k)
    BY <2>1
  <2>3. /\ Keeps(s)
        /\ k = 0 => AtGroup(q, s, n, 1)'
        /\ k = 1 => AtTile(q, s, n, groups[n].start, 0)'
    BY <2>2, GroupStep
  <2>4. groups[n].start \in TilesOf(n)
    BY FirstTile
  <2>5. Located(q, s)'
    BY <2>3, <2>4 DEF Located
  <2> QED BY <1>1, <2>3, <2>5
<1>4. CASE \E n \in 1..G : \E t \in TilesOf(n) : \E k \in 0..3 : AtTile(q, s, n, t, k)
  <2> PICK n \in 1..G : \E t \in TilesOf(n) : \E k \in 0..3 : AtTile(q, s, n, t, k)
    BY <1>4
  <2>1. PICK t \in TilesOf(n), k \in 0..3 : AtTile(q, s, n, t, k)
    OBVIOUS
  <2>2. /\ Keeps(s)
        /\ k < 3 => AtTile(q, s, n, t, k + 1)'
        /\ k = 3 => AtRow(q, s, n, t, 0, 0)'
    BY <2>1, TileStep
  <2>3. CASE k < 3
    <3>1. PICK l \in 0..3 : l = k + 1
      BY <2>3
    <3>2. AtTile(q, s, n, t, l)'
      BY <2>2, <2>3, <3>1, Zenon
    <3>3. Located(q, s)'
      BY <3>2 DEF Located
    <3> QED BY <1>1, <2>2, <3>3
  <2>4. CASE k = 3
    <3>1. 0 \in Edge
      BY Sizes DEF Edge
    <3>2. Located(q, s)'
      BY <2>2, <2>4, <3>1 DEF Located
    <3> QED BY <1>1, <2>2, <3>2
  <2> QED BY <2>3, <2>4
<1>5. CASE \E n \in 1..G : \E t \in TilesOf(n) : \E ly \in Edge : \E j \in 0..8 :
             AtRow(q, s, n, t, ly, j)
  <2> PICK n \in 1..G : \E t \in TilesOf(n) : \E ly \in Edge : \E j \in 0..8 :
              AtRow(q, s, n, t, ly, j)
    BY <1>5
  <2>1. PICK t \in TilesOf(n), ly \in Edge, j \in 0..8 : AtRow(q, s, n, t, ly, j)
    OBVIOUS
  <2>2. /\ Keeps(s)
        /\ (\E k \in 0..8 : AtRow(q, s, n, t, ly, k))' \/ AfterRow(q, s, n, t)'
    BY <2>1, RowStep
  <2>3. Located(q, s)'
    BY <2>2 DEF Located, AfterRow
  <2> QED BY <1>1, <2>2, <2>3
<1>6. CASE \E n \in 1..G : \E t \in TilesOf(n) : \E k \in 0..2 : AtTail(q, s, n, t, k)
  <2> PICK n \in 1..G : \E t \in TilesOf(n) : \E k \in 0..2 : AtTail(q, s, n, t, k)
    BY <1>6
  <2>1. PICK t \in TilesOf(n), k \in 0..2 : AtTail(q, s, n, t, k)
    OBVIOUS
  <2>2. CASE k \in 0..1
    <3>1. Keeps(s) /\ AtTail(q, s, n, t, k + 1)'
      BY <2>1, <2>2, TailStep
    <3>2. PICK l \in 0..2 : l = k + 1
      BY <2>2
    <3>3. AtTail(q, s, n, t, l)'
      BY <3>1, <3>2, Zenon
    <3>4. Located(q, s)'
      BY <3>3 DEF Located
    <3> QED BY <1>1, <3>1, <3>4
  <2>3. CASE k = 2
    <3>1. /\ Keeps(s)
          /\ (\E u \in TilesOf(n) : AtTile(q, s, n, u, 0)') \/ AfterGroup(q, s, n)'
      BY <2>1, <2>3, LoopStep
    <3>2. Located(q, s)'
      BY <3>1 DEF Located, AfterGroup
    <3> QED BY <1>1, <3>1, <3>2
  <2> QED BY <2>2, <2>3
<1>7. CASE AtEnd(q, s)
  BY <1>7, EndStep
<1> QED BY <1>2, <1>3, <1>4, <1>5, <1>6, <1>7 DEF Located

LEMMA TextLength == ASSUME NEW parity PROVE Len(Text(parity)) \in Nat
<1> DEFINE e == Base(parity, G + 1)
<1>1. e \in Nat /\ Len(Text(parity)) = e + 1
  BY CodeText, Zenon
<1> HIDE DEF e
<1> QED BY <1>1

\* The rows end where the tail starts.
LEMMA RowInside ==
  ASSUME NEW parity, NEW n \in 1..G, NEW ly \in Edge
  PROVE  RowAt(parity, n, ly + 1) <= TailAt(parity, n)
<1> DEFINE above == groups[n].hasAbove
           below == groups[n].hasBelow
           rows == BodyRows(parity, above, below)
<1>1. ly + 1 \in 0..Tile /\ Tile \in 0..Tile
  BY Sizes DEF Edge
<1>2. /\ emitTileBody(parity, above, below) = rows[Tile]
      /\ \A k \in 0..Tile : Len(rows[k]) \in 0..(9 * k) /\ Len(rows[k]) <= Len(rows[Tile])
  BY BodyText
<1>3. /\ TailAt(parity, n) = Base(parity, n) + 6 + Len(rows[Tile])
      /\ RowAt(parity, n, ly + 1) = Base(parity, n) + 6 + Len(rows[ly + 1])
  BY <1>2, Zenon DEF TailAt, BodyLen, RowAt
<1> DEFINE x == Len(rows[ly + 1])
           y == Len(rows[Tile])
<1>4. x \in 0..(9 * (ly + 1)) /\ y \in 0..(9 * Tile) /\ x <= y
  BY <1>1, <1>2, Zenon
<1>5. Base(parity, n) \in Nat /\ Tile \in Nat
  BY GroupPlace, Sizes
<1> HIDE DEF rows, x, y
<1>6. Base(parity, n) + 6 + x <= Base(parity, n) + 6 + y
  BY <1>1, <1>4, <1>5
<1> QED BY <1>3, <1>6 DEF x, y

\* In the loop of a group the end of the text and of the budget are not reached.
LEMMA GroupInside ==
  ASSUME NEW q, NEW n \in 1..G, NEW t \in TilesOf(n), Spent(q, n, t),
         res.instructions \in Nat, pc \in Nat, pc <= TailAt(q, n) + 2
  PROVE  pc < Len(Text(q)) /\ res.instructions < KernelSteps
<1> DEFINE b == Base(q, n)
           c == TailAt(q, n)
           len == BodyLen(q, groups[n])
           P == PerTile
           x == t * P
           y == N * P
           e == Len(Text(q))
<1>1. /\ b \in Nat /\ c \in Nat /\ len \in Nat /\ c = b + 6 + len
      /\ Base(q, n + 1) = c + 3 /\ Base(q, n + 1) < e
  BY GroupPlace
<1>2. e \in Nat
  BY TextLength
<1>3. /\ P \in Nat /\ x \in Nat /\ (t + 1) * P = x + P /\ len + 7 <= P /\ (t + 1) * P <= y
  BY StepsOfTile
<1>4. N \in Nat
  BY Sizes
<1>5. y \in Nat
  <2> HIDE DEF P
  <2> QED BY <1>3, <1>4
<1>6. res.instructions <= 2 + 2 * n + x + (pc - b)
  BY DEF Spent
<1>7. n \in Nat /\ n <= 3
  BY GroupsCover
<1>8. KernelSteps = y + 11
  BY DEF KernelSteps
<1>9. pc < e
  <2> HIDE DEF c, e
  <2> QED BY <1>1, <1>2 DEF c
<1>10. x + P <= y
  BY <1>3
<1>11. pc <= c + 2
  OBVIOUS
<1> HIDE DEF b, c, len, P, x, y, e
<1>12. res.instructions < y + 11
  BY <1>1, <1>3, <1>5, <1>6, <1>7, <1>10, <1>11
<1> QED BY <1>8, <1>9, <1>12 DEF e

LEMMA PlaceInside ==
  ASSUME NEW q, NEW s, res.instructions \in Nat, Located(q, s)
  PROVE  pc \in Nat /\ pc < Len(Text(q)) /\ res.instructions < KernelSteps
<1>1. Len(Text(q)) \in Nat /\ N * PerTile \in Nat
  <2>1. Len(Text(q)) \in Nat
    BY TextLength
  <2>2. N \in Nat /\ PerTile \in Nat
    BY Sizes DEF PerTile
  <2> HIDE DEF PerTile
  <2> QED BY <2>1, <2>2
<1>2. CASE \E k \in 0..3 : AtPrologue(k)
  <2>1. PICK k \in 0..3 : AtPrologue(k)
    BY <1>2
  <2>2. pc = k /\ res.instructions <= k
    BY <2>1 DEF AtPrologue
  <2>3. 3 < Len(Text(q))
    BY InPrologue DEF Holds
  <2> QED BY <1>1, <2>2, <2>3 DEF KernelSteps
<1>3. CASE \E n \in 1..G : \E k \in 0..1 : AtGroup(q, s, n, k)
  <2> PICK n \in 1..G : \E k \in 0..1 : AtGroup(q, s, n, k)
    BY <1>3
  <2>1. PICK k \in 0..1 : AtGroup(q, s, n, k)
    OBVIOUS
  <2>2. pc = Base(q, n) + k /\ Spent(q, n, groups[n].start)
    BY <2>1 DEF AtGroup
  <2> DEFINE b == Base(q, n)
             c == TailAt(q, n)
             len == BodyLen(q, groups[n])
  <2>3. /\ b \in Nat /\ c \in Nat /\ len \in Nat /\ c = b + 6 + len
        /\ pc = b + k
    BY <2>2, GroupPlace
  <2>4. pc \in Nat /\ pc <= c + 2
    <3> HIDE DEF b, c, len
    <3> QED BY <2>3
  <2> QED BY <2>2, <2>4, FirstTile, GroupInside
<1>4. CASE \E n \in 1..G : \E t \in TilesOf(n) : \E k \in 0..3 : AtTile(q, s, n, t, k)
  <2> PICK n \in 1..G : \E t \in TilesOf(n) : \E k \in 0..3 : AtTile(q, s, n, t, k)
    BY <1>4
  <2>1. PICK t \in TilesOf(n), k \in 0..3 : AtTile(q, s, n, t, k)
    OBVIOUS
  <2>2. pc = Base(q, n) + 2 + k /\ Spent(q, n, t)
    BY <2>1 DEF AtTile
  <2> DEFINE b == Base(q, n)
             c == TailAt(q, n)
             len == BodyLen(q, groups[n])
  <2>3. /\ b \in Nat /\ c \in Nat /\ len \in Nat /\ c = b + 6 + len
        /\ pc = b + 2 + k
    BY <2>2, GroupPlace
  <2>4. pc \in Nat /\ pc <= c + 2
    <3> HIDE DEF b, c, len
    <3> QED BY <2>3
  <2> QED BY <2>2, <2>4, GroupInside
<1>5. CASE \E n \in 1..G : \E t \in TilesOf(n) : \E ly \in Edge : \E j \in 0..8 :
             AtRow(q, s, n, t, ly, j)
  <2> PICK n \in 1..G : \E t \in TilesOf(n) : \E ly \in Edge : \E j \in 0..8 :
              AtRow(q, s, n, t, ly, j)
    BY <1>5
  <2>1. PICK t \in TilesOf(n), ly \in Edge, j \in 0..8 : AtRow(q, s, n, t, ly, j)
    OBVIOUS
  <2> DEFINE r == RowAt(q, n, ly)
  <2>2. pc = r + j /\ Spent(q, n, t) /\ (Copied(q, n, ly) => j <= 1)
    BY <2>1 DEF AtRow, InRow
  <2>3. r \in Nat /\ RowAt(q, n, ly + 1) \in {r + 2, r + 9}
        /\ (~Copied(q, n, ly) => RowAt(q, n, ly + 1) = r + 9)
    <3>1. CASE Copied(q, n, ly)
      BY <3>1, InCopiedRow DEF Copied
    <3>2. CASE ~Copied(q, n, ly)
      BY <3>2, InPairedRow DEF Copied
    <3> QED BY <3>1, <3>2
  <2>4. RowAt(q, n, ly + 1) <= TailAt(q, n) /\ TailAt(q, n) \in Nat
    BY RowInside, GroupPlace
  <2>5. pc \in Nat /\ pc <= TailAt(q, n) + 2
    <3> HIDE DEF r
    <3> QED BY <2>2, <2>3, <2>4
  <2> QED BY <2>2, <2>5, GroupInside
<1>6. CASE \E n \in 1..G : \E t \in TilesOf(n) : \E k \in 0..2 : AtTail(q, s, n, t, k)
  <2> PICK n \in 1..G : \E t \in TilesOf(n) : \E k \in 0..2 : AtTail(q, s, n, t, k)
    BY <1>6
  <2>1. PICK t \in TilesOf(n), k \in 0..2 : AtTail(q, s, n, t, k)
    OBVIOUS
  <2>2. pc = TailAt(q, n) + k /\ Spent(q, n, t)
    BY <2>1 DEF AtTail
  <2> DEFINE b == Base(q, n)
             c == TailAt(q, n)
             len == BodyLen(q, groups[n])
  <2>3. /\ b \in Nat /\ c \in Nat /\ len \in Nat /\ c = b + 6 + len
        /\ pc = c + k
    BY <2>2, GroupPlace
  <2>4. pc \in Nat /\ pc <= c + 2
    <3> HIDE DEF b, c, len
    <3> QED BY <2>3
  <2> QED BY <2>2, <2>4, GroupInside
<1>7. CASE AtEnd(q, s)
  <2>1. pc \in Nat /\ pc < Len(Text(q))
    BY <1>7, AtTheEnd DEF AtEnd, Holds
  <2>2. res.instructions < KernelSteps
    <3>1. res.instructions <= N * PerTile + 10
      BY <1>7 DEF AtEnd
    <3> DEFINE y == N * PerTile
    <3>2. y \in Nat /\ res.instructions <= y + 10
      BY <1>1, <3>1
    <3> HIDE DEF y
    <3>3. res.instructions < y + 11
      BY <3>2
    <3> QED BY <3>3 DEF KernelSteps, y
  <2> QED BY <2>1, <2>2
<1> QED BY <1>2, <1>3, <1>4, <1>5, <1>6, <1>7 DEF Located

\* The loop of execute() leaves a kernel that has not halted only for its budget.
LEMMA KernelStops ==
  ASSUME MachineInv, IsKernel, status = "running", Execute, ~Fetchable,
         NEW q, NEW s, KernelAt(q, s)
  PROVE  KernelAt(q, s)'
<1>1. /\ q = ParityOf(program) /\ VectorShape /\ HoldsSource(s) /\ Located(q, s)
  BY DEF KernelAt
<1>2. res.instructions \in Nat /\ budget \in Nat /\ program \in DOMAIN Programs
  BY MachineAssumption DEF MachineInv, Typed, NoCounts
<1>3. pc \in Nat /\ pc < Len(Text(q)) /\ res.instructions < KernelSteps
  BY <1>1, <1>2, PlaceInside
<1>4. Length = Len(Text(q)) /\ Len(Text(q)) \in Nat
  <2>1. Programs[program] = Text(q)
    BY <1>1, <1>2, KernelNames
  <2>2. Len(Text(q)) \in Nat
    BY TextLength
  <2> QED BY <2>1, <2>2, Zenon DEF Length
<1>5. Stop
  BY DEF Execute, Halt, Nop, Scalar, Branch, Load, Store, AccessFault, Vector, Illegal
<1>6. ~(pc >= Length)
  BY <1>3, <1>4
<1>7. /\ res.instructions >= budget /\ fault' = "InstructionLimit" /\ status' = "stopped"
      /\ mem' = mem /\ vregs' = vregs /\ program' = program /\ budget' = budget
  BY <1>5, <1>6 DEF Stop, StopWith, registers, Fixed
<1>8. KernelSteps \in Nat /\ budget < KernelSteps
  <2>1. N \in Nat /\ PerTile \in Nat
    BY Sizes DEF PerTile
  <2> DEFINE P == PerTile
  <2> HIDE DEF P
  <2>2. N * P + 11 \in Nat
    BY <2>1 DEF P
  <2>3. KernelSteps \in Nat
    BY <2>2 DEF KernelSteps, P
  <2> HIDE DEF P
  <2> QED BY <1>2, <1>3, <1>7, <2>3
<1>9. VectorShape' /\ HoldsSource(s)'
  BY <1>1, <1>7, SameSource DEF VectorShape
<1> QED BY <1>1, <1>7, <1>8, <1>9 DEF KernelAt

\* A step that leaves everything as it is.
LEMMA KernelStutters ==
  ASSUME UNCHANGED mvars, NEW q, NEW s, KernelAt(q, s) PROVE KernelAt(q, s)'
<1> USE DEF mvars, registers
<1>1. VectorShape' = VectorShape /\ HoldsSource(s)' = HoldsSource(s)
  BY DEF VectorShape, HoldsSource
<1>2. \A m : Written(q, s, m) => Written(q, s, m)'
  BY DEF Written
<1>3. /\ \A k : Prepared(k) => Prepared(k)'
      /\ \A n, t : Spent(q, n, t) => Spent(q, n, t)'
      /\ \A n, t, k : Pointed(n, t, k) => Pointed(n, t, k)'
  BY DEF Prepared, Spent, Pointed
<1>4. \A t, ly, j : Paired(q, s, t, ly, j) => Paired(q, s, t, ly, j)'
  BY DEF Paired, Lane
<1>5. pc' = pc /\ res' = res /\ sregs' = sregs /\ vregs' = vregs
  OBVIOUS
<1>6. /\ \A k : AtPrologue(k) => AtPrologue(k)'
      /\ \A n, k : AtGroup(q, s, n, k) => AtGroup(q, s, n, k)'
      /\ AtEnd(q, s) => AtEnd(q, s)'
  BY <1>2, <1>3, <1>5 DEF AtPrologue, AtGroup, AtEnd
<1>7. /\ \A n, t, k : AtTile(q, s, n, t, k) => AtTile(q, s, n, t, k)'
      /\ \A n, t, k : AtTail(q, s, n, t, k) => AtTail(q, s, n, t, k)'
  BY <1>2, <1>3, <1>5 DEF AtTile, AtTail
<1>8. \A n, t, ly, j : AtRow(q, s, n, t, ly, j) => AtRow(q, s, n, t, ly, j)'
  <2> TAKE n, t, ly, j
  <2>1. InRow(q, s, n, t, ly, j) => InRow(q, s, n, t, ly, j)'
    BY <1>2, <1>3, <1>5 DEF InRow
  <2> QED BY <1>4, <1>5, <2>1 DEF AtRow
<1>9. Located(q, s) => Located(q, s)'
  BY <1>6, <1>7, <1>8, Zenon DEF Located
<1> QED BY <1>1, <1>2, <1>9 DEF KernelAt

-----------------------------------------------------------------------------
(* The kernels compute the vertical pass.                                  *)

LEMMA ProgramStays == [Execute]_mvars => program' = program
BY DEF Execute, Stop, Halt, Nop, Scalar, Branch, Load, Store, AccessFault, Vector, Illegal,
       Fixed, mvars

\* SRC is a grid when its bytes are cells.
SourceIsCells == \A a \in 0..(MemSize - 1) : mem[a] \in Cells

LEMMA SourceIsGrid == ASSUME SourceIsCells PROVE SrcGrid \in Grids /\ HoldsSource(SrcGrid)
<1>1. /\ MemSize = Size /\ \A a \in 0..(MemSize - 1) : mem[a] \in Cells
  BY Sizes DEF SourceIsCells
<1>2. \A p \in Coords : SrcGrid[p] = mem[tiledIndex(p)]
  BY DEF SrcGrid
<1>3. SrcGrid \in Grids
  <2>1. \A p \in Coords : mem[tiledIndex(p)] \in Cells
    BY <1>1, IndexInverse
  <2> QED BY <2>1 DEF SrcGrid, Grids
<1>4. ASSUME NEW a \in 0..(MemSize - 1) PROVE mem[a] = SrcGrid[CoordOf(a)]
  <2>1. a \in 0..(Size - 1)
    BY <1>1
  <2>2. PICK t \in Tiles, r \in Edge, i \in Edge : a = At(t, r, i)
    BY <2>1, PlaceOfAddress
  <2>3. CoordOf(a) = CellIn(t, r, i) /\ tiledIndex(CellIn(t, r, i)) = a
    BY <2>2, AddressOfCell
  <2>4. CellIn(t, r, i) \in Coords
    BY CellInside
  <2> QED BY <1>2, <2>3, <2>4
<1> QED BY <1>3, <1>4 DEF HoldsSource

LEMMA FreshKernel == Fresh /\ SourceIsCells => KernelInv
<1> SUFFICES ASSUME Fresh, SourceIsCells PROVE KernelInv
  OBVIOUS
<1>1. MachineInv
  BY FreshMachine
<1>2. ASSUME IsKernel PROVE \E q \in 0..1 : \E s \in Grids : KernelAt(q, s)
  <2> DEFINE q == ParityOf(program)
             s == SrcGrid
  <2>1. program \in DOMAIN Programs /\ status = "running" /\ Reset
    BY DEF Fresh
  <2>2. q \in 0..1
    BY <1>2, <2>1, KernelNames
  <2>3. s \in Grids /\ HoldsSource(s)
    BY SourceIsGrid
  <2>4. VectorShape
    BY <2>1 DEF Reset, NoVectors, VectorShape
  <2>5. AtPrologue(0)
    BY <2>1 DEF Reset, NoCounts, AtPrologue, Prepared
  <2>6. Located(q, s)
    <3>1. 0 \in 0..3
      OBVIOUS
    <3> QED BY <2>5, <3>1, Zenon DEF Located
  <2> HIDE DEF s
  <2>7. KernelAt(q, s)
    BY <2>1, <2>3, <2>4, <2>6 DEF KernelAt
  <2> QED BY <2>2, <2>3, <2>7
<1> QED BY <1>1, <1>2 DEF KernelInv

LEMMA KernelInit == MachineInit => KernelInv
<1>1. MachineInit => Fresh /\ SourceIsCells
  BY KernelAssumption DEF MachineInit, Fresh, SourceIsCells
<1> QED BY <1>1, FreshKernel

LEMMA KernelStep ==
  ASSUME KernelInv, [Execute]_mvars
  PROVE  KernelInv' /\ (IsKernel /\ Execute => LoadsSource /\ SourceKept)
<1>1. MachineInv /\ MachineInv'
  BY MachineStep DEF KernelInv
<1>2. program' = program /\ (IsKernel' <=> IsKernel)
  BY ProgramStays DEF IsKernel
<1>3. CASE ~IsKernel
  BY <1>1, <1>2, <1>3 DEF KernelInv
<1>4. CASE IsKernel
  <2>1. PICK q \in 0..1 : \E s \in Grids : KernelAt(q, s)
    BY <1>4 DEF KernelInv
  <2>2. PICK s \in Grids : KernelAt(q, s)
    BY <2>1
  <2>3. CASE UNCHANGED mvars
    <3>1. KernelAt(q, s)'
      BY <2>2, <2>3, KernelStutters
    <3>2. Execute => LoadsSource
      <4>1. ~Load
        <5>1. ASSUME Load PROVE FALSE
          <6>1. res'.instructions = res.instructions + 1
            BY <1>1, <5>1, RetiredOne DEF Load, MachineInv
          <6>2. res.instructions \in Nat /\ res' = res
            BY <1>1, <2>3 DEF MachineInv, Typed, NoCounts, mvars
          <6> QED BY <6>1, <6>2
        <5> QED BY <5>1
      <4> QED BY <4>1 DEF LoadsSource
    <3>3. SourceKept
      BY <2>3 DEF SourceKept, mvars
    <3> QED BY <1>1, <2>1, <2>2, <3>1, <3>2, <3>3 DEF KernelInv
  <2>4. CASE Execute
    <3>1. status = "running"
      BY <2>4 DEF Execute, Stop, Halt, Nop, Scalar, Branch, Load, Store, AccessFault, Vector,
                  Illegal, Fetchable
    <3>2. /\ q = ParityOf(program) /\ VectorShape /\ HoldsSource(s) /\ Located(q, s)
      BY <2>2, <3>1 DEF KernelAt
    <3>3. CASE Fetchable
      <4>1. Stands(q, s)
        BY <1>1, <1>4, <2>4, <3>2, <3>3 DEF Stands
      <4>2. /\ program' = program /\ VectorShape' /\ HoldsSource(s)' /\ LoadsSource
            /\ \/ status' = "running" /\ Located(q, s)'
               \/ status' = "stopped" /\ fault' = "None" /\ Written(q, s, MemSize)'
        BY <3>2, <4>1, PlaceStep
      <4>3. KernelAt(q, s)'
        BY <3>2, <4>2 DEF KernelAt
      <4>4. SourceKept
        BY <3>2, <4>2 DEF HoldsSource, SourceKept
      <4> QED BY <1>1, <2>1, <2>2, <4>2, <4>3, <4>4 DEF KernelInv
    <3>4. CASE ~Fetchable
      <4>1. KernelAt(q, s)'
        BY <1>1, <1>4, <2>2, <2>4, <3>1, <3>4, KernelStops
      <4>2. LoadsSource
        BY <3>4 DEF LoadsSource, Load
      <4>3. SourceKept
        <5>1. mem' = mem
          BY <2>4, <3>4 DEF Execute, Stop, Halt, Nop, Scalar, Branch, Load, Store,
             AccessFault, Vector, Illegal
        <5> QED BY <5>1 DEF SourceKept
      <4> QED BY <1>1, <2>1, <2>2, <4>1, <4>2, <4>3 DEF KernelInv
    <3> QED BY <3>3, <3>4
  <2> QED BY <2>3, <2>4
<1> QED BY <1>3, <1>4

\* For every geometry, image and budget: wherever a run of a kernel is, the machine
\* stands at a place of its text with what that place needs in its registers, and
\* DST holds the result up to the row under way; when it stops, it has halted with
\* all of DST written, or it ran out of a budget smaller than KernelSteps.
THEOREM KernelInvariant == MachineSpec => []KernelInv
<1>1. KernelInv /\ [Execute]_mvars => KernelInv'
  BY KernelStep
<1> QED BY KernelInit, <1>1, PTL DEF MachineSpec

\* The whole of DST holds the result: it is the grid the scalar pass makes of SRC.
LEMMA WrittenIsResult ==
  ASSUME NEW q \in 0..1, NEW s \in Grids, HoldsSource(s), Written(q, s, MemSize)
  PROVE  DstGrid = verticalScalar(SrcGrid, q)
<1>1. MemSize = Size
  BY Sizes
<1>2. SrcGrid = s
  <2>1. \A p \in Coords : mem[tiledIndex(p)] = s[p]
    BY <1>1, IndexInverse DEF HoldsSource
  <2> QED BY <2>1 DEF SrcGrid, Grids
<1>3. \A p \in Coords : mem[MemSize + tiledIndex(p)] = verticalCell(s, q, p)
  BY <1>1, IndexInverse DEF Written
<1>4. DstGrid = [p \in Coords |-> verticalCell(s, q, p)]
  BY <1>3 DEF DstGrid
<1> QED BY <1>2, <1>4 DEF verticalScalar

\* With a budget for its steps, a kernel that stops has halted without a fault and
\* DST is what the scalar vertical pass of the same parity makes of SRC.
LEMMA ResultOfInvariant ==
  ASSUME KernelInv, \A b \in Budgets : b >= N * (9 * Tile + 7) + 11
  PROVE  KernelIsGravity
<1> SUFFICES ASSUME IsKernel, status = "stopped"
             PROVE  fault = "None" /\ DstGrid = verticalScalar(SrcGrid, ParityOf(program))
  BY DEF KernelIsGravity
<1>1. PICK q \in 0..1 : \E s \in Grids : KernelAt(q, s)
  BY DEF KernelInv
<1>2. PICK s \in Grids : KernelAt(q, s)
  BY <1>1
<1>3. q = ParityOf(program) /\ HoldsSource(s)
  BY <1>2 DEF KernelAt
<1>4. ~(budget < KernelSteps)
  <2>1. budget \in Budgets /\ budget \in Nat
    BY MachineAssumption DEF KernelInv, MachineInv, Typed
  <2>2. budget >= KernelSteps
    BY <2>1 DEF KernelSteps, PerTile
  <2>3. KernelSteps \in Int
    <3>1. N \in Nat /\ PerTile \in Nat
      BY Sizes DEF PerTile
    <3> DEFINE P == PerTile
    <3> HIDE DEF P
    <3>2. N * P + 11 \in Int
      BY <3>1 DEF P
    <3> QED BY <3>2 DEF KernelSteps, P
  <2> QED BY <2>1, <2>2, <2>3
<1>5. fault = "None" /\ Written(q, s, MemSize)
  BY <1>2, <1>4 DEF KernelAt
<1> QED BY <1>3, <1>5, WrittenIsResult

\* A run with a budget for KernelSteps instructions, which maxInstructions leaves
\* for every grid whose regions the immediates reach, ends in a HALT, and then DST
\* is what the scalar vertical pass of the kernel's parity makes of SRC.
THEOREM KernelGravityHolds ==
  ASSUME \A b \in Budgets : b >= N * (9 * Tile + 7) + 11
  PROVE  MachineSpec => []KernelIsGravity
<1>1. KernelInv => KernelIsGravity
  BY ResultOfInvariant
<1> QED BY KernelInvariant, <1>1, PTL

\* No kernel loads a byte of DST, whatever its budget.
THEOREM KernelReadsOnlySource == MachineSpec => KernelReadsSrcOnly
<1>1. KernelInv /\ [Execute]_mvars =>
        [IsKernel /\ Load => Address(Fetched) + VecBytes <= MemSize]_mvars
  BY KernelStep DEF LoadsSource
<1>2. MachineSpec => [][Execute]_mvars
  BY DEF MachineSpec
<1> QED BY KernelInvariant, <1>1, <1>2, PTL DEF KernelReadsSrcOnly

\* No kernel changes a byte of SRC, whatever its budget: the exception of SrcUntouched
\* is for other programs.
THEOREM KernelsKeepSource ==
  MachineSpec => [][IsKernel => \A a \in 0..(MemSize - 1) : mem'[a] = mem[a]]_mvars
<1>1. KernelInv /\ [Execute]_mvars =>
        [IsKernel => \A a \in 0..(MemSize - 1) : mem'[a] = mem[a]]_mvars
  BY KernelStep DEF SourceKept
<1>2. MachineSpec => [][Execute]_mvars
  BY DEF MachineSpec
<1> QED BY KernelInvariant, <1>1, <1>2, PTL

-----------------------------------------------------------------------------
(* The backend: the front buffer through the passes of a step.             *)

Phases == {"idle", "accelerate", "horizontal", "decay"}

\* What the passes done so far have made of the grid the step began with; while the
\* accelerator runs, its invariant.
BackendInv ==
  /\ SrcGrid \in Grids /\ begun \in Grids /\ frame \in Nat /\ phase \in Phases
  /\ phase = "accelerate" =>
       /\ SrcGrid = begun
       /\ KernelInv /\ program = KernelFor(VerticalParity(frame))
  /\ phase = "horizontal" => SrcGrid = verticalScalar(begun, VerticalParity(frame))
  /\ phase = "decay" => SrcGrid = AfterExchange(begun, frame)

\* The addresses of the front buffer, and the cells behind them.
LEMMA FrontAddresses ==
  /\ MemSize = Size /\ Size \in Nat
  /\ \A p \in Coords : /\ tiledIndex(p) \in 0..(Size - 1) /\ CoordOf(tiledIndex(p)) = p
                       /\ tiledIndex(p) \in MemAddrs /\ tiledIndex(p) < Size
                       /\ Size + tiledIndex(p) \in MemAddrs
<1>1. MemSize = Size /\ Size \in Nat
  BY Sizes
<1>2. ASSUME NEW p \in Coords
      PROVE  tiledIndex(p) \in 0..(Size - 1) /\ CoordOf(tiledIndex(p)) = p
  BY IndexInverse
<1>3. ASSUME NEW a \in 0..(Size - 1)
      PROVE  a \in MemAddrs /\ a < Size /\ Size + a \in MemAddrs
  BY <1>1 DEF MemAddrs
<1> QED BY <1>1, <1>2, <1>3

\* A host pass or an edit leaves its result in the front buffer.
LEMMA FrontWritten ==
  ASSUME NEW g \in Grids, HostPass(g) \/ EditFront(g)
  PROVE  SrcGrid' = g
<1>1. ASSUME NEW p \in Coords PROVE mem'[tiledIndex(p)] = g[p]
  BY <1>1, FrontAddresses DEF HostPass, EditFront, BothBuffers
<1> QED BY <1>1 DEF SrcGrid, Grids

LEMMA FrontSwapped == ASSUME swapBuffers PROVE SrcGrid' = DstGrid
<1>1. ASSUME NEW p \in Coords PROVE mem'[tiledIndex(p)] = mem[MemSize + tiledIndex(p)]
  BY <1>1, FrontAddresses DEF swapBuffers, BothBuffers
<1> QED BY <1>1 DEF SrcGrid, DstGrid

LEMMA FrontCleared ==
  ASSUME mem = BothBuffers(LAMBDA i : Cleared[CoordOf(i)], LAMBDA i : Empty)
  PROVE  SrcGrid = Cleared
<1>1. ASSUME NEW p \in Coords PROVE mem[tiledIndex(p)] = Cleared[p]
  BY <1>1, FrontAddresses DEF BothBuffers
<1> QED BY <1>1 DEF SrcGrid, Cleared

LEMMA FrontKept == ASSUME UNCHANGED mem PROVE SrcGrid' = SrcGrid
BY DEF SrcGrid

\* Bytes that form a grid are cells.
LEMMA GridIsCells == ASSUME SrcGrid \in Grids PROVE SourceIsCells
<1>1. ASSUME NEW a \in 0..(MemSize - 1) PROVE mem[a] \in Cells
  <2>1. a \in 0..(Size - 1)
    BY Sizes
  <2>2. CoordOf(a) \in Coords /\ tiledIndex(CoordOf(a)) = a
    <3>1. PICK t \in Tiles, r \in Edge, i \in Edge : a = At(t, r, i)
      BY <2>1, PlaceOfAddress
    <3>2. CoordOf(a) = CellIn(t, r, i) /\ tiledIndex(CellIn(t, r, i)) = a
      BY <3>1, AddressOfCell
    <3> QED BY <3>2, CellInside
  <2>3. SrcGrid[CoordOf(a)] = mem[a]
    BY <2>2 DEF SrcGrid
  <2> QED BY <2>2, <2>3 DEF Grids
<1> QED BY <1>1 DEF SourceIsCells

LEMMA KernelOfFrame ==
  ASSUME NEW f \in Nat
  PROVE  /\ KernelFor(VerticalParity(f)) \in DOMAIN Kernels \cap DOMAIN Programs
         /\ ParityOf(KernelFor(VerticalParity(f))) = VerticalParity(f)
<1> DEFINE v == VerticalParity(f)
<1>1. v \in {0, 1}
  BY ParityType
<1> HIDE DEF v
<1>2. DOMAIN Kernels = {"parity0", "parity1"}
  BY DEF Kernels
<1>3. KernelFor(v) \in DOMAIN Kernels
  BY <1>1, <1>2 DEF KernelFor
<1>4. \A u \in 0..1 : KernelFor(u) = KernelFor(v) => u = v
  BY <1>1 DEF KernelFor
<1>5. v \in 0..1
  BY <1>1
<1>6. ParityOf(KernelFor(v)) = v
  BY <1>4, <1>5 DEF ParityOf
<1> QED BY <1>3, <1>6, BackendAssumption DEF v

\* A kernel that has halted left the pass in the back buffer, whatever its budget.
LEMMA ResultOfHalt ==
  ASSUME KernelInv, IsKernel, status = "stopped", fault = "None"
  PROVE  DstGrid = verticalScalar(SrcGrid, ParityOf(program))
<1>1. PICK q \in 0..1 : \E s \in Grids : KernelAt(q, s)
  BY DEF KernelInv
<1>2. PICK s \in Grids : KernelAt(q, s)
  BY <1>1
<1>3. q = ParityOf(program) /\ HoldsSource(s) /\ Written(q, s, MemSize)
  BY <1>2 DEF KernelAt
<1> QED BY <1>3, WrittenIsResult

LEMMA BackendEdits ==
  ASSUME BackendInv, Edit
  PROVE  /\ BackendInv' /\ phase = "idle" /\ phase' = "idle" /\ frame' \in Nat
         /\ \/ \E p \in Targets, c \in Materials :
                  SrcGrid' = [SrcGrid EXCEPT ![p] = c] /\ frame' = frame
            \/ \E p \in Targets, r \in Radii, c \in Materials :
                  SrcGrid' = Painted(SrcGrid, p, r, c) /\ frame' = frame
            \/ SrcGrid' = Cleared /\ frame' = 0
            \/ \E fill \in SeedFills : SrcGrid' = Seeded(SrcGrid, fill) /\ frame' = 0
<1>0. /\ phase = "idle" /\ phase' = "idle" /\ begun' = begun
      /\ SrcGrid \in Grids /\ begun \in Grids /\ frame \in Nat
  BY DEF Edit, BackendInv
<1> SUFFICES SrcGrid' \in Grids /\ frame' \in Nat
             /\ \/ \E p \in Targets, c \in Materials :
                      SrcGrid' = [SrcGrid EXCEPT ![p] = c] /\ frame' = frame
                \/ \E p \in Targets, r \in Radii, c \in Materials :
                      SrcGrid' = Painted(SrcGrid, p, r, c) /\ frame' = frame
                \/ SrcGrid' = Cleared /\ frame' = 0
                \/ \E fill \in SeedFills : SrcGrid' = Seeded(SrcGrid, fill) /\ frame' = 0
  BY <1>0 DEF BackendInv, Phases
<1>1. CASE SetCell
  <2>1. PICK p \in Targets, c \in Materials : EditFront([SrcGrid EXCEPT ![p] = c])
    BY <1>1 DEF SetCell
  <2>2. c \in Cells
    BY InputAssumption
  <2>3. [SrcGrid EXCEPT ![p] = c] \in Grids
    BY <1>0, <2>2 DEF Grids
  <2>4. SrcGrid' = [SrcGrid EXCEPT ![p] = c]
    BY <2>1, <2>3, FrontWritten, Zenon
  <2>5. frame' = frame
    BY <1>1 DEF SetCell
  <2> HIDE DEF SrcGrid
  <2> QED BY <1>0, <2>3, <2>4, <2>5
<1>2. CASE PaintDisc
  <2>1. PICK p \in Targets, r \in Radii, c \in Materials : EditFront(Painted(SrcGrid, p, r, c))
    BY <1>2 DEF PaintDisc
  <2>2. c \in Cells
    BY InputAssumption
  <2>3. Painted(SrcGrid, p, r, c) \in Grids
    BY <1>0, <2>2, EditsType
  <2>4. SrcGrid' = Painted(SrcGrid, p, r, c)
    BY <2>1, <2>3, FrontWritten, Zenon
  <2>5. frame' = frame
    BY <1>2 DEF PaintDisc
  <2> QED BY <1>0, <2>3, <2>4, <2>5
<1>3. CASE Clear
  <2>1. Cleared \in Grids
    BY <1>0, EditsType
  <2>2. \A p \in Coords : mem'[tiledIndex(p)] = Cleared[p]
    BY <1>3, FrontAddresses DEF Clear, BothBuffers
  <2>3. SrcGrid' = Cleared
    BY <2>2 DEF SrcGrid, Cleared
  <2> QED BY <1>3, <2>1, <2>3 DEF Clear
<1>4. CASE Seed
  <2>1. PICK fill \in SeedFills : EditFront(Seeded(SrcGrid, fill))
    BY <1>4 DEF Seed
  <2>2. Seeded(SrcGrid, fill) \in Grids
    BY <1>0, EditsType
  <2>3. SrcGrid' = Seeded(SrcGrid, fill)
    BY <2>1, <2>2, FrontWritten, Zenon
  <2>4. frame' = 0
    BY <1>4 DEF Seed
  <2> QED BY <2>2, <2>3, <2>4
<1> QED BY <1>1, <1>2, <1>3, <1>4 DEF Edit

LEMMA BackendInit == Init => BackendInv
<1>1. Init => SrcGrid = Cleared
  BY FrontCleared DEF Init
<1>2. Cleared \in Grids
  BY DEF Cleared, Grids, Cells, Wall, Empty
<1> QED BY <1>1, <1>2 DEF Init, BackendInv, Phases

LEMMA BackendNext == BackendInv /\ [Next]_vars => BackendInv'
<1> SUFFICES ASSUME BackendInv, [Next]_vars PROVE BackendInv'
  OBVIOUS
<1>0. SrcGrid \in Grids /\ begun \in Grids /\ frame \in Nat /\ phase \in Phases
  BY DEF BackendInv
<1>1. CASE BeginStep
  <2>1. /\ phase' = "accelerate" /\ begun' = SrcGrid /\ mem' = mem /\ frame' = frame
        /\ program' = KernelFor(VerticalParity(frame)) /\ budget' \in Budgets /\ Call
    BY <1>1 DEF BeginStep
  <2>2. SrcGrid' = SrcGrid
    BY <2>1, FrontKept
  <2>3. Fresh'
    <3>1. program' \in DOMAIN Programs
      BY <1>0, <2>1, KernelOfFrame
    <3> QED BY <2>1, <3>1 DEF Fresh, Call, Reset
  <2>4. SourceIsCells'
    BY <1>0, <2>1, GridIsCells DEF SourceIsCells
  <2>5. KernelInv'
    BY <2>3, <2>4, FreshKernel, PTL
  <2>6. VerticalParity(frame)' = VerticalParity(frame)
    BY <2>1 DEF VerticalParity
  <2>7. program' = KernelFor(VerticalParity(frame))'
    BY <2>1, <2>6 DEF KernelFor
  <2> QED BY <1>0, <2>1, <2>2, <2>5, <2>7 DEF BackendInv, Phases
<1>2. CASE Accelerate
  <2>1. /\ phase = "accelerate" /\ phase' = phase /\ begun' = begun /\ frame' = frame
        /\ Execute
    BY <1>2 DEF Accelerate
  <2>2. KernelInv /\ SrcGrid = begun /\ program = KernelFor(VerticalParity(frame))
    BY <2>1 DEF BackendInv
  <2>3. KernelInv' /\ program' = program
    BY <2>1, <2>2, KernelStep, ProgramStays
  <2>4. \A a \in 0..(MemSize - 1) : mem'[a] = mem[a]
    <3>1. IsKernel
      BY <1>0, <2>2, KernelOfFrame DEF IsKernel
    <3> QED BY <2>1, <2>2, <3>1, KernelStep DEF SourceKept
  <2>5. SrcGrid' = SrcGrid
    BY <2>4, FrontAddresses DEF SrcGrid
  <2>6. KernelFor(VerticalParity(frame))' = KernelFor(VerticalParity(frame))
    BY <2>1 DEF KernelFor, VerticalParity
  <2> QED BY <1>0, <2>1, <2>2, <2>3, <2>5, <2>6 DEF BackendInv, Phases
<1>3. CASE TakeResult \/ FallBack
  <2>1. /\ phase = "accelerate" /\ phase' = "horizontal" /\ begun' = begun
        /\ frame' = frame /\ status = "stopped"
    BY <1>3 DEF TakeResult, FallBack
  <2>2. KernelInv /\ SrcGrid = begun /\ program = KernelFor(VerticalParity(frame))
    BY <2>1 DEF BackendInv
  <2> DEFINE g == verticalScalar(begun, VerticalParity(frame))
  <2>3. g \in Grids
    BY <1>0, PassesType
  <2>4. SrcGrid' = g
    <3>1. CASE TakeResult
      <4>1. fault = "None" /\ swapBuffers
        BY <3>1 DEF TakeResult
      <4>2. IsKernel /\ ParityOf(program) = VerticalParity(frame)
        BY <1>0, <2>2, KernelOfFrame DEF IsKernel
      <4>3. DstGrid = g
        BY <2>1, <2>2, <4>1, <4>2, ResultOfHalt
      <4> QED BY <4>1, <4>3, FrontSwapped
    <3>2. CASE FallBack
      <4>1. HostPass(g)
        BY <2>2, <3>2 DEF FallBack
      <4> HIDE DEF g
      <4> QED BY <2>3, <4>1, FrontWritten
    <3> QED BY <1>3, <3>1, <3>2
  <2>5. g' = g
    BY <2>1 DEF verticalScalar, verticalCell, VerticalParity
  <2> HIDE DEF g
  <2>6. SrcGrid' \in Grids /\ SrcGrid' = g'
    BY <2>3, <2>4, <2>5
  <2> QED BY <1>0, <2>1, <2>6 DEF BackendInv, Phases, g
<1>4. CASE HostHorizontal
  <2>1. /\ phase = "horizontal" /\ phase' = "decay" /\ begun' = begun /\ frame' = frame
        /\ HostPass(horizontalScalar(SrcGrid, HorizontalParity(frame)))
    BY <1>4 DEF HostHorizontal
  <2> DEFINE g == AfterExchange(begun, frame)
  <2>2. HostPass(g)
    BY <2>1 DEF BackendInv, AfterExchange
  <2>3. g \in Grids
    BY <1>0, FrameType
  <2>4. g' = g
    BY <2>1 DEF AfterExchange
  <2> HIDE DEF g
  <2>5. SrcGrid' = g
    BY <2>2, <2>3, FrontWritten
  <2> QED BY <1>0, <2>1, <2>3, <2>4, <2>5 DEF BackendInv, Phases, g
<1>5. CASE HostDecay
  <2>1. PICK noise \in NoiseWords : HostPass(decayScalar(SrcGrid, noise))
    BY <1>5 DEF HostDecay
  <2>2. decayScalar(SrcGrid, noise) \in Grids
    BY <1>0, PassesType
  <2>3. SrcGrid' \in Grids
    BY <2>1, <2>2, FrontWritten
  <2>4. phase' = "idle" /\ begun' = begun /\ frame' = NextOf(frame)
    BY <1>5 DEF HostDecay
  <2>5. NextOf(frame) \in Nat
    BY <1>0, InputAssumption DEF NextOf
  <2> QED BY <1>0, <2>3, <2>4, <2>5 DEF BackendInv, Phases
<1>6. CASE Edit
  BY <1>6, BackendEdits
<1>7. CASE UNCHANGED vars
  <2>1. UNCHANGED <<mem, frame, phase, begun>> /\ UNCHANGED mvars
    BY <1>7 DEF vars, machine, mvars
  <2>2. SrcGrid' = SrcGrid
    BY <2>1, FrontKept
  <2>3. KernelInv => KernelInv'
    BY <2>1, KernelStep
  <2>4. program' = program
    BY <2>1 DEF mvars
  <2>5. /\ KernelFor(VerticalParity(frame))' = KernelFor(VerticalParity(frame))
        /\ verticalScalar(begun, VerticalParity(frame))' =
             verticalScalar(begun, VerticalParity(frame))
        /\ AfterExchange(begun, frame)' = AfterExchange(begun, frame)
    BY <2>1
  <2> QED BY <2>1, <2>2, <2>3, <2>4, <2>5 DEF BackendInv
<1> QED BY <1>1, <1>2, <1>3, <1>4, <1>5, <1>6, <1>7 DEF Next, Work

-----------------------------------------------------------------------------
(* The instance brings its own copy of every definition; on the same grid  *)
(* the copies mean the same.                                               *)

LEMMA SameGeometry ==
  /\ Sim!Coords = Coords /\ Sim!Interior = Interior /\ Sim!Ledges = Ledges
  /\ Sim!Cleared = Cleared
  /\ \A g, fill : Sim!Seeded(g, fill) = Seeded(g, fill)
  /\ \A g, p, r, c : Sim!Painted(g, p, r, c) = Painted(g, p, r, c)
  /\ \A f : Sim!NextOf(f) = NextOf(f)
<1>1. Sim!Coords = Coords
  BY DEF Sim!Coords, Sim!Cols, Sim!Rows, Coords, Cols, Rows
<1>2. Sim!Interior = Interior
  BY <1>1 DEF Sim!Interior, Interior
<1>3. Sim!Ledges = Ledges
  BY <1>2 DEF Sim!Ledges, Ledges
<1>4. Sim!Cleared = Cleared
  BY <1>1, <1>2 DEF Sim!Cleared, Cleared, Sim!Border, Border,
                    Sim!Wall, Wall, Sim!Empty, Empty
<1>5. ASSUME NEW g, NEW fill PROVE Sim!Seeded(g, fill) = Seeded(g, fill)
  BY <1>1, <1>2, <1>3 DEF Sim!Seeded, Seeded, Sim!Wall, Wall
<1>6. ASSUME NEW p, NEW r PROVE Sim!Disc(p, r) = Disc(p, r)
  BY <1>2 DEF Sim!Disc, Disc
<1>7. ASSUME NEW g, NEW p, NEW r, NEW c
      PROVE  Sim!Painted(g, p, r, c) = Painted(g, p, r, c)
  BY <1>1, <1>6 DEF Sim!Painted, Painted
<1>8. ASSUME NEW f PROVE Sim!NextOf(f) = NextOf(f)
  BY DEF Sim!NextOf, NextOf
<1> QED BY <1>1, <1>2, <1>3, <1>4, <1>5, <1>7, <1>8

LEMMA SameRules ==
  /\ \A a, b : Sim!swapVertical(a, b) = swapVertical(a, b)
  /\ \A a, b, ba, bb, aa, ab :
        Sim!swapHorizontal(a, b, ba, bb, aa, ab) = swapHorizontal(a, b, ba, bb, aa, ab)
  /\ \A c, l, r, u, d, burns :
        Sim!decayFire(c, l, r, u, d, burns) = decayFire(c, l, r, u, d, burns)
<1> USE DEF Sim!Empty, Empty, Sim!Sand, Sand, Sim!Water, Water, Sim!Fire, Fire,
            Sim!Wall, Wall
<1>1. ASSUME NEW a, NEW b PROVE Sim!swapVertical(a, b) = swapVertical(a, b)
  BY DEF Sim!swapVertical, swapVertical, Sim!denserThan, denserThan,
         Sim!Signed8, Signed8, Sim!densityBiased, densityBiased
<1>2. ASSUME NEW a, NEW b, NEW ba, NEW bb, NEW aa, NEW ab
      PROVE  Sim!swapHorizontal(a, b, ba, bb, aa, ab) =
                swapHorizontal(a, b, ba, bb, aa, ab)
  BY DEF Sim!swapHorizontal, swapHorizontal, Sim!Spreads, Spreads,
         Sim!isMobile, isMobile, Sim!blockedVertically, blockedVertically
<1>3. ASSUME NEW c, NEW l, NEW r, NEW u, NEW d, NEW burns
      PROVE  Sim!decayFire(c, l, r, u, d, burns) = decayFire(c, l, r, u, d, burns)
  BY DEF Sim!decayFire, decayFire
<1> QED BY <1>1, <1>2, <1>3

LEMMA SamePasses ==
  \A g, f, z : Sim!NextFrame(g, f, z) = NextFrame(g, f, z)
<1> USE DEF Sim!Above, Above, Sim!Below, Below, Sim!LeftOf, LeftOf,
            Sim!RightOf, RightOf
<1>1. ASSUME NEW s, NEW p PROVE Sim!sampleCell(s, p) = sampleCell(s, p)
  BY SameGeometry DEF Sim!sampleCell, sampleCell, Sim!Wall, Wall
<1>2. ASSUME NEW s, NEW parity
      PROVE  Sim!verticalScalar(s, parity) = verticalScalar(s, parity)
  <2>1. ASSUME NEW p PROVE Sim!verticalCell(s, parity, p) = verticalCell(s, parity, p)
    BY <1>1, SameRules DEF Sim!verticalCell, verticalCell
  <2> QED BY <2>1, SameGeometry DEF Sim!verticalScalar, verticalScalar
<1>3. ASSUME NEW s, NEW parity
      PROVE  Sim!horizontalScalar(s, parity) = horizontalScalar(s, parity)
  <2>1. ASSUME NEW p PROVE Sim!PairSpreads(s, p) = PairSpreads(s, p)
    BY <1>1, SameRules DEF Sim!PairSpreads, PairSpreads
  <2>2. ASSUME NEW p PROVE Sim!horizontalCell(s, parity, p) = horizontalCell(s, parity, p)
    BY <1>1, <2>1 DEF Sim!horizontalCell, horizontalCell
  <2> QED BY <2>2, SameGeometry DEF Sim!horizontalScalar, horizontalScalar
<1>4. ASSUME NEW s, NEW z PROVE Sim!decayScalar(s, z) = decayScalar(s, z)
  <2>1. ASSUME NEW p PROVE Sim!decayCell(s, z, p) = decayCell(s, z, p)
    BY <1>1, SameRules DEF Sim!decayCell, decayCell, Sim!randBit, randBit
  <2> QED BY <2>1, SameGeometry DEF Sim!decayScalar, decayScalar
<1> QED BY <1>2, <1>3, <1>4
        DEF Sim!NextFrame, NextFrame, Sim!AfterExchange, AfterExchange,
            Sim!VerticalParity, VerticalParity, Sim!HorizontalParity, HorizontalParity

LEMMA RefineInit == Init => Sim!Init
<1> SUFFICES ASSUME Init PROVE Sim!Init
  OBVIOUS
<1>1. SrcGrid = Cleared /\ frame = 0 /\ phase = "idle"
  BY FrontCleared DEF Init
<1> QED BY <1>1, SameGeometry DEF Sim!Init

LEMMA RefineNext == BackendInv /\ [Next]_vars => [Sim!Next]_(Sim!vars)
<1> SUFFICES ASSUME BackendInv, [Next]_vars PROVE [Sim!Next]_(Sim!vars)
  OBVIOUS
<1> DEFINE F == IF phase = "idle" THEN SrcGrid ELSE begun
<1>s. F' = F /\ frame' = frame => UNCHANGED Sim!vars
  BY DEF Sim!vars
<1>1. CASE BeginStep
  <2>1. F = SrcGrid /\ F' = SrcGrid /\ frame' = frame
    BY <1>1 DEF BeginStep
  <2> QED BY <2>1, <1>s
<1>2. CASE Accelerate \/ TakeResult \/ FallBack \/ HostHorizontal
  <2>1. F = begun /\ F' = begun /\ frame' = frame
    BY <1>2 DEF Accelerate, TakeResult, FallBack, HostHorizontal
  <2> QED BY <2>1, <1>s
<1>3. CASE HostDecay
  <2>1. /\ phase = "decay" /\ phase' = "idle" /\ frame' = NextOf(frame)
        /\ \E noise \in NoiseWords : HostPass(decayScalar(SrcGrid, noise))
    BY <1>3 DEF HostDecay
  <2>2. SrcGrid \in Grids /\ SrcGrid = AfterExchange(begun, frame)
    BY <2>1 DEF BackendInv
  <2>3. PICK noise \in NoiseWords : HostPass(decayScalar(SrcGrid, noise))
    BY <2>1
  <2>4. decayScalar(SrcGrid, noise) \in Grids
    BY <2>2, PassesType
  <2>5. SrcGrid' = decayScalar(SrcGrid, noise)
    BY <2>3, <2>4, FrontWritten
  <2>6. F = begun /\ F' = NextFrame(begun, frame, noise)
    BY <2>1, <2>2, <2>5 DEF NextFrame
  <2>7. Sim!Step
    BY <2>1, <2>6, SameGeometry, SamePasses DEF Sim!Step
  <2> QED BY <2>7 DEF Sim!Next
<1>4. CASE Edit
  <2>1. phase = "idle" /\ phase' = "idle"
    BY <1>4, BackendEdits
  <2>2. F = SrcGrid /\ F' = SrcGrid'
    BY <2>1
  <2>3. CASE \E p \in Targets, c \in Materials :
               SrcGrid' = [SrcGrid EXCEPT ![p] = c] /\ frame' = frame
    BY <2>2, <2>3 DEF Sim!SetCell, Sim!Edit, Sim!Next
  <2>4. CASE \E p \in Targets, r \in Radii, c \in Materials :
               SrcGrid' = Painted(SrcGrid, p, r, c) /\ frame' = frame
    BY <2>2, <2>4, SameGeometry DEF Sim!PaintDisc, Sim!Edit, Sim!Next
  <2>5. CASE SrcGrid' = Cleared /\ frame' = 0
    BY <2>2, <2>5, SameGeometry DEF Sim!Clear, Sim!Edit, Sim!Next
  <2>6. CASE \E fill \in SeedFills : SrcGrid' = Seeded(SrcGrid, fill) /\ frame' = 0
    BY <2>2, <2>6, SameGeometry DEF Sim!Seed, Sim!Edit, Sim!Next
  <2> QED BY <1>4, <2>3, <2>4, <2>5, <2>6, BackendEdits
<1>5. CASE UNCHANGED vars
  <2>1. mem' = mem /\ phase' = phase /\ begun' = begun /\ frame' = frame
    BY <1>5 DEF vars
  <2>2. F' = F
    BY <2>1, FrontKept
  <2> QED BY <2>1, <2>2, <1>s
<1> QED BY <1>1, <1>2, <1>3, <1>4, <1>5 DEF Next, Work

\* With the accelerator in the loop, whatever budget each of its runs has and
\* wherever it gives up, the backend implements the atomic simulation.
THEOREM ToyImplementsSimulation == Spec => Implements
<1>1. Init => BackendInv
  BY BackendInit
<1>2. BackendInv /\ [Next]_vars => BackendInv'
  BY BackendNext
<1>3. Init => Sim!Init
  BY RefineInit
<1>4. BackendInv /\ [Next]_vars => [Sim!Next]_(Sim!vars)
  BY RefineNext
<1> QED BY <1>1, <1>2, <1>3, <1>4, PTL DEF Spec, Implements, Sim!Spec

=============================================================================
