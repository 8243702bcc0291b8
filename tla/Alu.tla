-------------------------------- MODULE Alu --------------------------------
(***************************************************************************)
(* The arithmetic of the EX stage (ex.v): register values are XLEN bits    *)
(* wide, 32 in the source, and instructions name an operation by func3 and *)
(* bit 30 (alt, the only bit of func7 that RV32I sets).                    *)
(***************************************************************************)
EXTENDS Integers

CONSTANT XLEN

ASSUME XlenAssumption == XLEN \in Nat /\ XLEN >= 2
\* The laws of powers; the provers have no theory of them.
ASSUME PowerAssumption ==
    /\ \A n \in 0 .. XLEN : 2^n \in Nat \ {0}
    /\ \A m, n \in 0 .. XLEN : m + n <= XLEN => 2^(m + n) = 2^m * 2^n

Value == 0 .. 2^XLEN - 1

Wrap(x) == x % 2^XLEN

\* $signed(x)
Signed(x) == IF x < 2^(XLEN - 1) THEN x ELSE x - 2^XLEN

BitAt(x, i) == (x \div 2^i) % 2

\* The value whose i-th bit is f[i].
FromBits(f) == CHOOSE v \in Value : \A i \in 0 .. XLEN - 1 : BitAt(v, i) = f[i]

\* The shift amount is the low log2(XLEN) bits of the operand.
Shamt(b) == b % XLEN

\* The operations func3 selects.
Func3Op == {"ADD_SUB", "SLL", "SLT", "SLTU", "XOR", "SRL_SRA", "OR", "AND"}

\* Mutant: set-less-than compares unsigned.
MutAluOp(func3, alt, a, b) ==
    CASE func3 = "ADD_SUB" -> IF alt THEN Wrap(a - b) ELSE Wrap(a + b)
      [] func3 = "SLL"  -> Wrap(a * 2^Shamt(b))
      [] func3 = "SLT"  -> IF a < b THEN 1 ELSE 0
      [] func3 = "SLTU" -> IF a < b THEN 1 ELSE 0
      [] func3 = "XOR"  -> FromBits([i \in 0 .. XLEN - 1 |-> (BitAt(a, i) + BitAt(b, i)) % 2])
      [] func3 = "SRL_SRA" -> a \div 2^Shamt(b)
      [] func3 = "OR"   -> FromBits([i \in 0 .. XLEN - 1 |-> BitAt(a, i) + BitAt(b, i) - BitAt(a, i) * BitAt(b, i)])
      [] func3 = "AND"  -> FromBits([i \in 0 .. XLEN - 1 |-> BitAt(a, i) * BitAt(b, i)])
      [] OTHER -> 0

\* OP_OP; >> is a logical shift in Verilog whatever the sign of its operand.
AluOp(func3, alt, a, b) ==
    CASE func3 = "ADD_SUB" -> IF alt THEN Wrap(a - b) ELSE Wrap(a + b)
      [] func3 = "SLL"  -> Wrap(a * 2^Shamt(b))
      [] func3 = "SLT"  -> IF Signed(a) < Signed(b) THEN 1 ELSE 0
      [] func3 = "SLTU" -> IF a < b THEN 1 ELSE 0
      [] func3 = "XOR"  -> FromBits([i \in 0 .. XLEN - 1 |-> (BitAt(a, i) + BitAt(b, i)) % 2])
      [] func3 = "SRL_SRA" -> a \div 2^Shamt(b)
      [] func3 = "OR"   -> FromBits([i \in 0 .. XLEN - 1 |-> BitAt(a, i) + BitAt(b, i) - BitAt(a, i) * BitAt(b, i)])
      [] func3 = "AND"  -> FromBits([i \in 0 .. XLEN - 1 |-> BitAt(a, i) * BitAt(b, i)])
      [] OTHER -> 0

\* OP_OP_IMM: the same operations; func7 is an immediate's bits but for SR*I.
AluOpImm(func3, alt, a, imm) == AluOp(func3, alt /\ func3 = "SRL_SRA", a, imm)

BranchTaken(func3, a, b) ==
    \/ func3 = "BEQ"  /\ a = b
    \/ func3 = "BNE"  /\ a # b
    \/ func3 = "BLT"  /\ Signed(a) < Signed(b)
    \/ func3 = "BGE"  /\ Signed(a) >= Signed(b)
    \/ func3 = "BLTU" /\ a < b
    \/ func3 = "BGEU" /\ a >= b

\* What RV32I defines the operations to be.
Rv == INSTANCE RvAlu
=============================================================================
