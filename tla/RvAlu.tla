------------------------------- MODULE RvAlu -------------------------------
(***************************************************************************)
(* What the RV32I instruction set defines its operations to be, on values  *)
(* of XLEN bits: arithmetic on two's-complement integers, logic and shifts *)
(* bit by bit.  A value is a natural number below 2^XLEN.                  *)
(***************************************************************************)
EXTENDS Integers

CONSTANT XLEN

\* The integer a value stands for, and the value that stands for an integer.
IntOf(x) == x - (IF x \div 2^(XLEN - 1) = 1 THEN 2^XLEN ELSE 0)
ValOf(n) == n % 2^XLEN

\* The bits of a value that are set, and back.
Ones(x) == {i \in 0 .. XLEN - 1 : (x \div 2^i) % 2 = 1}
ValOfOnes(S) == CHOOSE v \in 0 .. 2^XLEN - 1 : Ones(v) = S

ShiftedRight(x, n) == {i \in 0 .. XLEN - 1 : i + n \in Ones(x)}

\* The vacated bits of an arithmetic right shift copy the sign bit.
SignFill(x, n) ==
    IF XLEN - 1 \in Ones(x) THEN (XLEN - n) .. (XLEN - 1) ELSE {}

RvOp(func3, alt, a, b) ==
    LET n == b % XLEN IN
    CASE func3 = "ADD_SUB" -> ValOf(IntOf(a) + (IF alt THEN -IntOf(b) ELSE IntOf(b)))
      [] func3 = "SLL"  -> ValOfOnes({i \in 0 .. XLEN - 1 : i - n \in Ones(a)})
      [] func3 = "SLT"  -> IF IntOf(a) < IntOf(b) THEN 1 ELSE 0
      [] func3 = "SLTU" -> IF a < b THEN 1 ELSE 0
      [] func3 = "XOR"  -> ValOfOnes((Ones(a) \union Ones(b)) \ (Ones(a) \intersect Ones(b)))
      [] func3 = "OR"   -> ValOfOnes(Ones(a) \union Ones(b))
      [] func3 = "AND"  -> ValOfOnes(Ones(a) \intersect Ones(b))
      [] func3 = "SRL_SRA" -> ValOfOnes(ShiftedRight(a, n)
                                  \union IF alt THEN SignFill(a, n) ELSE {})

\* Immediate operations: only the right shifts have a variant.
RvOpImm(func3, alt, a, imm) == RvOp(func3, alt /\ func3 = "SRL_SRA", a, imm)

RvTaken(func3, a, b) ==
    CASE func3 = "BEQ"  -> a = b
      [] func3 = "BNE"  -> a # b
      [] func3 = "BLT"  -> IntOf(a) < IntOf(b)
      [] func3 = "BGE"  -> IntOf(a) >= IntOf(b)
      [] func3 = "BLTU" -> a < b
      [] func3 = "BGEU" -> a >= b
=============================================================================
