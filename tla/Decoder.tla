------------------------------ MODULE Decoder ------------------------------
(***************************************************************************)
(* The field extraction of the ID stage (id.v): an instruction word, bit   *)
(* by bit, to its operation, registers and immediate.  Cpu takes the       *)
(* result from a table.                                                    *)
(***************************************************************************)
EXTENDS Integers

Bit == {0, 1}
Bits(n) == [0 .. n - 1 -> Bit]

\* w[lo + n - 1 : lo]
Slice(w, lo, n) == [i \in 0 .. n - 1 |-> w[lo + i]]

Zeros(n) == [i \in 0 .. n - 1 |-> 0]

Opcode == {"LUI", "AUIPC", "JAL", "JALR", "BRANCH", "LOAD", "STORE", "OP_IMM", "OP"}

\* The constants of defines.vh, lowest bit first.  All end in 11.
Code ==
    [LUI    |-> <<1, 1, 1, 0, 1, 1, 0>>, AUIPC  |-> <<1, 1, 1, 0, 1, 0, 0>>,
     JAL    |-> <<1, 1, 1, 1, 0, 1, 1>>, JALR   |-> <<1, 1, 1, 0, 0, 1, 1>>,
     BRANCH |-> <<1, 1, 0, 0, 0, 1, 1>>, LOAD   |-> <<1, 1, 0, 0, 0, 0, 0>>,
     STORE  |-> <<1, 1, 0, 0, 0, 1, 0>>, OP_IMM |-> <<1, 1, 0, 0, 1, 0, 0>>,
     OP     |-> <<1, 1, 0, 0, 1, 1, 0>>]

HasOpcode(w, op) == \A i \in 0 .. 6 : w[i] = Code[op][i + 1]

\* SLLI_FUNCT3 and SRLI_SRAI_FUNCT3: the low bits of func3 are 01.
ShiftFunc3(f) == f[0] = 1 /\ f[1] = 0

-----------------------------------------------------------------------------
(* id.v.                                                                   *)

ImmI(w) == [i \in 0 .. 31 |-> IF i <= 11 THEN w[20 + i] ELSE w[31]]

ImmShift(w) == [i \in 0 .. 31 |-> IF i <= 4 THEN w[20 + i] ELSE 0]

ImmS(w) ==
    [i \in 0 .. 31 |-> CASE i <= 4 -> w[7 + i]
                         [] i \in 5 .. 11 -> w[20 + i]
                         [] i >= 12 -> w[31]]

\* Mutant: the bit of a branch that lies apart is taken for the sign.
MutImmB(w) ==
    [i \in 0 .. 31 |-> CASE i = 0 -> 0
                         [] i \in 1 .. 4 -> w[7 + i]
                         [] i \in 5 .. 11 -> w[20 + i]
                         [] i >= 12 -> w[7]]

ImmB(w) ==
    [i \in 0 .. 31 |-> CASE i = 0 -> 0
                         [] i \in 1 .. 4 -> w[7 + i]
                         [] i \in 5 .. 10 -> w[20 + i]
                         [] i = 11 -> w[7]
                         [] i >= 12 -> w[31]]

ImmU(w) == [i \in 0 .. 31 |-> IF i <= 11 THEN 0 ELSE w[i]]

ImmJ(w) ==
    [i \in 0 .. 31 |-> CASE i = 0 -> 0
                         [] i \in 1 .. 10 -> w[20 + i]
                         [] i = 11 -> w[20]
                         [] i \in 12 .. 19 -> w[i]
                         [] i >= 20 -> w[31]]

Imm(op, w) ==
    CASE op \in {"LUI", "AUIPC"} -> ImmU(w)
      [] op = "JAL" -> ImmJ(w)
      [] op \in {"JALR", "LOAD"} -> ImmI(w)
      [] op = "OP_IMM" -> IF ShiftFunc3(Slice(w, 12, 3)) THEN ImmShift(w) ELSE ImmI(w)
      [] op = "STORE" -> ImmS(w)
      [] op = "BRANCH" -> ImmB(w)
      [] op = "OP" -> Zeros(32)

\* What ID hands on for a word with one of the opcodes.  The register numbers
\* are there whether the instruction has them or not.
Decoded(op, w) ==
    [opcode |-> op,
     rd |-> Slice(w, 7, 5), rs1 |-> Slice(w, 15, 5), rs2 |-> Slice(w, 20, 5),
     func3 |-> IF op \in {"OP_IMM", "OP", "LOAD", "STORE", "BRANCH"}
               THEN Slice(w, 12, 3) ELSE Zeros(3),
     func7 |-> IF op \in {"OP_IMM", "OP"} THEN Slice(w, 25, 7) ELSE Zeros(7),
     imm |-> Imm(op, w),
     wreg |-> op \notin {"STORE", "BRANCH"},
     read1 |-> op \notin {"JAL", "LUI", "AUIPC"},
     read2 |-> op \in {"OP", "STORE", "BRANCH"}]

\* The case statement; a word with none of the opcodes does nothing.
Decode(w) ==
    {Decoded(op, w) : op \in {o \in Opcode : HasOpcode(w, o)}}
=============================================================================
