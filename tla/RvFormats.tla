----------------------------- MODULE RvFormats -----------------------------
(***************************************************************************)
(* The formats of RV32I: an instruction, and the word that stands for it,  *)
(* which the decoder has to take apart again.                              *)
(***************************************************************************)
EXTENDS Decoder

Instruction == [op : Opcode, rd : Bits(5), rs1 : Bits(5), rs2 : Bits(5),
                func3 : Bits(3), func7 : Bits(7), imm : Bits(32)]

\* Bits n and up are copies of the sign.
SignFrom(imm, n) == \A k \in n .. 31 : imm[k] = imm[31]

IsShift(i) == i.op = "OP_IMM" /\ ShiftFunc3(i.func3)

\* The immediate is one the format has room for.
Encodable(i) ==
    CASE i.op \in {"LUI", "AUIPC"} -> \A k \in 0 .. 11 : i.imm[k] = 0
      [] i.op = "JAL" -> i.imm[0] = 0 /\ SignFrom(i.imm, 20)
      [] i.op = "BRANCH" -> i.imm[0] = 0 /\ SignFrom(i.imm, 12)
      [] i.op \in {"JALR", "LOAD", "STORE"} -> SignFrom(i.imm, 11)
      [] i.op = "OP_IMM" -> IF IsShift(i) THEN \A k \in 5 .. 31 : i.imm[k] = 0
                            ELSE SignFrom(i.imm, 11)
      [] i.op = "OP" -> i.imm = Zeros(32)

\* Which formats have which field (that of jalr is always 0).
HasRd(i) == i.op \notin {"STORE", "BRANCH"}
HasRs1(i) == i.op \notin {"JAL", "LUI", "AUIPC"}
HasRs2(i) == i.op \in {"OP", "STORE", "BRANCH"}
HasFunc3(i) == i.op \in {"OP_IMM", "OP", "LOAD", "STORE", "BRANCH"}
HasFunc7(i) == i.op = "OP" \/ IsShift(i)

\* Bits 31 down to 25, 24 to 20, 19 to 12 and 11 to 7 of the word.
High(i, k) ==
    CASE HasFunc7(i) -> i.func7[k - 25]
      [] i.op \in {"LUI", "AUIPC"} -> i.imm[k]
      [] i.op \in {"JALR", "LOAD", "STORE"} \/ (i.op = "OP_IMM" /\ ~IsShift(i)) ->
           i.imm[k - 20]
      [] i.op = "BRANCH" -> IF k = 31 THEN i.imm[12] ELSE i.imm[k - 20]
      [] i.op = "JAL" -> IF k = 31 THEN i.imm[20] ELSE i.imm[k - 20]

Second(i, k) ==
    CASE HasRs2(i) -> i.rs2[k - 20]
      [] i.op \in {"LUI", "AUIPC"} -> i.imm[k]
      [] i.op \in {"JALR", "LOAD", "OP_IMM"} -> i.imm[k - 20]
      [] i.op = "JAL" -> IF k = 20 THEN i.imm[11] ELSE i.imm[k - 20]

First(i, k) ==
    CASE ~HasRs1(i) -> i.imm[k]
      [] HasRs1(i) -> IF k >= 15 THEN i.rs1[k - 15] ELSE i.func3[k - 12]

Low(i, k) ==
    CASE HasRd(i) -> i.rd[k - 7]
      [] i.op = "STORE" -> i.imm[k - 7]
      [] i.op = "BRANCH" -> IF k = 7 THEN i.imm[11] ELSE i.imm[k - 7]

Encode(i) ==
    [k \in 0 .. 31 |-> CASE k >= 25 -> High(i, k)
                         [] k \in 20 .. 24 -> Second(i, k)
                         [] k \in 12 .. 19 -> First(i, k)
                         [] k \in 7 .. 11 -> Low(i, k)
                         [] k <= 6 -> Code[i.op][k + 1]]

\* The decoder gives back the instruction: the operation, the immediate
\* extended, and every field the format has.
Agree(i, d) ==
    /\ d.opcode = i.op /\ d.imm = i.imm
    /\ d.wreg = HasRd(i) /\ d.read1 = HasRs1(i) /\ d.read2 = HasRs2(i)
    /\ HasRd(i) => d.rd = i.rd
    /\ HasRs1(i) => d.rs1 = i.rs1
    /\ HasRs2(i) => d.rs2 = i.rs2
    /\ HasFunc3(i) => d.func3 = i.func3
    /\ HasFunc7(i) => d.func7 = i.func7

\* The word of an instruction decodes to that instruction and no other.
DecodesTo(i) == \E d \in Decode(Encode(i)) : Decode(Encode(i)) = {d} /\ Agree(i, d)
=============================================================================
